----------------------------- MODULE AcpSessions -----------------------------
(***************************************************************************)
(* The session requests of the ACP server (fluent-code-acp/src/server.rs)  *)
(* over the session store: initialize, authenticate, session/new, load,    *)
(* resume, close, and the saves of a prompt turn, with failing writes,     *)
(* crashes and restarts.  A handler runs under the connection's lock and   *)
(* the store writes synchronously, so nothing but a failure comes between  *)
(* the writes of one save.  A prompt turn is reduced to the records it     *)
(* makes and changes; its protocol is module PromptTurn, startup recovery  *)
(* is in module Reducer.                                                   *)
(***************************************************************************)
EXTENDS SessionStore

CONSTANTS
    AuthRequired,   \* the configuration advertises authentication methods
    LegacySession,  \* a session saved by a version without replay sequences, or NoId
    MaxFaults,      \* bound: failed writes and crashes
    MaxWork         \* bound: records made and changed, over all sessions

ASSUME AcpSessionsAssumption ==
    /\ AuthRequired \in BOOLEAN
    /\ LegacySession \in Session \cup {NoId}
    /\ MaxFaults \in Nat /\ MaxWork \in Nat

VARIABLES
    proto,    \* the server: down, uninitialized or initialized
    authed,   \* the connection is authenticated
    open,     \* the sessions map: the sessions with a managed host
    mem,      \* the session each managed host holds
    busy,     \* sessions with a prompt in flight
    faults,   \* failures so far
    work,     \* records made and changed so far
    saved,    \* what the last completed save of each session wrote
    torn,     \* sessions whose last save did not complete
    scarred   \* sessions loaded from such files since

vars == <<disk, latest, save, proto, authed, open, mem, busy, faults, work, saved, torn, scarred>>
serverVars == <<proto, authed, open, mem, busy>>

\* a run and a turn of version 1: no sequences, no transcript file
LegacyFiles ==
    LET first == CHOOSE r \in MetaRec : \A q \in MetaRec : r <= q
        turn == CHOOSE r \in TurnRec : \A q \in TurnRec : r <= q
    IN  [meta |-> [Missing EXCEPT !.state = "whole", !.recs = {first}],
         turns |-> [exists |-> TRUE, torn |-> FALSE,
                    lines |-> <<[rec |-> turn, seq |-> 0, version |-> 0]>>],
         items |-> NoLines]

Init ==
    /\ disk = [s \in Session |-> IF s = LegacySession THEN LegacyFiles ELSE NoFiles]
    /\ latest = LegacySession
    /\ save = Idle
    /\ proto = "down" /\ authed = FALSE /\ open = {} /\ busy = {}
    /\ mem = [s \in Session |-> NewSession]
    /\ faults = 0 /\ work = 0
    /\ saved = [s \in Session |-> NewSession]
    /\ torn = {} /\ scarred = {}

Fresh(s) == disk[s].meta.state = "missing" /\ s \notin open
Settled == UNCHANGED <<faults, saved, torn>>
Unchanged == Settled /\ UNCHANGED work

\* load(): the damage of an interrupted save stays with the session
Scar(s) == scarred' = IF s \in torn THEN scarred \cup {s} ELSE scarred

\* create_new_session
Create(s, then) ==
    /\ Fresh(s) /\ BeginSave(s, NewSession, then)
    /\ UNCHANGED <<latest, scarred>>

\* load_host and recover_startup: recovery may change the session and save it
LoadAnd(s, then) ==
    /\ Loadable(disk[s]) /\ Scar(s)
    /\ \/ BeginSave(s, Loaded(disk[s]), then) /\ UNCHANGED latest
       \/ /\ save' = [Idle EXCEPT !.at = "done", !.s = s, !.mem = Loaded(disk[s]), !.then = then]
          /\ UNCHANGED <<disk, latest>>

\* load_or_create_latest: the latest pointer names a session that has its metadata
LatestIsThere == latest \in Session /\ disk[latest].meta.state # "missing"

\* AcpServer::run: the latest session or a new one, recovered, before the first request;
\* the host made here serves no session
Startup ==
    /\ proto = "down" /\ SaveIdle
    /\ IF LatestIsThere
       THEN LoadAnd(latest, "serve")
       ELSE latest # Torn /\ \E s \in Session : Create(s, "serve")
    /\ Unchanged /\ UNCHANGED serverVars

\* handle_initialize
Initialize ==
    /\ proto = "uninitialized" /\ SaveIdle
    /\ proto' = "initialized"
    /\ UNCHANGED <<disk, latest, save, authed, open, mem, busy, scarred>> /\ Unchanged

\* handle_authenticate, with a method the configuration names
Authenticate ==
    /\ proto = "initialized" /\ SaveIdle /\ AuthRequired
    /\ authed' = TRUE
    /\ UNCHANGED <<disk, latest, save, proto, open, mem, busy, scarred>> /\ Unchanged

\* ensure_official_request_order and ensure_authenticated
MayServe == proto = "initialized" /\ (AuthRequired => authed)

\* the client neither loads nor closes a session while a prompt of it is in flight
Undisturbed(s) == s \notin busy

\* handle_session_new
SessionNew ==
    /\ MayServe /\ SaveIdle
    /\ \E s \in Session : Create(s, "open")
    /\ Unchanged /\ UNCHANGED serverVars

\* handle_session_load and handle_session_resume
SessionLoad(s) ==
    /\ MayServe /\ SaveIdle /\ Undisturbed(s)
    /\ LoadAnd(s, "open")
    /\ Unchanged /\ UNCHANGED serverVars

\* handle_session_close: the host goes with its handle
SessionClose(s) ==
    /\ MayServe /\ SaveIdle /\ s \in open /\ Undisturbed(s)
    /\ open' = open \ {s}
    /\ mem' = [mem EXCEPT ![s] = NewSession]
    /\ UNCHANGED <<disk, latest, save, proto, authed, busy, scarred>> /\ Unchanged

\* a prompt turn starts and ends
Prompt(s) ==
    /\ MayServe /\ SaveIdle /\ s \in open \ busy
    /\ busy' = busy \cup {s}
    /\ UNCHANGED <<disk, latest, save, proto, authed, open, mem, scarred>> /\ Unchanged

PromptDone(s) ==
    /\ SaveIdle /\ s \in busy
    /\ busy' = busy \ {s}
    /\ UNCHANGED <<disk, latest, save, proto, authed, open, mem, scarred>> /\ Unchanged

\* the turn makes a record: Effect::PersistSession
Record(s) ==
    /\ SaveIdle /\ s \in busy
    /\ \E r \in Rec :
        /\ \A q \in mem[s].recs : q < r
        /\ \A i \in DOMAIN mem[s].items : mem[s].items[i].rec < r
        /\ mem' = [mem EXCEPT ![s] = AddRecord(@, r)]
        /\ BeginSave(s, AddRecord(mem[s], r), "nothing")
    /\ work < MaxWork /\ work' = work + 1
    /\ Settled /\ UNCHANGED <<latest, proto, authed, open, busy, scarred>>

\* the turn changes a record: Effect::PersistSessionIfDue may not save yet
Change(s) ==
    /\ SaveIdle /\ s \in busy
    /\ \A r \in mem[s].recs : mem[s].version[r] < MaxVersion
    /\ \E r \in mem[s].recs :
        /\ mem' = [mem EXCEPT ![s] = ChangeRecord(@, r)]
        /\ \/ BeginSave(s, ChangeRecord(mem[s], r), "nothing")
           \/ UNCHANGED <<disk, save>>
    /\ work < MaxWork /\ work' = work + 1
    /\ Settled /\ UNCHANGED <<latest, proto, authed, open, busy, scarred>>

\* the store writes on
Write ==
    /\ SaveStep
    /\ UNCHANGED <<serverVars, faults, work, saved, torn, scarred>>

\* the save is through, and its caller goes on: the server listens, or the
\* session is entered into the map with the host that was built
Done ==
    /\ save.at = "done"
    /\ IF save.n = 0 THEN UNCHANGED <<saved, torn, scarred>>
       ELSE /\ saved' = [saved EXCEPT ![save.s] = save.c]
            /\ torn' = torn \ {save.s}
            /\ UNCHANGED scarred
    /\ proto' = IF save.then = "serve" THEN "uninitialized" ELSE proto
    /\ open' = IF save.then = "open" THEN open \cup {save.s} ELSE open
    /\ mem' = IF save.then = "open" THEN [mem EXCEPT ![save.s] = save.mem] ELSE mem
    /\ save' = Idle
    /\ UNCHANGED <<disk, latest, authed, busy, faults, work>>

\* a write fails: the request or the turn ends with an error, a start-up fails
WriteFails ==
    /\ faults < MaxFaults /\ Interrupt
    /\ faults' = faults + 1
    /\ torn' = torn \cup {save.s}
    /\ busy' = busy \ {save.s}
    /\ UNCHANGED <<proto, authed, open, mem, work, saved, scarred>>

\* the server dies or is stopped, within a save or not
Crash ==
    /\ proto # "down" /\ faults < MaxFaults
    /\ \/ SaveIdle /\ UNCHANGED <<disk, latest, save, torn>>
       \/ Interrupt /\ torn' = torn \cup {save.s}
    /\ faults' = faults + 1
    /\ proto' = "down" /\ authed' = FALSE /\ open' = {} /\ busy' = {}
    /\ mem' = [s \in Session |-> NewSession]
    /\ UNCHANGED <<work, saved, scarred>>

Next ==
    \/ Startup \/ Initialize \/ Authenticate \/ SessionNew
    \/ \E s \in Session :
        SessionLoad(s) \/ SessionClose(s) \/ Prompt(s) \/ PromptDone(s) \/ Record(s) \/ Change(s)
    \/ Write \/ Done \/ WriteFails \/ Crash

Spec == Init /\ [][Next]_vars
=============================================================================
