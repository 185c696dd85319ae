------------------------------ MODULE ModelRequest ------------------------------
(***************************************************************************)
(* The request every StartAssistant effect carries to the model            *)
(* (fluent-code-app/src/app/request_builder.rs): which turns, calls and    *)
(* results of the session the model is shown, under which system prompt    *)
(* and with which tools.  The handler builds the request from the state it *)
(* leaves, and that state does not change before its effects are applied,  *)
(* so the request of an effect in pend is a function of st.                *)
(*                                                                         *)
(* The messages are in the order of session.turns, and after each turn its *)
(* calls in the order they were made, each with its result behind it; the  *)
(* model keeps which turns, calls and results there are.  The provider     *)
(* sends the last message as the prompt and the others as its history,     *)
(* under its own system prompt unless the request brings one.              *)
(***************************************************************************)
EXTENDS AgentHostProperties

Request == [turns : SUBSET Nat, calls : SUBSET Inv, results : SUBSET Inv,
            prompt : {"default", "agent's"}, offered : SUBSET Tool]

\* the turns shown: the whole conversation of the root runs, or one child's own
ShownTurns(s, r) ==
    {k \in DOMAIN s.turns :
        IF IsChild(s, r) THEN s.turns[k].run = r ELSE ~IsChild(s, s.turns[k].run)}

\* append_tool_messages_after_turn: a call is shown behind its turn, and only
\* when both belong to the same run
ShownCalls(s, r) ==
    {i \in Inv : /\ s.invs[i].approval # "Absent"
                 /\ s.invs[i].anchor \in ShownTurns(s, r)
                 /\ s.turns[s.invs[i].anchor].run = s.invs[i].run}

\* mutant: a failed call is shown without its error
HasSucceeded(inv) == inv.approval = "Denied" \/ inv.exec = "Completed"

\* a call whose result, error or denial is sent behind it
HasResult(inv) ==
    \/ inv.approval = "Denied"
    \/ inv.approval = "Approved" /\ inv.exec \in {"Completed", "Failed"}

\* build_provider_request: a run that is resumed, and a root run's first request
BuildProviderRequest(s, r) ==
    [turns   |-> ShownTurns(s, r),
     calls   |-> ShownCalls(s, r),
     results |-> {i \in ShownCalls(s, r) : HasResult(s.invs[i])},
     prompt  |-> "default",
     offered |-> Tool]

\* child_provider_request: the delegated prompt alone, which is the turn just pushed
ChildProviderRequest(s, c) ==
    [turns   |-> {LastTurn(s)},
     calls   |-> {},
     results |-> {},
     prompt  |-> "agent's",
     offered |-> Tool \ ChildDenied]

\* a child's first request is made with its prompt turn; every later one of it is
\* built like a root run's
IsFirstOfChild(s, r) ==
    /\ IsChild(s, r)
    /\ s.turns[LastTurn(s)] = [run |-> r, role |-> "User"]
    /\ \A i \in Inv : s.invs[i].run # r

RequestOf(s, r) ==
    IF IsFirstOfChild(s, r) THEN ChildProviderRequest(s, r) ELSE BuildProviderRequest(s, r)

Started == {pend[k].run : k \in {j \in DOMAIN pend : pend[j].kind = "StartAssistant"}}

-----------------------------------------------------------------------------
\* A run that is resumed is shown every call of its own that was answered, with the
\* answer: the tests of update.rs ("tool_call_enters_approval_state_and_approval_resumes",
\* "child_completion_resumes_parent_with_synthetic_task_result") look for it in the
\* request of the StartAssistant effect.
ResumedRunSeesItsCalls ==
    \A r \in Started : ~IsFirstOfChild(st, r) =>
        {i \in Inv : /\ st.invs[i].run = r
                     /\ \/ st.invs[i].approval = "Denied"
                        \/ st.invs[i].exec \in {"Completed", "Failed"}}
        \subseteq RequestOf(st, r).results
=============================================================================
