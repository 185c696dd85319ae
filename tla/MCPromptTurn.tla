---------------------------- MODULE MCPromptTurn ----------------------------
EXTENDS PromptTurnProperties
LastPrompt == {NumPrompts}
EveryPrompt == Prompt
=============================================================================
