SPECIFICATION FairSpec
CONSTANT Scenarios <- MCScenarios
CHECK_DEADLOCK FALSE
INVARIANTS TypeOK KeysAgreeUnlessUpset OneAnswerEach QuietChatIsRead
PROPERTIES KeyOnlyGrows RekeyCompletes
