SPECIFICATION QuestionSpec
CONSTANTS
  Texts <- MCTexts
  Choices <- MCChoices
  MaxAnswer = 3
  MaxChoice = 2
  MaxChoices = 2
  MaxPolicyText = 3
  MaxText = 5
  TextFrame = 1
  ChoiceFrame = 1
  FixedLength <- MCFixedLength
  MaxCalls = 2
  MaxIndex = 3
INVARIANTS
  OutputsFit
  ResultIsTheAnswer
  OnlyApprovedRuns
