SPECIFICATION Spec
CONSTANTS
  None = None
  Placeholder = Placeholder
  NotText = NotText
  NonFinite = NonFinite
  WithNull = WithNull
  Torn = Torn
  k1 = k1
  k2 = k2
  k3 = k3
  Web = Web
  TestKid = TestKid
  WitnessKid = WitnessKid
  NotaryKid = NotaryKid
  TestKey = k1
  WitnessKey = k2
  NotaryKey = k3
  Keys <- MCKeys
  KeyOfKid <- MCKids
  Start <- MCStart
  Contents <- MCContents
  Ids <- MCIds
  Exps <- MCExps
  Times <- MCTimes
  CoSigners <- MCCoSigners
  Scenarios <- MCScenarios
  DirectoryOrder <- MCOrder
  MaxEdits = 2
INVARIANTS
  PassMeansSigned
  SignedVerifies
  ValidIsSigned
  VerifiersAgree
  MerkleVectorsMean
  SettlerVectorsMean
  FinalityVectorsMean
  PolicyVectorsMean
  PassMeansLinked
PROPERTY
  TouchesOnlyBroken
