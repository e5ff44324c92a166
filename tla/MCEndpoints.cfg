SPECIFICATION Spec
CHECK_DEADLOCK FALSE
CONSTANTS
  None = None
  Unset = Unset
  Byte = 2
  Narrowed <- HighHalf
  PcmMax = 3
  Calls <- MCCalls
  Replies <- MCReplies
  Document <- AnsweredDocument
  Default <- SerdeDefault
  Deserialize <- SerdeDeserialize
  MaxNesting = 3
INVARIANTS
  TypeOK
  EncodeIsPositional
  TensorsAsSent
  MediaTruthful
  OptionsLayered
  ExtractFailuresShown
  StreamErrorsShown
  ChargeIsWhole
  EnvelopeCodeAuthoritative
  NullIsAbsence
  DefiningFieldsHold
  EdgeHeadersStayHome
  EstimatePricesTheSend
  JobKeyed
