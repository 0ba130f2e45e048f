------------------------------ MODULE CapErrors ------------------------------
(***************************************************************************)
(* The capability errors of capabilities/errors and their wire format      *)
(* visibility:origin:code:detail.  A text is the sequence of its pieces    *)
(* between colons, so that splitting and joining are what the code does.   *)
(***************************************************************************)
EXTENDS Integers, Sequences, TLC

OriginSystem == 0
OriginUser == 1
OriginString(o) ==
  CASE o = OriginSystem -> "System" [] o = OriginUser -> "User"
    [] OTHER -> "UnknownOrigin"
FromOriginString(s) ==
  CASE s = "System" -> OriginSystem [] s = "User" -> OriginUser [] OTHER -> -1

VisibilityPublic == 0
VisibilityPrivate == 1
VisibilityString(v) ==
  CASE v = VisibilityPublic -> "Public" [] v = VisibilityPrivate -> "Private"
    [] OTHER -> "UnknownVisibility"
FromVisibilityString(s) ==
  CASE s = "Public" -> VisibilityPublic [] s = "Private" -> VisibilityPrivate
    [] OTHER -> -1

UnrecognisedErrorCode == -1

\* The gRPC codes without 0, which is no failure, and the custom ones from 100 on.
ErrorCodes == (1 .. 16) \cup (100 .. 102)

errorCodeToString ==
  LET grpc == <<"Canceled", "Unknown", "InvalidArgument", "DeadlineExceeded", "NotFound",
                "AlreadyExists", "PermissionDenied", "ResourceExhausted",
                "FailedPrecondition", "Aborted", "OutOfRange", "Unimplemented",
                "Internal", "Unavailable", "DataLoss", "Unauthenticated">>
      custom == <<"ConsensusFailed", "LimitExceeded", "InsufficientObservations">>
  IN  [code \in ErrorCodes |->
         IF code <= 16 THEN grpc[code] ELSE custom[code - 99]]

CodeString(code) ==
  IF code \in DOMAIN errorCodeToString THEN errorCodeToString[code]
  ELSE "UnrecognisedErrorCode"

stringToErrorCode ==
  [Canceled |-> 1, Unknown |-> 2, InvalidArgument |-> 3, DeadlineExceeded |-> 4,
   NotFound |-> 5, AlreadyExists |-> 6, PermissionDenied |-> 7,
   ResourceExhausted |-> 8, FailedPrecondition |-> 9, Aborted |-> 10,
   OutOfRange |-> 11, Unimplemented |-> 12, Internal |-> 13, Unavailable |-> 14,
   DataLoss |-> 15, Unauthenticated |-> 16, ConsensusFailed |-> 100,
   LimitExceeded |-> 101, InsufficientObservations |-> 102]

FromErrorCodeString(str) ==
  IF str \in DOMAIN stringToErrorCode THEN stringToErrorCode[str]
  ELSE UnrecognisedErrorCode

\* A Go error is plain or a capability Error; both hold a text.
PlainError(text) == [kind |-> "plain", text |-> text]
NewError(text, visibility, origin, code) ==
  [kind |-> "capability", text |-> text, visibility |-> visibility,
   origin |-> origin, code |-> code]

\* What Error() returns: a capability error shows its code before its text.
ErrorText(err) ==
  IF err.kind = "plain" \/ err.code = UnrecognisedErrorCode THEN err.text
  ELSE <<"[" \o ToString(err.code) \o "]" \o CodeString(err.code),
         " " \o Head(err.text)>> \o Tail(err.text)

\* A mutant: split at every colon, the last piece is the detail.
DeserializeLastPiece(text) ==
  IF Len(text) < 4 THEN PlainError(text)
  ELSE NewError(<<text[Len(text)]>>, FromVisibilityString(text[1]),
                FromOriginString(text[2]), FromErrorCodeString(text[3]))

\* SplitN into four: the detail keeps its own colons.
DeserializeErrorFromString(text) ==
  IF Len(text) < 4 THEN PlainError(text)
  ELSE NewError(SubSeq(text, 4, Len(text)), FromVisibilityString(text[1]),
                FromOriginString(text[2]), FromErrorCodeString(text[3]))
=============================================================================
