------------------------- MODULE MvrXchangeProtocol -------------------------
(***************************************************************************)
(* What MVR-xchange stations say to each other, as the client reads it:    *)
(* service instance names (mvr_xchange_service_name.cpp), TCP packages and *)
(* the fields of their messages (mvr_xchange_packet.cpp), the commits in   *)
(* them and the check of a received payload (mvr_xchange_transfer.cpp).    *)
(*                                                                         *)
(* A byte stream is a sequence of packages, each with what is wrong with   *)
(* it. The text of a file UUID is the revision it names and whether it has *)
(* the 32 digits of one. A name keeps what parsing tells apart: whether it *)
(* has an '@', and its two parts after trimming, "" when nothing is left.  *)
(***************************************************************************)
EXTENDS Naturals, Sequences

DefaultGroup == "Default"
NoRevision == 0

\* normalize_group_name
NormalizeGroup(group) == IF group = "" THEN DefaultGroup ELSE group

\* An instance without '@' is all station and belongs to the default group.
ParseServiceName(name) ==
  [valid |-> name.station # "",
   station |-> name.station,
   group |-> IF name.at THEN NormalizeGroup(name.group) ELSE DefaultGroup]

-----------------------------------------------------------------------------
(* TCP packages. *)

\* The messages the client and the stations build: a type and the FileUUID
\* texts in it, in their order.
Json(type, texts) == [kind |-> "json", type |-> type, texts |-> texts]
Binary(content) == [kind |-> "mvr", content |-> content]
Package(message) == [header |-> TRUE, whole |-> TRUE, message |-> message]

UuidText(r) == [revision |-> r, digits |-> 32]

\* The packages of a stream up to the first that has a foreign header or
\* announces more bytes than arrived.
ParsePackages(stream) ==
  LET broken == {i \in DOMAIN stream : ~stream[i].header \/ ~stream[i].whole}
      end == IF broken = {} THEN Len(stream)
             ELSE (CHOOSE i \in broken : \A j \in broken : i <= j) - 1
  IN [i \in 1 .. end |-> stream[i].message]

\* json_string_value finds the first value of that name, "" without one.
FirstText(message) ==
  IF message.texts = <<>> THEN [revision |-> NoRevision, digits |-> 0]
  ELSE Head(message.texts)

\* Anything that is not 32 hexadecimal digits is no UUID.
CanonicalUuid(text) == IF text.digits = 32 THEN text.revision ELSE NoRevision

\* parse_commit_message
CommitOf(message) == CanonicalUuid(FirstText(message))

\* A reply to a join is read as a commit when it has a file UUID, or only
\* says that it is one or that it has a list of them.
AnnouncesCommit(message) ==
  /\ message.kind = "json"
  /\ \/ CommitOf(message) # NoRevision
     \/ message.type \in {"MVR_COMMIT", "MVR_JOIN_RET"}

\* The payload of the binary packages of a reply to a request, <<>> when it
\* has none: one package carries one revision.
PayloadOf(messages) ==
  LET binary == SelectSeq(messages, LAMBDA m : m.kind = "mvr")
  IN [i \in 1 .. Len(binary) |-> binary[i].content]

\* write_completed_mvr_file looks at the bytes before it writes: not empty,
\* a ZIP, with a scene description. Two archives in one payload pass.
Acceptable(payload) ==
  /\ payload # <<>>
  /\ Head(payload).zip
  /\ \E i \in DOMAIN payload : payload[i].scene
=============================================================================
