------------------------------- MODULE UsbAnswers -------------------------------
(***************************************************************************)
(* What XenDpc makes of an answer of usbback: the status it is mapped to,   *)
(* what the IRP and the URB say of it (PostProcessUrb,                      *)
(* XenPostProcessIsoResponse), and what the driver takes note of.  One       *)
(* shadow is used again and again; ShadowRing has all of them, and whether   *)
(* an answer is delivered at all is in CancelPath.                           *)
(***************************************************************************)
EXTENDS Naturals, Sequences, FiniteSetsExt

CONSTANTS
  PacketLists,  \* the packets of isochronous transfers, as usbback reports them
  MaxAnswers    \* bound: answers taken

UsbIfStatuses ==
  {"OK", "CANCELED", "PENDING", "PROTO", "CRC", "TIMEOUT", "STALLED", "INBUFF", "OUTBUFF",
   "OVERFLOW", "SHORTPKT", "DEVRMVD", "PARTIAL", "INVALID", "RESET", "SHUTDOWN", "UNKNOWN"}

\* "An iso packet always has a non-zero length": what is reported for the first may be 0,
\* but then there is a second one, which begins behind it.
ASSUME PacketsAssumption ==
  /\ PacketLists \subseteq Seq([status : {"OK", "SHORTPKT", "STALLED"}, offset : Nat, length : Nat])
  /\ \A p \in PacketLists :
       Len(p) > 0 /\ (p[1].length > 0 \/ (Len(p) > 1 /\ p[2].offset > 0))
ASSUME AnswersBoundAssumption == MaxAnswers \in Nat

VARIABLES
  vistaOrLater, \* gVistaOrLater
  carried,      \* what the shadow carries: "none", a kind of request
  isReset,      \* of the shadow
  portLost,     \* ~PortConnected: USBD_STATUS_DEVICE_GONE was seen
  result,       \* what became of the last answer, until its shadow is used again
  answers

answersVars == <<vistaOrLater, carried, isReset, portLost, result, answers>>

\* URBs by what PostProcessUrb does with them.  SELECT_CONFIGURATION is on the
\* ring to unconfigure the device only; SELECT_INTERFACE is an exchange of the
\* scratch pad.
UrbKinds == {"transfer", "isochronous", "unconfigure", "other"}

--------------------------------------------------------------------------------
\* Mutant of MapUsbifToUsbdStatus: a device gone is not told from a reset.
MapAsInReset(resetInProgress, status) ==
  CASE status = "OK" -> "SUCCESS"
    [] status \in {"TIMEOUT", "STALLED", "OVERFLOW"} -> "STALL_PID"
    [] status \in {"CANCELED", "CRC", "DEVRMVD", "SHUTDOWN"} -> "CANCELED"
    [] OTHER -> "INTERNAL_HC_ERROR"

MapUsbifToUsbdStatus(resetInProgress, status) ==
  CASE status = "OK" -> "SUCCESS"
    [] status \in {"CANCELED", "CRC"} -> "CANCELED"
    [] status \in {"TIMEOUT", "STALLED", "OVERFLOW"} -> "STALL_PID"
    [] status = "INBUFF" -> "BUFFER_OVERRUN"
    [] status = "OUTBUFF" -> "BUFFER_UNDERRUN"
    [] status = "SHORTPKT" -> "ERROR_SHORT_TRANSFER"
    [] status = "INVALID" -> "INVALID_URB_FUNCTION"
    [] status = "RESET" -> "TIMEOUT"
    [] status = "UNKNOWN" -> "ERROR_BUSY"
    [] status \in {"DEVRMVD", "SHUTDOWN"} -> IF resetInProgress THEN "CANCELED" ELSE "DEVICE_GONE"
    [] OTHER -> "INTERNAL_HC_ERROR"      \* PENDING, PROTO, PARTIAL

\* The IRP's status for one of a URB.
IrpStatus(usbd) ==
  CASE usbd = "SUCCESS" -> "SUCCESS"
    [] usbd = "CANCELED" -> "CANCELLED"
    [] OTHER -> "UNSUCCESSFUL"

AskedLength == 1000      \* TransferBufferLength as the client has set it

Good(packets)      == {i \in 1..Len(packets) : packets[i].status = "OK"}
GoodBytes(packets) == MapThenSumSet(LAMBDA i : packets[i].length, Good(packets))

\* XenPostProcessIsoResponse: the packets with their statuses as usbback wrote
\* them.  Windows XP is told that no transfer fails, and of one in which no
\* packet succeeded that its first packet did.
IsoResponse(usbd, packets) ==
  LET total == GoodBytes(packets)
      first == IF packets[1].length # 0 THEN packets[1].length ELSE packets[2].offset
      mend  == total = 0 /\ ~vistaOrLater
  IN IF usbd # "SUCCESS"
     THEN [irp |-> IF vistaOrLater THEN IrpStatus(usbd) ELSE "SUCCESS", urb |-> usbd,
           length |-> AskedLength, errors |-> 0, packets |-> <<>>]
     ELSE [irp |-> "SUCCESS", urb |-> usbd,
           length |-> IF mend THEN first ELSE total,
           errors |-> Len(packets) - Cardinality(Good(packets)),
           packets |-> [i \in 1..Len(packets) |->
                          IF i = 1 /\ mend THEN "OK" ELSE packets[i].status]]

\* PostProcessUrb.  PostProcessSelectConfig finds no interface descriptors for
\* value 0 and fails; a failed selection is zeroed, its status too.
PostProcessUrb(kind, usbd, bytes, packets) ==
  LET plain == [irp |-> IrpStatus(usbd), urb |-> usbd, length |-> AskedLength, errors |-> 0,
                packets |-> <<>>]
  IN CASE kind = "isochronous" -> IsoResponse(usbd, packets)
       [] kind = "unconfigure" ->
            [plain EXCEPT !.irp = IF @ = "SUCCESS" THEN "UNSUCCESSFUL" ELSE @, !.urb = "SUCCESS"]
       [] kind = "transfer" -> [plain EXCEPT !.length = bytes]
       [] OTHER -> plain

--------------------------------------------------------------------------------
AnswersInit ==
  /\ vistaOrLater \in BOOLEAN
  /\ carried = "none" /\ isReset = FALSE
  /\ portLost = FALSE /\ result = {} /\ answers = 0

\* PutUrbOnRing and PutIsoUrbOnRing.
PutUrb(kind) ==
  /\ carried = "none" /\ answers < MaxAnswers
  /\ carried' = kind /\ isReset' = FALSE
  /\ result' = {} /\ UNCHANGED <<vistaOrLater, portLost, answers>>

\* PutResetOrCycleUrbOnRing.
PutReset ==
  /\ carried = "none" /\ answers < MaxAnswers
  /\ carried' = "reset" /\ isReset' = TRUE
  /\ result' = {} /\ UNCHANGED <<vistaOrLater, portLost, answers>>

\* PutScratchOnRing sets isReset for a reset and leaves it otherwise.
PutScratch(reset) ==
  /\ carried = "none" /\ answers < MaxAnswers
  /\ carried' = "scratch" /\ isReset' = (isReset \/ reset)
  /\ result' = {} /\ UNCHANGED <<vistaOrLater, portLost, answers>>

\* XenDpc for one answer.
TakeAnswer(status, bytes, packets) ==
  LET usbd == MapUsbifToUsbdStatus(isReset, status)
      told == CASE carried = "reset" -> [irp |-> "SUCCESS", urb |-> "none", length |-> 0,
                                         errors |-> 0, packets |-> <<>>]
                [] carried = "scratch" -> [irp |-> "none", urb |-> usbd, length |-> bytes,
                                           errors |-> 0, packets |-> <<>>]
                [] OTHER -> PostProcessUrb(carried, usbd, bytes, packets)
  IN
  /\ carried # "none"
  /\ portLost' = (portLost \/ usbd = "DEVICE_GONE")
  /\ result' = {[kind |-> carried, status |-> status, bytes |-> bytes, reported |-> packets,
                 wasReset |-> isReset, told |-> told]}
  /\ carried' = "none"
  /\ answers' = answers + 1
  /\ UNCHANGED <<vistaOrLater, isReset>>

AnswersNext ==
  \/ \E kind \in UrbKinds : PutUrb(kind)
  \/ PutReset
  \/ \E reset \in BOOLEAN : PutScratch(reset)
  \/ \E status \in UsbIfStatuses, bytes \in {0, 2} :
       \E packets \in (IF carried = "isochronous" THEN PacketLists ELSE {<<>>}) :
         TakeAnswer(status, bytes, packets)

AnswersSpec == AnswersInit /\ [][AnswersNext]_answersVars

--------------------------------------------------------------------------------
\* What a client reads of an answer agrees with it.  The IRP succeeds with the
\* URB and only then, and a URB only when usbback reports no error - except
\* that an unconfigured device is always reported as a failure, in a zeroed URB,
\* and that Windows XP is told of no failed isochronous transfer.  The length
\* of an isochronous transfer and its error count are those of its packets,
\* except for XP's mended first one.  And a device that is gone is noticed,
\* unless a reset was answered - or an internal request in a shadow in which an
\* earlier reset has left isReset.
AnswersAgree ==
  \A r \in result :
    LET xp == ~vistaOrLater /\ r.kind = "isochronous" IN
    /\ r.kind \in UrbKinds \ {"unconfigure"} =>
         /\ r.told.urb = "SUCCESS" <=> r.status = "OK"
         /\ r.told.irp = "SUCCESS" <=> r.told.urb = "SUCCESS" \/ xp
    /\ r.kind = "unconfigure" => r.told.irp # "SUCCESS" /\ r.told.urb = "SUCCESS"
    /\ r.kind = "transfer" => r.told.length = r.bytes
    /\ r.kind = "isochronous" /\ r.status = "OK" =>
         /\ r.told.errors + Cardinality(Good(r.reported)) = Len(r.reported)
         /\ \/ r.told.length = GoodBytes(r.reported)
               /\ \A i \in 1..Len(r.reported) : r.told.packets[i] = r.reported[i].status
            \/ xp /\ r.told.length > 0
    /\ r.status \in {"DEVRMVD", "SHUTDOWN"} =>
         \/ portLost
         \/ r.kind = "reset" \/ (r.kind = "scratch" /\ r.wasReset)
================================================================================
