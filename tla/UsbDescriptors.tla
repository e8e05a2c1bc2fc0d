----------------------------- MODULE UsbDescriptors -----------------------------
(***************************************************************************)
(* A configuration descriptor in memory and what UsbConfig.cpp takes from  *)
(* it: ParseConfig and the look-ups of interfaces and pipes.  A memory is   *)
(* the sequence of the descriptors that lie one behind the other, each of   *)
(* them at the place its predecessor's bLength leads to.                    *)
(***************************************************************************)
EXTENDS Integers, Sequences, SequencesExt

\* type, bLength; of interfaces also number, alternate setting, bNumEndpoints.
Descriptor(type, len) == [type |-> type, len |-> len, number |-> 0, alt |-> 0, claims |-> 0]
Interface(len, number, alt, claims) ==
  [type |-> "interface", len |-> len, number |-> number, alt |-> alt, claims |-> claims]

Descriptors == [type : {"config", "interface", "endpoint", "other"}, len : Nat,
                number : Nat, alt : Nat, claims : Nat]

CommonLength == 2      \* sizeof of the four descriptor types
ConfigLength == 9
InterfaceLength == 9
EndpointLength == 7

(***************************************************************************)
(* ParseConfig.  The first pass counts interfaces and endpoints, the second *)
(* does the same and stores them; both are this one loop, ifs and pipes      *)
(* being what the second stores, named by their place in the memory.        *)
(***************************************************************************)
ParseStart == [at |-> 0, next |-> 1, status |-> "parsing", configs |-> 0, ifs |-> <<>>, pipes |-> <<>>]

Ended(p, d, total) == p.at + CommonLength >= total \/ p.at + d.len > total

Malformed(p, d) ==
  \/ d.type = "config" /\ (p.configs # 0 \/ d.len # ConfigLength)
  \/ d.type = "interface" /\ d.len < InterfaceLength
  \/ d.type = "endpoint" /\ (d.len < EndpointLength \/ p.ifs = <<>>)

\* Mutant of StoreDescriptor: every endpoint is given to the first interface.
StoreInFirst(p, d) ==
  CASE d.type = "config" -> [p EXCEPT !.configs = @ + 1]
    [] d.type = "interface" -> [p EXCEPT !.ifs = Append(@, p.next)]
    [] d.type = "endpoint" -> [p EXCEPT !.pipes = Append(@, [endpoint |-> p.next, interface |-> Head(p.ifs)])]
    [] OTHER -> p

\* An endpoint belongs to currentInterface, the last interface before it.
StoreDescriptor(p, d) ==
  CASE d.type = "config" -> [p EXCEPT !.configs = @ + 1]
    [] d.type = "interface" -> [p EXCEPT !.ifs = Append(@, p.next)]
    [] d.type = "endpoint" -> [p EXCEPT !.pipes = Append(@, [endpoint |-> p.next, interface |-> Last(p.ifs)])]
    [] OTHER -> p

\* One turn of the loop.  A descriptor of another type and of length zero is
\* looked at for ever.
ParseDescriptor(p, d, total) ==
  IF p.status # "parsing" THEN p
  ELSE IF Ended(p, d, total) THEN [p EXCEPT !.status = "parsed"]
  ELSE IF Malformed(p, d) THEN [p EXCEPT !.status = "failed"]
  ELSE IF d.len = 0 THEN [p EXCEPT !.status = "loops"]
  ELSE [StoreDescriptor(p, d) EXCEPT !.at = @ + d.len, !.next = @ + 1]

\* What the loop has come to after each of the descriptors.
Turns(memory, total) ==
  LET turn[k \in 0..Len(memory)] ==
        IF k = 0 THEN ParseStart ELSE ParseDescriptor(turn[k - 1], memory[k], total)
  IN turn

ParseConfig(memory, total) ==
  LET p == Turns(memory, total)[Len(memory)] IN
  IF p.status = "parsing" THEN [p EXCEPT !.status = "parsed"] ELSE p

--------------------------------------------------------------------------------
(***************************************************************************)
(* Look-ups in a parsed configuration: info.memory, info.ifs, info.pipes.   *)
(***************************************************************************)
Indices(seq, Test(_)) == {i \in 1..Len(seq) : Test(seq[i])}
First(S) == IF S = {} THEN 0 ELSE CHOOSE i \in S : \A j \in S : i <= j

\* The place of an interface in the memory, 0 if there is none.
FindInterface(info, number, alt) ==
  LET k == First(Indices(info.ifs, LAMBDA i : info.memory[i].number = number /\ info.memory[i].alt = alt))
  IN IF k = 0 THEN 0 ELSE info.ifs[k]

FindFirstPipeForInterface(info, interface) ==
  First(Indices(info.pipes, LAMBDA q : q.interface = interface))

\* SetInterfaceDescriptorPipes for an interface with "claims" endpoints: the
\* pipes are taken one after the other from the first.  "beyond": it reads the
\* descriptor behind the last one.
SetInterfaceDescriptorPipes(info, interface) ==
  LET claims == info.memory[interface].claims
      first  == FindFirstPipeForInterface(info, interface)
      there  == {j \in 0..(claims - 1) : first + j <= Len(info.pipes)}
      own    == {j \in there : \A i \in 0..j : info.pipes[first + i].interface = interface}
  IN IF claims = 0 THEN [ok |-> TRUE, pipes |-> {}, beyond |-> FALSE]
     ELSE IF first = 0 THEN [ok |-> FALSE, pipes |-> {}, beyond |-> FALSE]
     ELSE [ok     |-> own = 0..(claims - 1),
           pipes  |-> {first + j : j \in own},
           beyond |-> own = there /\ there # 0..(claims - 1)]
================================================================================
