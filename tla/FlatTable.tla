------------------------------ MODULE FlatTable ------------------------------
(***************************************************************************)
(* What becomes of a finished flatbuffer: the sender takes it from its     *)
(* Builder (FinishedBytes, as the gRPC codec of src/grpc.go does), the     *)
(* receiver makes a table of its root (Unmarshal, src/lib.go), reads its   *)
(* fields and changes them in place (the Get and Mutate calls of           *)
(* src/table.go).  The sender goes on with its Builder meanwhile: it       *)
(* writes on, or resets it and builds the next buffer.                     *)
(*                                                                         *)
(* A message is a copy, as a transport makes one.                          *)
(***************************************************************************)
EXTENDS FlatBuilder

CONSTANT MaxMessages   \* bound on the messages sent

VARIABLES
    message,   \* what the receiver has: the bytes, and of the sender's history what it
               \* had made by then, with the changes the receiver was told it had made
    messages   \* how many were sent

tableVars == <<vars, message, messages>>

NoMessage == [bytes |-> <<>>, made |-> {}, finish |-> "none"]

TableInit == Init /\ message = NoMessage /\ messages = 0

-----------------------------------------------------------------------------
(* Reading.  pos is where a table is, off what Table.Offset returns.       *)

(* Get*Slot                                                                *)
GetSlot(b, pos, o, d) ==
    LET off == TableOffset(b, pos, SlotOf(o))
    IN IF off = 0 THEN d ELSE Get(b, pos + off)

(* ByteVector, String: whether the bytes at the absolute offset are s.     *)
ByteVectorIs(b, off, s) ==
    LET start == Indirect(b, off) + SizeUOffsetT
        length == Get(b, Indirect(b, off))
    IN length = TextLen[s] /\ Holds(b, start, length, s)

VectorLen(b, pos, off) == Get(b, Indirect(b, pos + off))
Vector(b, pos, off) == Indirect(b, pos + off) + SizeUOffsetT

(* A mutant: relative to the table.                                        *)
UnionInTable(b, pos, off) == pos + Get(b, pos + off)

(* The position of the table Union sets up.                                *)
Union(b, pos, off) == Indirect(b, pos + off)

(* A mutant: the whole buffer, with the room at its beginning.             *)
AllBytes == buf.bytes

FinishedBytes == Written(buf)

(* Unmarshal, GetRootAs: the position of the root table.                   *)
Unmarshal(data) == Get(data, 0)

(* GetSizePrefixedRootAs, GetSizePrefix                                    *)
SizePrefixedRoot(data) == sizePrefixLength + Get(data, sizePrefixLength)
SizePrefix(data) == Get(data, 0)

-----------------------------------------------------------------------------
(* How the Builder was left: by a Finish of either kind, or by a later     *)
(* call that wrote something.                                              *)
Finished(prefixed) ==
    \E m \in made : m.kind = "buffer" /\ m.at = Offset(buf) /\ m.prefixed = prefixed

(* Marshal, transport, Unmarshal.  A Builder without a Finish panics.      *)
Send ==
    /\ messages < MaxMessages
    /\ IF finished
       THEN /\ message' = [bytes |-> FinishedBytes, made |-> made,
                           finish |-> CASE Finished(FALSE) -> "plain"
                                        [] Finished(TRUE) -> "prefixed"
                                        [] OTHER -> "stale"]
            /\ messages' = messages + 1
            /\ UNCHANGED vars
       ELSE Panic /\ UNCHANGED <<message, messages>>

Mutated(b, pos, o, n) ==
    [b EXCEPT !.bytes = Over(@, pos + TableOffset(b, pos, SlotOf(o)), Scalar(FieldSize[o + 1], n))]

Received == {m \in message.made : m.kind = "table"}
PosOf(b, m) == Len(b.bytes) - m.at

(* Mutate*Slot of a table of the message.  It tells the receiver whether   *)
(* it has written: a default that was never stored cannot be changed.      *)
Mutate(t, o, n) ==
    LET off == TableOffset(message, PosOf(message, t), SlotOf(o))
        changed == [t EXCEPT !.fields[o].value = n]
    IN /\ o \in DOMAIN t.fields => t.fields[o].target = 0
       /\ ret' = IF off # 0 THEN "ok" ELSE "false"
       /\ IF off # 0
          THEN message' = [Mutated(message, PosOf(message, t), o, n)
                              EXCEPT !.made = (@ \ {t}) \cup {changed}]
          ELSE UNCHANGED message
       /\ UNCHANGED <<state, messages>>

TableNext ==
    \/ Next /\ UNCHANGED <<message, messages>>
    \/ Send
    \/ \E t \in Received, o \in Fields, n \in Values : Mutate(t, o, n)

TableSpec == TableInit /\ [][TableNext]_tableVars

-----------------------------------------------------------------------------
(* What the receiver should read.                                          *)

(* A scalar, or the default; through an offset, the thing it was set to.   *)
FieldReads(b, t, o) ==
    LET pos == PosOf(b, t)
        off == TableOffset(b, pos, SlotOf(o))
        things == {m \in b.made : m.kind # "buffer" /\ m.at = t.fields[o].target}
    IN IF o \notin DOMAIN t.fields THEN GetSlot(b, pos, o, 0) = 0
       ELSE IF t.fields[o].target = 0
       THEN GetSlot(b, pos, o, 0) = t.fields[o].value /\
            Holds(b, pos + off, FieldSize[o + 1], t.fields[o].value)
       ELSE \E m \in things :
               CASE m.kind = "table" -> Union(b, pos, off) = PosOf(b, m)
                 [] m.kind = "vector" ->
                       /\ VectorLen(b, pos, off) = Len(m.elems)
                       /\ \A i \in DOMAIN m.elems :
                             Holds(b, Vector(b, pos, off) + (i - 1) * m.size, m.size, m.elems[i])
                 [] OTHER -> ByteVectorIs(b, pos + off, m.text)

RootIs(b, pos) ==
    \E m \in b.made : /\ m.kind = "buffer" /\ m.at = Len(b.bytes)
                      /\ pos = Len(b.bytes) - m.root

(* A message leads to the root its sender finished it with.                *)
MessageHasRoot ==
    /\ message.finish = "plain" => RootIs(message, Unmarshal(message))
    /\ message.finish = "prefixed" =>
          /\ RootIs(message, SizePrefixedRoot(message))
          /\ SizePrefix(message) = Len(message.bytes) - sizePrefixLength

(* Every table of a message reads as the sender built it and the receiver  *)
(* changed it, its scalars, defaults, vectors, strings and other tables,   *)
(* however many of the tables share a vtable: a change stays in the field  *)
(* of the one table it is made in, and a change that could not be made is  *)
(* reported (Table.Offset and the Get, Mutate, Vector, String and Union    *)
(* calls).                                                                 *)
MessageReadsBack == \A t \in Received : \A o \in Fields : FieldReads(message, t, o)
=============================================================================
