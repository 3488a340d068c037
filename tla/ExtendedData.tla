---------------------------- MODULE ExtendedData ----------------------------
(***************************************************************************)
(* The extended data items of an event (extended_data.rs,                  *)
(* event_record.rs): what the blob of an item says, within its size.       *)
(*                                                                         *)
(* A blob is a sequence of cells of four bytes, but for the metadata of a  *)
(* TraceLogging event: the cells of these are single bytes, after a first  *)
(* cell that holds the total size.  An Option is a set with at most one    *)
(* element: {} as data is a null pointer, {} as value what is unsupported. *)
(***************************************************************************)
EXTENDS Integers, Sequences

\* The blobs that hold one value of a fixed size.
FixedItems ==
  [relatedActivityId |-> 4, tsId |-> 1, instanceInfo |-> 6,
   processStartKey   |-> 2, eventKey |-> 2, containerId |-> 4]

AddressCells == [stackTrace32 |-> 1, stackTrace64 |-> 2]

HighBit == 128

Least(S) == {x \in S : \A y \in S : x <= y}

\* read_fixed
ReadFixed(blob, cells) ==
  IF Len(blob) < cells THEN {} ELSE {SubSeq(blob, 1, cells)}

\* StackTraceItem::from_raw: a match id, and the addresses that fit behind it.
StackTrace(blob, width) ==
  {[matchId   |-> id,
    addresses |-> [k \in 1 .. (Len(blob) - 2) \div width |->
                     SubSeq(blob, 3 + (k - 1) * width, 2 + k * width)]] :
   id \in ReadFixed(blob, 2)}

\* Mutant: the count that the SID declares is trusted.
TrustedSid(blob) ==
  IF blob = <<>> THEN {} ELSE {[k \in 1 .. 2 + blob[1] |-> IF k <= Len(blob) THEN blob[k] ELSE -1]}

\* Sid::from_raw: two cells, the first with the number of sub-authorities, and
\* these; none if the item does not hold as many.
Sid(blob) ==
  IF blob = <<>> \/ 2 + blob[1] > Len(blob) THEN {} ELSE {SubSeq(blob, 1, 2 + blob[1])}

\* get_event_name: within the declared size and the blob, tags up to the first
\* without the high bit, then the name and its terminator.
MetadataName(blob) ==
  LET size   == IF blob[1] < Len(blob) THEN blob[1] ELSE Len(blob)
      tags   == Least({k \in 2 .. size : blob[k] < HighBit})
      nul(t) == Least({k \in t + 1 .. size : blob[k] = 0})
  IN UNION {{SubSeq(blob, t + 1, z - 1) : z \in nul(t)} : t \in tags}

EventName(blob) == IF blob = <<>> THEN {} ELSE MetadataName(blob)

Named(type, values) == {[type |-> type, value |-> v] : v \in values}

\* to_extended_data_item.  A TraceLogging item without a readable name has an
\* empty one.
Reading(type, blob) ==
  CASE type \in DOMAIN FixedItems -> Named(type, ReadFixed(blob, FixedItems[type]))
    [] type \in DOMAIN AddressCells -> Named(type, StackTrace(blob, AddressCells[type]))
    [] type = "sid" -> Named(type, Sid(blob))
    [] type = "traceLogging" -> Named(type, IF EventName(blob) = {} THEN {<<>>} ELSE EventName(blob))
    [] type = "provTraits" -> Named(type, {blob})
    [] OTHER -> {}

\* Nothing is read from a null pointer.
ItemOf(item) == UNION {Reading(item.type, blob) : blob \in item.data}

\* property_values_start: the values of a self-describing event are at the start
\* of its buffer if the items hold its metadata, and else behind that metadata,
\* which is not supported.
ValuesStart(source, items) ==
  IF source # "tlg" \/ \E k \in DOMAIN items : items[k].type \in {"traceLogging", "provTraits"}
  THEN {0} ELSE {}
-----------------------------------------------------------------------------
(* What an item says, independently of how it is read: of the properties only *)

\* The first cells of a blob.
Begins(v, blob) ==
  v \in Seq(Nat) /\ Len(v) <= Len(blob) /\ \A k \in DOMAIN v : v[k] = blob[k]

\* All the whole addresses behind the match id, and no more.
IsStack(v, blob, width) ==
  LET left == Len(blob) - 2 - width * Len(v.addresses)
  IN /\ v = [matchId |-> v.matchId, addresses |-> v.addresses]
     /\ Begins(v.matchId, blob) /\ Len(v.matchId) = 2
     /\ v.addresses \in Seq(Seq(Nat))
     /\ 0 <= left /\ left < width
     /\ \A k \in DOMAIN v.addresses :
          /\ Len(v.addresses[k]) = width
          /\ \A c \in 1 .. width : v.addresses[k][c] = blob[2 + (k - 1) * width + c]

\* A name lies between the last of the tags, at t, and its terminator, at z.
NameLies(blob, t, z) ==
  /\ 2 <= t /\ t < z /\ z <= blob[1] /\ z <= Len(blob)
  /\ blob[t] < HighBit /\ \A k \in 2 .. t - 1 : blob[k] >= HighBit
  /\ blob[z] = 0 /\ \A k \in t + 1 .. z - 1 : blob[k] # 0

IsName(v, blob) ==
  \/ \E t, z \in DOMAIN blob :
       /\ NameLies(blob, t, z)
       /\ v \in Seq(Nat) /\ Len(v) = z - t - 1 /\ \A k \in DOMAIN v : v[k] = blob[t + k]
  \/ v = <<>> /\ ~ \E t, z \in DOMAIN blob : NameLies(blob, t, z)

\* The blob is large enough for what it has to say.
Holds(type, blob) ==
  CASE type \in DOMAIN FixedItems -> Len(blob) >= FixedItems[type]
    [] type \in DOMAIN AddressCells -> Len(blob) >= 2
    [] type = "sid" -> blob # <<>> /\ Len(blob) >= 2 + blob[1]
    [] OTHER -> type \in {"traceLogging", "provTraits"}

Says(type, blob, v) ==
  CASE type \in DOMAIN FixedItems -> Begins(v, blob) /\ Len(v) = FixedItems[type]
    [] type \in DOMAIN AddressCells -> IsStack(v, blob, AddressCells[type])
    [] type = "sid" -> Begins(v, blob) /\ v # <<>> /\ Len(v) = 2 + v[1]
    [] type = "traceLogging" -> IsName(v, blob)
    [] type = "provTraits" -> v = blob

\* An item is `reported` as what its blob says.
IsReported(item) ==
  /\ item.data = {} => item.reported = {}
  /\ \A blob \in item.data :
       /\ item.data = {blob} /\ blob \in Seq(Nat)
       /\ ~Holds(item.type, blob) => item.reported = {}
       /\ Holds(item.type, blob) =>
            \E x \in item.reported :
              /\ item.reported = {x} /\ x = [type |-> item.type, value |-> x.value]
              /\ Says(item.type, blob, x.value)
=============================================================================
