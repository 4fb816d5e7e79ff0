------------------------------ MODULE Layouts -------------------------------
(***************************************************************************)
(* Messages as sequences of octets.  The code lays the fields of a message *)
(* out with *buf++ and picks them out of a received one by advancing a     *)
(* pointer; a layout is the list of the fields such a function passes      *)
(* over.  A field's value is the sequence of its octets, low octet first.  *)
(***************************************************************************)
EXTENDS Integers, Sequences, SequencesExt, FiniteSetsExt, TLC

\* An octet nobody wrote.
Junk == -1

-----------------------------------------------------------------------------
(* Fields: a name, the octets that are there anyhow, and the size of what  *)
(* a count in front of the field repeats.                                  *)

Bytes(name, n) == [name |-> name, kind |-> "fixed", size |-> n]
U8(name) == Bytes(name, 1)
U16(name) == Bytes(name, 2)
U24(name) == Bytes(name, 3)
U32(name) == Bytes(name, 4)
IEEE(name) == Bytes(name, 8)
Counted(name, n) == [name |-> name, kind |-> "counted", size |-> n]
Counted16(name, n) == [name |-> name, kind |-> "counted16", size |-> n]
\* A counted string whose count 0xFF stands for none.
Label(name) == [name |-> name, kind |-> "label", size |-> 1]
\* What is left of the payload.
Rest(name) == [name |-> name, kind |-> "rest", size |-> 0]

Put(f, said) ==
    CASE f.kind \in {"counted", "label"} -> <<Len(said[f.name]) \div f.size>> \o said[f.name]
      [] f.kind = "counted16" ->
            LET n == Len(said[f.name]) \div f.size IN <<n % 256, n \div 256>> \o said[f.name]
      [] OTHER -> said[f.name]

Written(layout, said) == FlattenSeq([i \in DOMAIN layout |-> Put(layout[i], said)])

\* The octets of a field of variable size: a Send function adds them to its length.
Variable(layout, said) ==
    FoldSeq(LAMBDA f, n : n + (IF f.kind = "fixed" THEN 0 ELSE Len(said[f.name])), 0, layout)

At(octets, i) == IF i \in DOMAIN octets THEN octets[i] ELSE Junk
Slice(octets, from, n) == [i \in 1 .. n |-> At(octets, from + i - 1)]

\* Where the field's value starts, and how long it is.
Extent(f, octets, at) ==
    CASE f.kind = "counted" -> [from |-> at + 1, n |-> f.size * At(octets, at)]
      [] f.kind = "counted16" ->
            [from |-> at + 2, n |-> f.size * (At(octets, at) + 256 * At(octets, at + 1))]
      [] f.kind = "label" ->
            [from |-> at + 1, n |-> IF At(octets, at) = 255 THEN 0 ELSE At(octets, at)]
      [] f.kind = "rest" -> [from |-> at, n |-> IF at > Len(octets) THEN 0 ELSE Len(octets) - at + 1]
      [] OTHER -> [from |-> at, n |-> f.size]

Picked(layout, octets) ==
    FoldLeft(LAMBDA r, f :
                LET e == Extent(f, octets, r.at)
                IN  [at |-> e.from + e.n, fields |-> (f.name :> Slice(octets, e.from, e.n)) @@ r.fields],
             [at |-> 1, fields |-> <<>>], layout).fields

Word16(v) == v[1] + 256 * v[2]

-----------------------------------------------------------------------------
(***************************************************************************)
(* Cluster-specific commands.  A zcl..._Send function lays the fields of a *)
(* command out in a buffer and passes its length; a zcl..._ProcessIn       *)
(* function picks the fields out of the received octets by position and    *)
(* hands them to one of the application's callbacks.  Both sides are given *)
(* as layouts, each taken from its own function.  A field's value is the   *)
(* sequence of its octets, low octet first.                                *)
(***************************************************************************)

SUCCESS == 0
FAILURE == 1
INVALID_FIELD == 133
SOFTWARE_FAILURE == 193
CMD_HAS_RSP == 255

ToServer == "toServer"
ToClient == "toClient"

-----------------------------------------------------------------------------
(* A command as its Send function makes it: the length it passes is len    *)
(* and what the fields of variable size add.                               *)

Command(cluster, id, dir, len, layout) ==
    [cluster |-> cluster, id |-> id, dir |-> dir, len |-> len, layout |-> layout]

Frame(c, said) ==
    [cluster |-> c.cluster, id |-> c.id, dir |-> c.dir,
     octets |-> Slice(Written(c.layout, said), 1, c.len + Variable(c.layout, said))]

-----------------------------------------------------------------------------
(* What a ProcessIn function does with a received command m: the status it *)
(* returns, the callback it calls and the fields it hands to it.  m.cbs is *)
(* the set of callbacks the application registered for the endpoint,       *)
(* m.returns what the callback returns and m.memory whether an allocation  *)
(* succeeds.                                                               *)

Refused(status) == [status |-> status, callback |-> "none", fields |-> <<>>]
Calls(m, callback, fields, status) == [status |-> status, callback |-> callback, fields |-> fields]

Handed(m, callback, layout, status) ==
    IF callback \in m.cbs THEN Calls(m, callback, Picked(layout, m.octets), status)
    ELSE Refused(FAILURE)

\* The same, when the function looks at the fields before it calls.
HandedIf(m, callback, layout, Bad(_), status) ==
    IF callback \in m.cbs /\ Bad(Picked(layout, m.octets)) THEN Refused(INVALID_FIELD)
    ELSE Handed(m, callback, layout, status)

\* The same, when the caller is told success whether or not there is a callback.
Offered(m, callback, layout) ==
    IF callback \in m.cbs THEN Handed(m, callback, layout, SUCCESS) ELSE Refused(SUCCESS)

IsServer(m) == m.dir = ToServer
=============================================================================
