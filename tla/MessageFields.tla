---------------------------- MODULE MessageFields ----------------------------
(***************************************************************************)
(* The layout of the T115 control messages, which the program holds twice: *)
(* as the tables the inspector page shows every bit by (control/bits.go,   *)
(* expand.go) and as the shifts and masks of control.Decode, from which the *)
(* broadcasts are opened and closed (message.go).                           *)
(*                                                                          *)
(* A message is the set of its bits that are 1, each <<octet, bit>> with   *)
(* bit 8 the first on the air.  Messages of every type are received, on the *)
(* short channel (12 octets) and the long one (63), with one bit set beside *)
(* the type; a number notification has a count set too.  Texts and meanings *)
(* are left out; a field's name is kept where Decode reads the same field.  *)
(***************************************************************************)
EXTENDS Integers, Sequences, FiniteSets

VARIABLES raw,      \* the bits that are 1
          len,      \* octets received
          msg,      \* what Decode returned
          shown     \* what Expand returned

fieldVars == <<raw, len, msg, shown>>

OctetsCCH == 12
OctetsTCH == 63
Types == 0..127

Field(oct, hi, lo, name) == [oct |-> oct, hi |-> hi, lo |-> lo, name |-> name, payload |-> FALSE]
Octet(oct, name) == Field(oct, 8, 1, name)
Spare(from, to) == [n \in 1..(to - from + 1) |-> Octet(from + n - 1, "spare")]
PayloadRange(from, to) ==
    [n \in 1..(to - from + 1) |-> [Octet(from + n - 1, "payload") EXCEPT !.payload = TRUE]]

CommonHeader ==
    <<Field(1, 8, 8, "busy"), Field(1, 7, 1, "type"), Field(2, 8, 7, "licensee"),
      Field(2, 6, 1, "maker"), Field(3, 8, 8, "sn"), Field(3, 7, 6, "channel"),
      Field(3, 5, 5, "switch"), Field(3, 4, 1, "timing")>>

Media == <<Field(4, 8, 6, "media"), Field(4, 5, 4, "protocol"), Field(4, 3, 1, "call")>>
Call == <<Field(4, 8, 4, "spare"), Field(4, 3, 1, "call")>>
Nibbles(oct) == <<Field(oct, 8, 5, "high"), Field(oct, 4, 1, "low")>>
Station == <<Octet(7, "idHigh"), Octet(8, "idLow")>>
Relay == <<Octet(7, "relay"), Octet(8, "spare")>>
UserData == <<Octet(9, "userHigh"), Octet(10, "userLow")>> \o Spare(11, 12)

\* bodies, 0x01 to 0x07: broadcast information, idle, starts and disconnections.
StartBody(t) ==
    CASE t = 1 -> <<Field(4, 8, 8, "contact"), Field(4, 7, 7, "data"), Field(4, 6, 5, "spare"),
                    Field(4, 4, 1, "spare")>> \o Spare(5, 12)
      [] t = 2 -> Spare(4, 12)
      [] t \in {3, 4} ->
             Media \o <<Field(5, 8, 7, "spare5"), Field(5, 6, 6, "number"),
                        Field(5, 5, 5, "record"), Field(5, 4, 4, "emergency"),
                        Field(5, 3, 3, "forced"), Field(5, 2, 1, "volume"),
                        Field(6, 8, 6, "spare6"), Field(6, 5, 5, "split"),
                        Field(6, 4, 1, "splitNo")>> \o Station \o Spare(9, 12)
      [] t = 5 ->
             Call \o <<Field(5, 8, 7, "spare"), Field(5, 6, 6, "number"), Field(5, 5, 5, "record"),
                       Field(5, 4, 4, "spare"), Field(5, 3, 3, "forced"),
                       Field(5, 2, 1, "volume"), Field(6, 8, 6, "spare"),
                       Field(6, 5, 1, "siren")>> \o Station \o Spare(9, 12)
      [] t \in {6, 7} -> Call \o Nibbles(5) \o Spare(6, 12)

\* bodies, 0x08 to 0x0F: the calls of a station, the base and a relay.
CallBody(t) ==
    CASE t = 8 -> Media \o Spare(5, 6) \o Station \o UserData
      [] t = 10 -> Media \o Nibbles(5) \o Spare(6, 6) \o Station \o UserData
      [] t \in {9, 11} -> Call \o Nibbles(5) \o Spare(6, 6) \o Station \o Spare(9, 12)
      [] t = 12 -> Media \o Spare(5, 6) \o Relay \o UserData
      [] t = 14 -> Media \o Nibbles(5) \o Spare(6, 6) \o Relay \o UserData
      [] t \in {13, 15} -> Call \o Nibbles(5) \o Spare(6, 6) \o Relay \o Spare(9, 12)

\* bodies, 0x10 to 0x18: data, transmission right, supervision and control.
DataBody(t) ==
    CASE t \in {16, 18} -> Media \o Nibbles(5) \o Spare(6, 6) \o Station \o UserData
      [] t \in {17, 19, 20, 21} -> Call \o Nibbles(5) \o Spare(6, 6) \o Station \o Spare(9, 12)
      [] t \in {22, 23, 24} ->
             Call \o <<Field(5, 8, 8, "more"), Field(5, 7, 5, "sequence"), Field(5, 4, 1, "low")>>
                  \o Spare(6, 6) \o Station \o [n \in 1..4 |-> Octet(8 + n, "information")]

\* bodies, 0x50 to 0x75: the messages of the long channels.
LongBody(t) ==
    CASE t \in {80, 112} -> Spare(4, 63)
      [] t = 81 -> Call \o Nibbles(5) \o Spare(6, 63)
      [] t = 82 ->
             Call \o <<Octet(5, "spare5"), Field(6, 8, 6, "spare6"), Field(6, 5, 1, "count")>>
                  \o [n \in 1..56 |-> Octet(6 + n, IF n % 2 = 1 THEN "idHigh" ELSE "idLow")]
                  \o <<Field(63, 8, 6, "spare63"), Field(63, 5, 1, "continuation")>>
      [] t = 83 -> Call \o Spare(5, 63)
      [] t \in 113..117 -> PayloadRange(4, 63)

HasBody(t) == t \in 1..24 \cup 80..83 \cup 112..117

FieldsFor(t) == CASE t \in 1..7 -> StartBody(t) [] t \in 8..15 -> CallBody(t)
                  [] t \in 16..24 -> DataBody(t) [] HasBody(t) -> LongBody(t)
                  [] OTHER -> <<>>

\* ChannelOf and OctetsFor.
OctetsFor(t) == IF t >= 80 THEN OctetsTCH ELSE OctetsCCH
-----------------------------------------------------------------------------
(* expand.go *)

SumTo(bits, low) == LET sum[b \in 0..8] == IF b = 0 THEN 0
                                           ELSE sum[b - 1] + (IF b \in bits THEN 2^(b - low) ELSE 0)
                    IN sum[8]

\* The value of the bits of an octet from lo to hi, shifted down.
Value(m, oct, hi, lo) == SumTo({b \in lo..hi : <<oct, b>> \in m}, lo)

FieldValue(m, f) == Value(m, f.oct, f.hi, f.lo)

LastPayload(body, total) == total

\* collapsePayload: the octets of a run of payload fields are one entry, from
\* the first to the octet before the next field, or to the end.
CollapsePayload(body, total) ==
    LET Runs == {n \in DOMAIN body : body[n].payload /\ (n = 1 \/ ~body[n - 1].payload)}
        After(n) == {k \in n..Len(body) : ~body[k].payload}
        To(n) == IF After(n) = {} THEN LastPayload(body, total)
                 ELSE body[CHOOSE k \in After(n) : \A j \in After(n) : k <= j].oct - 1
        Entry(n) == IF n \in Runs THEN [body[n] EXCEPT !.hi = To(n), !.lo = 0] ELSE body[n]
        Listed == SelectSeq([n \in DOMAIN body |-> n], LAMBDA n : n \in Runs \/ ~body[n].payload)
    IN [n \in DOMAIN Listed |-> Entry(Listed[n])]

\* expandFields: what was received of the fields, in their order.
ExpandFields(m, n, fields) ==
    LET received == SelectSeq(fields, LAMBDA f : f.oct <= n)
    IN [k \in DOMAIN received |->
            [field |-> received[k],
             value |-> IF received[k].payload THEN 0 ELSE FieldValue(m, received[k])]]

\* pairID: the first number of two octets, if both were received.
PairID(m, n, body) ==
    LET highs == {k \in DOMAIN body : body[k].name = "idHigh"}
        first == body[CHOOSE k \in highs : \A j \in highs : k <= j]
    IN IF highs = {} THEN {}
       ELSE IF first.oct + 1 > n THEN {}
       ELSE {256 * Value(m, first.oct, 8, 1) + Value(m, first.oct + 1, 8, 1)}

Expand(m, n, t) ==
    [header |-> ExpandFields(m, n, CommonHeader),
     body |-> ExpandFields(m, n, CollapsePayload(FieldsFor(t), OctetsFor(t))),
     id |-> PairID(m, n, FieldsFor(t))]
-----------------------------------------------------------------------------
(* message.go *)

Oct(m, i) == Value(m, i + 1, 8, 1)             \* o[i]

\* Slip: the numbers are read an octet late.
IdAtLate(i) == 7 + 2 * i

IdAt(i) == 6 + 2 * i

\* The header, the start of a broadcast and the number notification, of which
\* the last needs the long channel; a list of numbers stops at 28.
DecodeHeader(m) ==
    [busy |-> Oct(m, 0) \div 128, type |-> Oct(m, 0) % 128,
     licensee |-> Oct(m, 1) \div 64, maker |-> Oct(m, 1) % 64,
     sn |-> Oct(m, 2) \div 128, channel |-> (Oct(m, 2) \div 32) % 4,
     switch |-> (Oct(m, 2) \div 16) % 2, timing |-> Oct(m, 2) % 16]

DecodeStart(m) ==
    [media |-> Oct(m, 3) \div 32, protocol |-> (Oct(m, 3) \div 8) % 4, call |-> Oct(m, 3) % 8,
     spare5 |-> Oct(m, 4) \div 64, number |-> (Oct(m, 4) \div 32) % 2,
     record |-> (Oct(m, 4) \div 16) % 2, emergency |-> (Oct(m, 4) \div 8) % 2,
     forced |-> (Oct(m, 4) \div 4) % 2, volume |-> Oct(m, 4) % 4,
     spare6 |-> Oct(m, 5) \div 32, split |-> (Oct(m, 5) \div 16) % 2,
     splitNo |-> Oct(m, 5) % 16, idHigh |-> Oct(m, 6), idLow |-> Oct(m, 7)]

DecodeNumbers(m) ==
    LET count == Oct(m, 5) % 32
    IN [fields |-> [call |-> Oct(m, 3) % 8, spare5 |-> Oct(m, 4), spare6 |-> Oct(m, 5) \div 32,
                    count |-> count, continuation |-> Oct(m, 62) % 32,
                    spare63 |-> Oct(m, 62) \div 32],
        ids |-> [i \in 1..(IF count > 28 THEN 28 ELSE count) |->
                     256 * Oct(m, IdAt(i - 1)) + Oct(m, IdAt(i - 1) + 1)]]

Decode(m, n) ==
    LET h == DecodeHeader(m)
    IN [header |-> h,
        start |-> IF h.type \in {3, 4} THEN {DecodeStart(m)} ELSE {},
        numbers |-> IF h.type = 82 /\ n >= OctetsTCH THEN {DecodeNumbers(m)} ELSE {}]
-----------------------------------------------------------------------------
NoMessage == {}

FieldsInit == /\ raw = NoMessage /\ len = 0 /\ msg = {} /\ shown = {}

TypeBits(t) == {<<1, b>> : b \in {c \in 1..7 : (t \div 2^(c - 1)) % 2 = 1}}

\* A message passes its checksum: it is decoded, and laid out for the page.
Receive(t, n, bits) ==
    /\ len' = n
    /\ raw' = TypeBits(t) \cup bits
    /\ \E m \in {raw'} : /\ msg' = {Decode(m, n)}
                         /\ shown' = {Expand(m, n, DecodeHeader(m).type)}

Bits(n) == (1..n) \X (1..8)

FieldsNext ==
    /\ raw = NoMessage
    /\ \E n \in {OctetsCCH, OctetsTCH} : \E bit \in {b \in Bits(n) : b[1] > 1} :
          \/ \E t \in {u \in Types : HasBody(u) \/ bit = <<4, 1>>} : Receive(t, n, {bit})
          \/ \E c \in 1..5 : Receive(82, n, {bit, <<6, c>>})

FieldsSpec == FieldsInit /\ [][FieldsNext]_fieldVars

-----------------------------------------------------------------------------
\* What is shown is what was received.
FieldsTypeOK ==
    /\ len \in {0, OctetsCCH, OctetsTCH} /\ raw \subseteq Bits(len)
    /\ \A s \in shown : \A k \in DOMAIN s.body : s.body[k].field.oct <= len

Shows(entry, bit) ==
    IF entry.field.lo = 0 THEN bit[1] \in entry.field.oct .. entry.field.hi
    ELSE bit[1] = entry.field.oct /\ bit[2] \in entry.field.lo .. entry.field.hi

\* Every bit of a message of a known type is shown by one field of the page and
\* by no second one, and a field with a bit set shows a value that is not 0 and
\* below two to its width: no octet of any of the 34 layouts is left out,
\* described twice or shifted wrong (bits.go, collapsePayload, expandFields).
EveryBitShown ==
    \A s \in shown :
        LET type == DecodeHeader(raw).type
            entries == s.header \o s.body
            of(bit) == {k \in DOMAIN entries : Shows(entries[k], bit)}
        IN HasBody(type) =>
               /\ \A bit \in {b \in raw : b[1] <= OctetsFor(type)} :
                      \E k \in of(bit) :
                          /\ of(bit) = {k}
                          /\ ~entries[k].field.payload =>
                                 entries[k].value \in 1..(2^(entries[k].field.hi
                                                             - entries[k].field.lo + 1) - 1)
               /\ \A k \in DOMAIN entries : entries[k].value # 0 =>
                      \E bit \in raw : Shows(entries[k], bit)

Says(record, name, value) == name \in DOMAIN record => record[name] = value

\* The two descriptions of a message agree: whatever Decode reads of the header,
\* of the start of a broadcast and of a number notification is the value the page
\* shows under that name, and the number the page pairs is the one Decode reads
\* first, so the operator never sees a target other than the one that was acted
\* on (Decode, Expand, pairID).
DescriptionsAgree ==
    \A m \in msg, s \in shown :
        /\ \A k \in DOMAIN s.header : Says(m.header, s.header[k].field.name, s.header[k].value)
        /\ \A st \in m.start :
               /\ \A k \in DOMAIN s.body : Says(st, s.body[k].field.name, s.body[k].value)
               /\ s.id = {256 * st.idHigh + st.idLow}
        /\ \A nn \in m.numbers :
               /\ \A k \in DOMAIN s.body : Says(nn.fields, s.body[k].field.name, s.body[k].value)
               /\ \A i \in DOMAIN nn.ids :
                      /\ nn.ids[i] # 0 => \E bit \in raw : bit[1] \in {5 + 2 * i, 6 + 2 * i}
                      /\ i = 1 => s.id = {nn.ids[1]}
=============================================================================
