-------------------------- MODULE WsFramingProofs --------------------------
(***************************************************************************)
(* Proofs about WsFraming, for every traffic, however it is cut, and all   *)
(* limits.                                                                 *)
(***************************************************************************)
EXTENDS WsFraming, FiniteSetTheorems, FunctionTheorems, TLAPS

\* The type invariant in three parts: the flags, where the loop is, and what
\* it has made of the frames.
FlagTypes == running \in BOOLEAN /\ open \in BOOLEAN /\ raised \in BOOLEAN

WireTypes ==
    /\ frames \in Traffic
    /\ unsent \in Nat /\ buffer \in Nat
    /\ pos \in 1..(Len(frames) + 1)
    /\ state \in {"init", "payload_length", "masking_key", "check_frame",
                  "payload_data", "process_frame"}

Messages == [op: Opening, parts: Seq(1..Len(frames)), last: 1..Len(frames)]

ContentTypes ==
    /\ opcode \in Opening \cup {"nil"}
    /\ validator \in {"accept", "partial"}
    /\ message \in Seq(1..Len(frames))
    /\ size \in Nat
    /\ status \in Statuses
    /\ delivered \in Seq(Messages)
    /\ pongs \in Seq(1..Len(frames))

LEMMA SplitTypes == TypeOK <=> FlagTypes /\ WireTypes /\ ContentTypes
BY ZenonT(30) DEF TypeOK, FlagTypes, WireTypes, ContentTypes, Messages

\* Total adds up what w gives the members of S.
LEMMA TotalFacts ==
    ASSUME NEW D, IsFiniteSet(D), NEW w \in [D -> Nat], NEW S \in SUBSET D
    PROVE  /\ Total(w, {}) = 0
           /\ Total(w, S) \in Nat
           /\ \A p \in D \ S : Total(w, S \cup {p}) = Total(w, S) + w[p]
<1> DEFINE Row(i) == {i} \X (1..w[i])
           Pairs(R) == UNION {Row(i) : i \in R}
<1>1. \A i \in D : IsFiniteSet(Row(i)) /\ Cardinality(Row(i)) = w[i]
    <2> SUFFICES ASSUME NEW i \in D PROVE IsFiniteSet(Row(i)) /\ Cardinality(Row(i)) = w[i]
        OBVIOUS
    <2>1. IsFiniteSet(1..w[i]) /\ Cardinality(1..w[i]) = w[i] /\ w[i] \in Nat
        <3>1. w[i] \in Int /\ w[i] \in Nat /\ 1 \in Int
            OBVIOUS
        <3>2. IsFiniteSet(1..w[i]) /\ Cardinality(1..w[i]) = IF 1 > w[i] THEN 0 ELSE w[i] - 1 + 1
            BY <3>1, FS_Interval
        <3>3. QED
            BY <3>1, <3>2
    <2>2. IsFiniteSet({i}) /\ Cardinality({i}) = 1
        BY FS_Singleton
    <2>3. IsFiniteSet({i} \X (1..w[i])) /\ Cardinality({i} \X (1..w[i])) = Cardinality({i}) * Cardinality(1..w[i])
        BY <2>1, <2>2, FS_Product
    <2>4. QED
        BY <2>1, <2>2, <2>3
<1>2. IsFiniteSet(Pairs(S))
    <2> DEFINE rows == [i \in S |-> Row(i)]
    <2>1. IsFiniteSet(S)
        BY FS_Subset
    <2>2. rows \in Surjection(S, {Row(i) : i \in S})
        <3> HIDE DEF Row
        <3>1. rows \in [S -> {Row(i) : i \in S}] /\ \A t \in {Row(i) : i \in S} : \E i \in S : rows[i] = t
            OBVIOUS
        <3> HIDE DEF rows
        <3>2. QED
            BY <3>1, Fun_IsSurj
    <2>3. IsFiniteSet({Row(i) : i \in S})
        BY <2>1, <2>2, FS_Surjection
    <2>4. \A T \in {Row(i) : i \in S} : IsFiniteSet(T)
        BY <1>1
    <2>5. QED
        BY <2>3, <2>4, FS_UNION
<1>3. Cardinality(Pairs(S)) \in Nat
    BY <1>2, FS_CardinalityType
<1>4. Pairs({}) = {}
    OBVIOUS
<1>5. ASSUME NEW p \in D \ S
      PROVE  Cardinality(Pairs(S \cup {p})) = Cardinality(Pairs(S)) + w[p]
    <2>1. Pairs(S \cup {p}) = Pairs(S) \cup Row(p) /\ Pairs(S) \cap Row(p) = {}
        OBVIOUS
    <2>2. IsFiniteSet(Row(p)) /\ Cardinality(Row(p)) = w[p] /\ w[p] \in Nat
        BY <1>1
    <2> HIDE DEF Row, Pairs
    <2>3. Cardinality(Pairs(S) \cup Row(p))
          = Cardinality(Pairs(S)) + Cardinality(Row(p)) - Cardinality(Pairs(S) \cap Row(p))
        BY <1>2, <2>2, FS_Union
    <2>4. Cardinality(Pairs(S) \cap Row(p)) = 0
        BY <2>1, FS_EmptySet
    <2>5. Cardinality(Pairs(S \cup {p})) = Cardinality(Pairs(S)) + w[p] - 0
        BY <2>1, <2>2, <2>3, <2>4, Zenon
    <2>6. \A x, y \in Nat : x + y - 0 = x + y
        OBVIOUS
    <2>7. QED
        BY <1>3, <2>2, <2>5, <2>6, Zenon
<1>6. \A R : Total(w, R) = Cardinality(Pairs(R))
    BY DEF Total
<1> HIDE DEF Pairs
<1>7. QED
    BY <1>3, <1>4, <1>5, <1>6, FS_EmptySet

\* The sums over the frames of a client.
LEMMA SumsOfFrames ==
    ASSUME NEW fs \in Seq(Frame)
    PROVE  /\ \A p \in 1..(Len(fs) + 1) : PartsFrom(fs, p) \in Nat
           /\ PartsFrom(fs, Len(fs) + 1) = 0
           /\ \A p \in 1..Len(fs) : PartsFrom(fs, p) = Parts(fs[p]) + PartsFrom(fs, p + 1)
           /\ Volume(fs, {}) = 0
           /\ \A S \in SUBSET (1..Len(fs)) : \A p \in (1..Len(fs)) \ S :
                  Volume(fs, S \cup {p}) = Volume(fs, S) + fs[p].len
<1> DEFINE D == 1..Len(fs)
           parts == [i \in D |-> Parts(fs[i])]
           lens == [i \in D |-> fs[i].len]
<1>1. Len(fs) \in Nat /\ \A i \in D : fs[i] \in Frame
    OBVIOUS
<1>2. IsFiniteSet(D)
    BY <1>1, FS_Interval
<1>3. /\ \A i \in D : Parts(fs[i]) \in Nat /\ fs[i].len \in Nat
      /\ parts \in [D -> Nat] /\ \A i \in D : parts[i] = Parts(fs[i])
      /\ lens \in [D -> Nat] /\ \A i \in D : lens[i] = fs[i].len
    BY <1>1 DEF Parts, Frame
<1>4. /\ \A p : PartsFrom(fs, p) = Total(parts, p..Len(fs))
      /\ \A S : Volume(fs, S) = Total(lens, S)
    BY DEF PartsFrom, Volume
<1> HIDE DEF parts, lens
<1>5. \A p \in 1..(Len(fs) + 1) : PartsFrom(fs, p) \in Nat
    <2> SUFFICES ASSUME NEW p \in 1..(Len(fs) + 1) PROVE Total(parts, p..Len(fs)) \in Nat
        BY <1>4
    <2>1. p..Len(fs) \in SUBSET D
        BY <1>1
    <2>2. QED
        BY <1>2, <1>3, <2>1, TotalFacts
<1>6. PartsFrom(fs, Len(fs) + 1) = 0
    <2>1. (Len(fs) + 1)..Len(fs) = {}
        BY <1>1
    <2>2. Total(parts, {}) = 0
        BY <1>2, <1>3, TotalFacts
    <2>3. QED
        BY <1>4, <2>1, <2>2
<1>7. ASSUME NEW p \in D PROVE PartsFrom(fs, p) = Parts(fs[p]) + PartsFrom(fs, p + 1)
    <2>1. /\ (p + 1)..Len(fs) \in SUBSET D /\ p \in D \ ((p + 1)..Len(fs))
          /\ p..Len(fs) = ((p + 1)..Len(fs)) \cup {p}
        BY <1>1
    <2> DEFINE rest == (p + 1)..Len(fs)
    <2>2. PartsFrom(fs, p) = Total(parts, rest \cup {p}) /\ PartsFrom(fs, p + 1) = Total(parts, rest)
        BY <1>4, <2>1
    <2>3. rest \in SUBSET D /\ p \in D \ rest
        BY <2>1
    <2> HIDE DEF rest, D
    <2>4. Total(parts, rest \cup {p}) = Total(parts, rest) + parts[p] /\ Total(parts, rest) \in Nat
        BY <1>2, <1>3, <2>3, TotalFacts
    <2>5. parts[p] = Parts(fs[p]) /\ parts[p] \in Nat
        BY <1>3, <2>3
    <2>6. \A x, y \in Nat : x + y = y + x
        OBVIOUS
    <2>7. QED
        BY <2>2, <2>4, <2>5, <2>6, Zenon
<1>8. /\ Volume(fs, {}) = 0
      /\ \A S \in SUBSET D : \A p \in D \ S : Volume(fs, S \cup {p}) = Volume(fs, S) + fs[p].len
    <2>1. {} \in SUBSET D
        OBVIOUS
    <2> HIDE DEF D
    <2>2. Total(lens, {}) = 0
        BY <1>2, <1>3, <2>1, TotalFacts
    <2>3. ASSUME NEW S \in SUBSET D, NEW p \in D \ S
          PROVE  Volume(fs, S \cup {p}) = Volume(fs, S) + fs[p].len
        <3>1. Total(lens, S \cup {p}) = Total(lens, S) + lens[p]
            <4>1. lens \in [D -> Nat]
                BY <1>3
            <4>2. \A q \in D \ S : Total(lens, S \cup {q}) = Total(lens, S) + lens[q]
                BY <1>2, <4>1, TotalFacts
            <4>3. QED
                BY <4>2, Zenon
        <3>2. lens[p] = fs[p].len
            BY <1>3
        <3>3. QED
            BY <1>4, <3>1, <3>2, Zenon
    <2>4. Volume(fs, {}) = 0
        BY <1>4, <2>2, Zenon
    <2>5. QED
        BY <2>3, <2>4, Zenon
<1>9. QED
    BY <1>5, <1>6, <1>7, <1>8

\* The frames and the parts that are left of them.
LEMMA FrameFacts ==
    ASSUME WireTypes
    PROVE  /\ max_frame_size \in Nat /\ max_message_size \in Nat /\ MaxControl \in Nat
           /\ Len(frames) \in Nat /\ pos \in Nat /\ pos >= 1 /\ pos <= Len(frames) + 1
           /\ \A i \in 1..Len(frames) :
                  /\ frames[i].op \in Control \cup Opening \cup {"continuation"}
                  /\ frames[i].len \in Nat
                  /\ frames[i].utf8 \in {"whole", "cut", "rest", "bad"}
                  /\ frames[i].defect \in {"none", "rsv", "opcode", "mask", "huge"}
           /\ PartsFrom(frames, pos) \in Nat
           /\ pos = Len(frames) + 1 => PartsFrom(frames, pos) = 0
           /\ pos <= Len(frames) =>
                  /\ PartsFrom(frames, pos + 1) \in Nat
                  /\ PartsFrom(frames, pos) = Parts(frames[pos]) + PartsFrom(frames, pos + 1)
<1>1. /\ max_frame_size \in Nat /\ max_message_size \in Nat /\ MaxControl \in Nat
      /\ frames \in Traffic /\ frames \in Seq(Frame)
    BY FramingConstants DEF WireTypes
<1>2. Len(frames) \in Nat /\ pos \in Nat /\ pos >= 1 /\ pos <= Len(frames) + 1
    BY <1>1 DEF WireTypes
<1>3. \A i \in 1..Len(frames) : frames[i] \in Frame
    BY <1>1
<1>4. \A i \in 1..Len(frames) :
          /\ frames[i].op \in Control \cup Opening \cup {"continuation"}
          /\ frames[i].len \in Nat
          /\ frames[i].utf8 \in {"whole", "cut", "rest", "bad"}
          /\ frames[i].defect \in {"none", "rsv", "opcode", "mask", "huge"}
    BY <1>3 DEF Frame
<1>5. /\ PartsFrom(frames, pos) \in Nat
      /\ pos = Len(frames) + 1 => PartsFrom(frames, pos) = 0
      /\ pos <= Len(frames) =>
             /\ PartsFrom(frames, pos + 1) \in Nat
             /\ PartsFrom(frames, pos) = Parts(frames[pos]) + PartsFrom(frames, pos + 1)
    BY <1>1, <1>2, SumsOfFrames
<1>6. QED
    BY <1>1, <1>2, <1>4, <1>5

\* The opener of a frame is the last frame up to it that opens a message.
LEMMA OpenerIs ==
    ASSUME NEW fs, NEW i \in Nat, NEW o \in 1..i, fs[o].op \in Opening,
           \A j \in (o + 1)..i : fs[j].op \notin Opening
    PROVE  Opener(fs, i) = o /\ HasOpener(fs, i)
<1> DEFINE S == {j \in 1..i : fs[j].op \in Opening}
<1>1. o \in S /\ \A j \in S : o >= j
    OBVIOUS
<1>2. \A x \in S : (\A y \in S : x >= y) => x = o
    BY <1>1
<1>3. Max(S) = o
    BY <1>1, <1>2 DEF Max
<1>4. QED
    BY <1>1, <1>3 DEF Opener, HasOpener

\* A message with one more payload, from behind the others.
LEMMA AppendStored ==
    ASSUME NEW n \in Nat, NEW m \in Seq(1..n), NEW p \in 1..n, Ordered(m),
           \A k \in Stored(m) : k < p
    PROVE  /\ Append(m, p) \in Seq(1..n)
           /\ Stored(Append(m, p)) = Stored(m) \cup {p}
           /\ Ordered(Append(m, p))
           /\ Append(m, p) # <<>>
           /\ Append(m, p)[Len(Append(m, p))] = p
<1>1. /\ Append(m, p) \in Seq(1..n)
      /\ Len(m) \in Nat /\ Len(Append(m, p)) = Len(m) + 1
      /\ \A i \in 1..Len(m) : Append(m, p)[i] = m[i] /\ m[i] \in 1..n
      /\ Append(m, p)[Len(m) + 1] = p
    OBVIOUS
<1>2. Stored(Append(m, p)) = Stored(m) \cup {p}
    BY <1>1 DEF Stored
<1>3. Ordered(Append(m, p))
    <2> SUFFICES ASSUME NEW i \in 1..(Len(m) + 1), NEW j \in 1..(Len(m) + 1), i < j
                 PROVE  Append(m, p)[i] < Append(m, p)[j]
        BY <1>1 DEF Ordered
    <2>1. i \in 1..Len(m) /\ m[i] \in Stored(m) /\ m[i] < p
        BY <1>1 DEF Stored
    <2>2. CASE j = Len(m) + 1
        BY <1>1, <2>1, <2>2
    <2>3. CASE j # Len(m) + 1
        <3>1. j \in 1..Len(m)
            BY <1>1, <2>3
        <3>2. m[i] < m[j]
            BY <2>1, <3>1 DEF Ordered
        <3>3. Append(m, p)[i] = m[i] /\ Append(m, p)[j] = m[j]
            BY <1>1, <2>1, <3>1
        <3>4. QED
            BY <3>2, <3>3
    <2>4. QED
        BY <2>2, <2>3
<1>4. QED
    BY <1>1, <1>2, <1>3

\* The last payload of a message in order is the one with the greatest index.
LEMMA LastStored ==
    ASSUME NEW n \in Nat, NEW m \in Seq(1..n), Ordered(m)
    PROVE  /\ Stored(m) = {} <=> m = <<>>
           /\ m # <<>> => Max(Stored(m)) = m[Len(m)]
<1>1. Len(m) \in Nat /\ \A i \in 1..Len(m) : m[i] \in 1..n
    OBVIOUS
<1>2. m = <<>> => Stored(m) = {}
    BY DEF Stored
<1>3. ASSUME m # <<>> PROVE Stored(m) # {} /\ Max(Stored(m)) = m[Len(m)]
    <2>1. Len(m) \in 1..Len(m)
        BY <1>1, <1>3
    <2>2. m[Len(m)] \in Stored(m)
        BY <2>1 DEF Stored
    <2>3. \A k \in Stored(m) : k \in Int /\ m[Len(m)] >= k
        BY <1>1, <2>1 DEF Stored, Ordered
    <2>4. \A x \in Stored(m) : (\A y \in Stored(m) : x >= y) => x = m[Len(m)]
        BY <2>2, <2>3
    <2>5. QED
        BY <2>2, <2>3, <2>4 DEF Max
<1>4. QED
    BY <1>2, <1>3

\* Whether a message is unfinished is decided by the last data frame.
LEMMA UnfinishedNext ==
    ASSUME NEW fs, NEW p \in Nat \ {0}
    PROVE  /\ Data(fs, p) => (Unfinished(fs, p + 1) <=> ~fs[p].fin)
           /\ ~Data(fs, p) => (Unfinished(fs, p + 1) <=> Unfinished(fs, p))
<1>1. ASSUME Data(fs, p), ~fs[p].fin PROVE Unfinished(fs, p + 1)
    BY <1>1 DEF Unfinished
<1>2. ASSUME Unfinished(fs, p + 1), Data(fs, p) PROVE ~fs[p].fin
    <2>1. PICK j \in 1..p : /\ Data(fs, j) /\ ~fs[j].fin
                            /\ \A k \in (j + 1)..p : ~Data(fs, k)
        BY <1>2 DEF Unfinished
    <2>2. j = p
        BY <1>2, <2>1
    <2>3. QED
        BY <2>1, <2>2
<1>3. ASSUME Unfinished(fs, p + 1), ~Data(fs, p) PROVE Unfinished(fs, p)
    <2>1. PICK j \in 1..p : /\ Data(fs, j) /\ ~fs[j].fin
                            /\ \A k \in (j + 1)..p : ~Data(fs, k)
        BY <1>3 DEF Unfinished
    <2>2. j \in 1..(p - 1) /\ \A k \in (j + 1)..(p - 1) : ~Data(fs, k)
        BY <1>3, <2>1
    <2>3. QED
        BY <2>1, <2>2 DEF Unfinished
<1>4. ASSUME Unfinished(fs, p), ~Data(fs, p) PROVE Unfinished(fs, p + 1)
    <2>1. PICK j \in 1..(p - 1) : /\ Data(fs, j) /\ ~fs[j].fin
                                  /\ \A k \in (j + 1)..(p - 1) : ~Data(fs, k)
        BY <1>4 DEF Unfinished
    <2>2. j \in 1..((p + 1) - 1) /\ \A k \in (j + 1)..((p + 1) - 1) : ~Data(fs, k)
        BY <1>4, <2>1
    <2>3. QED
        BY <2>1, <2>2 DEF Unfinished
<1>5. QED
    BY <1>1, <1>2, <1>3, <1>4

-----------------------------------------------------------------------------
(* The frame that is processed.                                            *)

\* The operation of the message that the frame belongs to.
MessageOp == IF cur.op \in Opening THEN cur.op ELSE opcode

\* The message with the payload of the frame has the payloads from the opener
\* on to the frame.
LEMMA DataFrame ==
    ASSUME IInv, open, ~raised, state = "process_frame", cur.op \notin Control
    PROVE  /\ Extended \in Seq(1..Len(frames)) /\ Ordered(Extended)
           /\ size + cur.len = Volume(frames, Stored(Extended))
           /\ \A i \in 1..pos : frames[i].op # "close"
           /\ \E o \in 1..pos :
                  /\ frames[o].op = MessageOp
                  /\ \A j \in (o + 1)..pos : frames[j].op \notin Opening
                  /\ Stored(Extended) = {j \in o..pos : Data(frames, j) /\ frames[j].len > 0}
           /\ HasOpener(frames, pos) /\ frames[Opener(frames, pos)].op = MessageOp
           /\ Stored(Extended) = Payloads(frames, pos)
           /\ Stored(message) = Payloads(frames, pos) \ {pos}
<1>a. WireTypes /\ ContentTypes /\ InStep /\ FrameFits /\ Collected
    BY SplitTypes DEF IInv
<1>b. /\ pos \in Nat /\ pos \in 1..Len(frames) /\ Len(frames) \in Nat
      /\ cur = frames[pos] /\ cur.len \in Nat
      /\ cur.op \in Opening \cup {"continuation"} /\ Data(frames, pos)
    BY <1>a, FrameFacts DEF InStep, cur, Data
<1>c. /\ message \in Seq(1..Len(frames)) /\ Ordered(message)
      /\ size = Volume(frames, Stored(message)) /\ size \in Nat
    BY <1>a DEF ContentTypes, Collected
<1>1. PICK o \in 1..pos :
          /\ frames[o].op = MessageOp /\ MessageOp \in Opening
          /\ \A j \in (o + 1)..pos : frames[j].op \notin Opening
          /\ Stored(message) = {j \in o..(pos - 1) : Data(frames, j) /\ frames[j].len > 0}
    <2>1. CASE cur.op \in Opening
        <3>1. message = <<>>
            BY <1>a, <2>1 DEF FrameFits, Collected
        <3>2. Stored(message) = {}
            BY <3>1 DEF Stored
        <3>3. Stored(message) = {j \in pos..(pos - 1) : Data(frames, j) /\ frames[j].len > 0}
            BY <1>b, <3>2
        <3>4. QED
            BY <1>b, <2>1, <3>3 DEF MessageOp
    <2>2. CASE cur.op \notin Opening
        <3>1. opcode # "nil" /\ MessageOp = opcode /\ opcode \in Opening
            BY <1>a, <1>b, <2>2 DEF FrameFits, MessageOp, ContentTypes
        <3>2. PICK o \in 1..(pos - 1) :
                  /\ frames[o].op = opcode
                  /\ \A j \in (o + 1)..(pos - 1) : frames[j].op \notin Opening
                  /\ Stored(message) = {j \in o..(pos - 1) : Data(frames, j) /\ frames[j].len > 0}
            BY <1>a, <3>1 DEF Collected
        <3>3. o \in 1..pos /\ \A j \in (o + 1)..pos : frames[j].op \notin Opening
            BY <1>b, <2>2, <3>2
        <3>4. QED
            BY <3>1, <3>2, <3>3
    <2>3. QED
        BY <2>1, <2>2
<1>2. Opener(frames, pos) = o /\ HasOpener(frames, pos)
    BY <1>b, <1>1, OpenerIs
<1>3. Payloads(frames, pos) = {j \in o..pos : Data(frames, j) /\ frames[j].len > 0}
    BY <1>2 DEF Payloads
<1>4. \A k \in Stored(message) : k < pos
    BY <1>b, <1>1
<1>5. /\ Extended \in Seq(1..Len(frames)) /\ Ordered(Extended)
      /\ Stored(Extended) = IF cur.len > 0 THEN Stored(message) \cup {pos} ELSE Stored(message)
    <2>1. CASE cur.len > 0
        <3>1. Extended = Append(message, pos)
            BY <2>1 DEF Extended
        <3>2. /\ Append(message, pos) \in Seq(1..Len(frames))
              /\ Stored(Append(message, pos)) = Stored(message) \cup {pos}
              /\ Ordered(Append(message, pos))
            BY <1>b, <1>c, <1>4, AppendStored
        <3>3. QED
            BY <2>1, <3>1, <3>2
    <2>2. CASE ~(cur.len > 0)
        BY <1>c, <2>2 DEF Extended
    <2>3. QED
        BY <2>1, <2>2
<1>6. Stored(Extended) = {j \in o..pos : Data(frames, j) /\ frames[j].len > 0}
    BY <1>b, <1>1, <1>5
<1>7. Stored(message) = Payloads(frames, pos) \ {pos}
    BY <1>b, <1>1, <1>3
<1>8. size + cur.len = Volume(frames, Stored(Extended))
    <2>1. CASE cur.len > 0
        <3>1. Stored(message) \in SUBSET (1..Len(frames)) /\ pos \in (1..Len(frames)) \ Stored(message)
            BY <1>b, <1>1
        <3>2. Volume(frames, Stored(message) \cup {pos}) = Volume(frames, Stored(message)) + cur.len
            <4>1. frames \in Seq(Frame)
                BY <1>a, FramingConstants DEF WireTypes
            <4>2. QED
                BY <1>b, <3>1, <4>1, SumsOfFrames
        <3>3. QED
            BY <1>c, <1>5, <2>1, <3>2
    <2>2. CASE ~(cur.len > 0)
        BY <1>b, <1>c, <1>5, <2>2
    <2>3. QED
        BY <2>1, <2>2
<1>9. \A i \in 1..pos : frames[i].op # "close"
    BY <1>a, <1>b DEF Collected, Opening
<1>10. QED
    BY <1>1, <1>2, <1>3, <1>5, <1>6, <1>7, <1>8, <1>9

\* What RFC 6455 allows is neither too long nor bad text.
LEMMA LegalFrame ==
    ASSUME IInv, open, ~raised, state = "process_frame", cur.op \notin Control,
           AllLegal(frames)
    PROVE  /\ size + cur.len <= max_message_size
           /\ cur.op = "text" => ~BadText("accept")
           /\ cur.op = "continuation" /\ opcode = "text" => ~BadText(validator)
<1>a. WireTypes /\ ContentTypes /\ InStep /\ FrameFits /\ Collected /\ Validated
    BY SplitTypes DEF IInv
<1>b. /\ pos \in Nat /\ pos \in 1..Len(frames) /\ Len(frames) \in Nat
      /\ cur = frames[pos] /\ Data(frames, pos)
    BY <1>a, FrameFacts DEF InStep, cur, Data
<1>c. Legal(frames, pos) /\ LegalUtf8(frames, pos) /\ Volume(frames, Payloads(frames, pos)) <= max_message_size
    BY <1>b DEF AllLegal, Legal
<1>1. /\ size + cur.len = Volume(frames, Payloads(frames, pos))
      /\ frames[Opener(frames, pos)].op = MessageOp
      /\ Stored(message) = Payloads(frames, pos) \ {pos}
    BY DataFrame
<1>2. /\ Stored(message) = {} <=> message = <<>>
      /\ message # <<>> => Max(Stored(message)) = message[Len(message)]
    BY <1>a, <1>b, LastStored DEF ContentTypes, Collected
<1> DEFINE v == IF Stored(message) = {} \/ frames[Max(Stored(message))].utf8 \in {"whole", "rest"}
                THEN "accept" ELSE "partial"
<1>3. MessageOp = "text" =>
          LET w == IF cur.len > 0 THEN Validate(v, cur.utf8) ELSE v
          IN w # "reject" /\ (cur.fin => w = "accept")
    BY <1>b, <1>c, <1>1 DEF LegalUtf8
<1>4. MessageOp = "text" => ~BadText(v)
    BY <1>3 DEF BadText
<1>5. cur.op = "text" => MessageOp = "text" /\ v = "accept"
    BY <1>a, <1>2 DEF MessageOp, FrameFits, Collected, Opening
<1>6. cur.op = "continuation" /\ opcode = "text" => MessageOp = "text" /\ v = validator
    BY <1>a, <1>2 DEF MessageOp, Validated, Opening
<1>7. QED
    BY <1>1, <1>4, <1>5, <1>6, <1>c

-----------------------------------------------------------------------------
(* The inductive invariant.                                                *)

\* A new connection satisfies the inductive invariant.
LEMMA InitIInv == Init => IInv
<1> SUFFICES ASSUME Init PROVE IInv
    OBVIOUS
<1>1. /\ frames \in Traffic /\ Len(frames) \in Nat
      /\ PartsFrom(frames, 1) \in Nat /\ Volume(frames, {}) = 0
    <2>1. frames \in Traffic /\ frames \in Seq(Frame)
        BY FramingConstants DEF Init
    <2>2. Len(frames) \in Nat /\ 1 \in 1..(Len(frames) + 1)
        BY <2>1
    <2>3. QED
        BY <2>1, <2>2, SumsOfFrames
<1>2. FlagTypes
    BY DEF Init, FlagTypes
<1>3. WireTypes
    BY <1>1 DEF Init, WireTypes
<1>4. ContentTypes
    BY DEF Init, ContentTypes, Statuses
<1>5. InStep /\ FrameFits
    BY <1>1 DEF Init, InStep, PartsRead, FrameFits
<1>6. Collected
    <2>1. Stored(message) = {} /\ Ordered(message) /\ message = <<>>
        BY DEF Init, Stored, Ordered
    <2>2. QED
        BY <1>1, <2>1 DEF Init, Collected
<1>7. Validated
    BY DEF Init, Validated
<1>8. OpenAsSent
    BY DEF Init, OpenAsSent, Unfinished
<1>9. DeliveredIntact /\ LegalNotRefused
    BY DEF Init, DeliveredIntact, LegalNotRefused
<1>10. QED
    BY <1>2, <1>3, <1>4, <1>5, <1>6, <1>7, <1>8, <1>9, SplitTypes DEF IInv

\* A step is put together from its parts.
LEMMA Together ==
    ASSUME FlagTypes', WireTypes', ContentTypes', InStep', FrameFits',
           (open' /\ ~raised') => Collected' /\ Validated' /\ OpenAsSent',
           DeliveredIntact', LegalNotRefused'
    PROVE  IInv'
<1>1. TypeOK'
    BY SplitTypes, PTL
<1>2. QED
    BY <1>1 DEF IInv

\* A round that does not end the reading of a frame leaves the message as it is.
LEMMA SameContent ==
    ASSUME IInv, UNCHANGED <<frames, pos, opcode, validator, message, size, open, status,
                             delivered, pongs, raised>>,
           running' \in BOOLEAN, WireTypes', InStep', FrameFits'
    PROVE  IInv'
<1>a. FlagTypes /\ ContentTypes
    BY SplitTypes DEF IInv
<1>1. FlagTypes'
    BY <1>a DEF FlagTypes
<1>2. ContentTypes'
    BY <1>a DEF ContentTypes, Messages
<1>3. ASSUME open', ~raised' PROVE Collected' /\ Validated' /\ OpenAsSent'
    <2>1. Collected /\ Validated /\ OpenAsSent
        BY <1>3 DEF IInv
    <2>2. QED
        BY <2>1 DEF Collected, Validated, OpenAsSent
<1>4. DeliveredIntact' /\ LegalNotRefused'
    BY DEF IInv, DeliveredIntact, LegalNotRefused
<1>5. QED
    BY <1>1, <1>2, <1>3, <1>4, Together

\* The connection is closed, by the script or for a frame that deserves it.
LEMMA ClosingStep ==
    ASSUME IInv, NEW s \in Statuses, open, CloseConnection(s),
           UNCHANGED <<frames, unsent, delivered, raised>>,
           WireTypes', ContentTypes', FrameFits',
           state' # "init" => pos' = pos /\ state' = state,
           ~raised /\ AllLegal(frames) => s \in {"none", "nil", "app"}
    PROVE  IInv'
<1>1. status' = s /\ open' = FALSE /\ running' = FALSE
    BY DEF CloseConnection
<1>2. FlagTypes'
    <2>1. raised \in BOOLEAN
        BY SplitTypes DEF IInv, FlagTypes
    <2>2. QED
        BY <1>1, <2>1 DEF FlagTypes
<1>3. InStep'
    <2>1. state' # "init" => pos' <= Len(frames')
        BY DEF IInv, InStep
    <2>2. state' = "payload_length" => cur'.long
        BY DEF IInv, InStep, cur
    <2>3. QED
        BY <1>1, <2>1, <2>2 DEF InStep
<1>4. DeliveredIntact'
    BY DEF IInv, DeliveredIntact
<1>5. LegalNotRefused'
    BY <1>1 DEF LegalNotRefused
<1>6. QED
    BY <1>1, <1>2, <1>3, <1>4, <1>5, Together

\* A protocol violation.
LEMMA FailStep ==
    ASSUME IInv, NEW s \in Statuses, open, Fail(s),
           ~raised /\ AllLegal(frames) => s \in {"none", "nil", "app"}
    PROVE  IInv'
<1>a. WireTypes /\ ContentTypes /\ FrameFits
    BY SplitTypes DEF IInv
<1>1. /\ CloseConnection(s) /\ buffer' = 0
      /\ UNCHANGED <<frames, unsent, pos, state, opcode, validator, message, size,
                     delivered, pongs, raised>>
    BY DEF Fail, CloseConnection, wire, content, history
<1>2. WireTypes'
    BY <1>a, <1>1 DEF WireTypes
<1>3. ContentTypes'
    <2>1. status' \in Statuses
        BY <1>1 DEF CloseConnection
    <2>2. QED
        BY <1>a, <1>1, <2>1 DEF ContentTypes, Messages
<1>4. FrameFits'
    BY <1>a, <1>1 DEF FrameFits, cur
<1>5. QED
    BY <1>1, <1>2, <1>3, <1>4, ClosingStep

-----------------------------------------------------------------------------
(* The rounds that read a frame.                                           *)

\* Where the loop is while there is a part to read or a frame to process.
LEMMA AtFrame ==
    ASSUME IInv, running, buffer > 0 \/ state # "init"
    PROVE  /\ open /\ pos \in 1..Len(frames) /\ cur = frames[pos]
           /\ Len(frames) \in Nat /\ cur.len \in Nat
           /\ unsent \in Nat /\ buffer \in Nat
           /\ PartsFrom(frames, pos + 1) \in Nat
           /\ unsent + buffer + PartsRead = Parts(cur) + PartsFrom(frames, pos + 1)
<1>a. WireTypes /\ InStep
    BY SplitTypes DEF IInv
<1>1. open /\ cur = frames[pos] /\ unsent \in Nat /\ buffer \in Nat
    BY <1>a DEF InStep, cur, WireTypes
<1>2. pos <= Len(frames)
    <2>1. CASE state # "init"
        BY <1>a, <2>1 DEF InStep
    <2>2. CASE state = "init"
        <3>1. unsent + buffer + 0 = PartsFrom(frames, pos)
            BY <1>a, <1>1, <2>2 DEF InStep, PartsRead
        <3>2. PartsFrom(frames, pos) # 0
            BY <1>1, <2>2, <3>1
        <3>3. QED
            BY <1>a, <3>2, FrameFacts
    <2>3. QED
        BY <2>1, <2>2
<1>3. pos \in 1..Len(frames) /\ Len(frames) \in Nat
    BY <1>a, <1>2, FrameFacts
<1>4. QED
    BY <1>a, <1>1, <1>2, <1>3, FrameFacts DEF InStep

LEMMA ReceiveDataStep == ASSUME IInv, NEW n \in 1..unsent, ReceiveData(n) PROVE IInv'
<1>a. WireTypes /\ InStep /\ FrameFits
    BY SplitTypes DEF IInv
<1>1. /\ open /\ running' = TRUE
      /\ UNCHANGED <<frames, pos, state, opcode, validator, message, size, open, status,
                     delivered, pongs, raised>>
      /\ unsent' = unsent - n /\ buffer' = buffer + n
    BY DEF ReceiveData, content, ending, history
<1>2. unsent \in Nat /\ buffer \in Nat /\ unsent' \in Nat /\ buffer' \in Nat
      /\ unsent' + buffer' = unsent + buffer
    BY <1>a, <1>1 DEF WireTypes
<1>3. WireTypes'
    BY <1>a, <1>1, <1>2 DEF WireTypes
<1>4. InStep'
    <2>1. PartsRead' = PartsRead
        BY <1>1 DEF PartsRead, cur
    <2>2. QED
        BY <1>a, <1>1, <1>2, <2>1 DEF InStep, cur
<1>5. FrameFits'
    BY <1>a, <1>1 DEF FrameFits, cur
<1>6. QED
    BY <1>1, <1>3, <1>4, <1>5, SameContent

LEMMA AwaitStep == ASSUME IInv, Await PROVE IInv'
<1>a. WireTypes /\ InStep /\ FrameFits
    BY SplitTypes DEF IInv
<1>1. /\ running' = FALSE
      /\ UNCHANGED <<frames, unsent, buffer, pos, state, opcode, validator, message, size,
                     open, status, delivered, pongs, raised>>
    BY DEF Await, wire, content, ending, history
<1>2. WireTypes'
    BY <1>a, <1>1 DEF WireTypes
<1>3. InStep'
    <2>1. PartsRead' = PartsRead
        BY <1>1 DEF PartsRead, cur
    <2>2. QED
        BY <1>a, <1>1, <2>1 DEF InStep, cur
<1>4. FrameFits'
    BY <1>a, <1>1 DEF FrameFits, cur
<1>5. QED
    BY <1>1, <1>2, <1>3, <1>4, SameContent

\* A round that reads a part or none and goes on with the same frame: the parts
\* add up as before.
LEMMA ReadOn ==
    ASSUME IInv, running, buffer > 0 \/ state # "init",
           UNCHANGED <<frames, unsent, pos, running, opcode, validator, message, size,
                       open, status, delivered, pongs, raised>>,
           buffer \in Nat, buffer' \in Nat, PartsRead \in Nat, PartsRead' \in Nat,
           state' \in {"payload_length", "masking_key", "check_frame", "payload_data",
                       "process_frame"},
           state' = "payload_length" => cur.long,
           buffer' + PartsRead' = buffer + PartsRead,
           FrameFits'
    PROVE  IInv'
<1>a. WireTypes /\ InStep /\ running \in BOOLEAN
    BY SplitTypes DEF IInv, FlagTypes
<1>1. WireTypes'
    BY <1>a DEF WireTypes
<1>2. pos <= Len(frames) /\ open /\ unsent \in Nat /\ buffer \in Nat
    BY AtFrame
<1>3. unsent' + buffer' + PartsRead' = unsent + buffer + PartsRead
    <2>1. PICK b \in Nat : b = buffer'
        OBVIOUS
    <2>2. PICK q \in Nat : q = PartsRead'
        OBVIOUS
    <2>3. PICK r \in Nat : r = PartsRead
        OBVIOUS
    <2>4. b + q = buffer + r
        BY <2>1, <2>2, <2>3
    <2>5. unsent + b + q = unsent + buffer + r
        BY <1>2, <2>4
    <2>6. unsent' = unsent
        OBVIOUS
    <2>7. QED
        BY <2>1, <2>2, <2>3, <2>5, <2>6
<1>4. InStep'
    BY <1>a, <1>2, <1>3 DEF InStep, cur
<1>5. QED
    BY <1>a, <1>1, <1>4, SameContent

\* A frame of a client that keeps to the protocol.
LEMMA LegalCur ==
    ASSUME IInv, running, buffer > 0 \/ state # "init", AllLegal(frames)
    PROVE  Legal(frames, pos) /\ cur.defect = "none"
<1>1. pos \in 1..Len(frames) /\ cur = frames[pos]
    BY AtFrame
<1>2. QED
    BY <1>1 DEF AllLegal, Legal

LEMMA ReadHeaderStep == ASSUME IInv, ReadHeader PROVE IInv'
<1>a. running /\ state = "init" /\ buffer > 0 /\ open /\ buffer \in Nat
    BY AtFrame DEF ReadHeader
<1>1. CASE cur.defect \in {"rsv", "opcode", "mask"}
    <2>1. Fail("1002") /\ "1002" \in Statuses
        BY <1>1 DEF ReadHeader, Statuses
    <2>2. ~AllLegal(frames)
        BY <1>a, <1>1, LegalCur
    <2>3. QED
        BY <1>a, <2>1, <2>2, FailStep
<1>2. CASE cur.defect \notin {"rsv", "opcode", "mask"}
    <2>1. /\ buffer' = buffer - 1
          /\ state' = IF cur.long THEN "payload_length" ELSE "masking_key"
          /\ UNCHANGED <<frames, unsent, pos, running, opcode, validator, message, size,
                         open, status, delivered, pongs, raised>>
        BY <1>2 DEF ReadHeader, wire, content, ending, history
    <2>2. buffer' \in Nat /\ PartsRead \in Nat /\ PartsRead' \in Nat
      /\ buffer' + PartsRead' = buffer + PartsRead
        BY <1>a, <2>1 DEF PartsRead, cur
    <2>3. FrameFits'
        BY <2>1 DEF FrameFits
    <2>4. QED
        BY <1>a, <2>1, <2>2, <2>3, ReadOn
<1>3. QED
    BY <1>1, <1>2

LEMMA ReadLengthStep == ASSUME IInv, ReadLength PROVE IInv'
<1>a. running /\ state = "payload_length" /\ buffer > 0 /\ open /\ buffer \in Nat
    BY AtFrame DEF ReadLength
<1>1. CASE cur.defect = "huge"
    <2>1. Fail("1008") /\ "1008" \in Statuses
        BY <1>1 DEF ReadLength, Statuses
    <2>2. ~AllLegal(frames)
        BY <1>a, <1>1, LegalCur
    <2>3. QED
        BY <1>a, <2>1, <2>2, FailStep
<1>2. CASE cur.defect # "huge"
    <2>1. /\ buffer' = buffer - 1 /\ state' = "masking_key"
          /\ UNCHANGED <<frames, unsent, pos, running, opcode, validator, message, size,
                         open, status, delivered, pongs, raised>>
        BY <1>2 DEF ReadLength, wire, content, ending, history
    <2>2. cur.long
        BY <1>a DEF IInv, InStep
    <2>3. buffer' \in Nat /\ PartsRead \in Nat /\ PartsRead' \in Nat
      /\ buffer' + PartsRead' = buffer + PartsRead
        BY <1>a, <2>1, <2>2 DEF PartsRead, cur
    <2>4. FrameFits'
        BY <2>1 DEF FrameFits
    <2>5. QED
        BY <1>a, <2>1, <2>3, <2>4, ReadOn
<1>3. QED
    BY <1>1, <1>2

LEMMA ReadKeyStep == ASSUME IInv, ReadKey PROVE IInv'
<1>a. running /\ state = "masking_key" /\ buffer > 0 /\ open /\ buffer \in Nat
    BY AtFrame DEF ReadKey
<1>1. /\ buffer' = buffer - 1 /\ state' = "check_frame"
      /\ UNCHANGED <<frames, unsent, pos, running, opcode, validator, message, size,
                     open, status, delivered, pongs, raised>>
    BY DEF ReadKey, wire, content, ending, history
<1>2. buffer' \in Nat /\ PartsRead \in Nat /\ PartsRead' \in Nat
      /\ buffer' + PartsRead' = buffer + PartsRead
    BY <1>a, <1>1 DEF PartsRead, cur
<1>3. FrameFits'
    BY <1>1 DEF FrameFits
<1>4. QED
    BY <1>a, <1>1, <1>2, <1>3, ReadOn

\* A frame that does not fit the message is none a client may send there.
LEMMA CheckFrameStep == ASSUME IInv, CheckFrame PROVE IInv'
<1>a. /\ running /\ state = "check_frame" /\ open /\ buffer \in Nat /\ cur = frames[pos]
      /\ pos \in 1..Len(frames) /\ Len(frames) \in Nat
    BY AtFrame DEF CheckFrame
<1>b. cur.len \in Nat /\ max_frame_size \in Nat /\ MaxControl \in Nat
    BY <1>a, SplitTypes, FrameFacts DEF IInv
<1> DEFINE unfit == \/ cur.op \in Control /\ (cur.len > MaxControl \/ ~cur.fin)
                    \/ cur.op = "continuation" /\ opcode = "nil"
                    \/ cur.op \in Opening /\ opcode # "nil"
<1>1. CASE unfit
    <2>1. Fail("1002") /\ "1002" \in Statuses
        BY <1>1 DEF CheckFrame, Statuses
    <2>2. ASSUME ~raised, AllLegal(frames) PROVE FALSE
        <3>1. Legal(frames, pos)
            BY <1>a, <2>2, LegalCur
        <3>2. opcode # "nil" <=> Unfinished(frames, pos)
            BY <1>a, <2>2 DEF IInv, OpenAsSent
        <3>3. cur.op \in Control => cur.fin /\ cur.len <= MaxControl
            BY <1>a, <3>1 DEF Legal, Data
        <3>4. cur.op \notin Control => (cur.op = "continuation" <=> opcode # "nil")
            BY <1>a, <3>1, <3>2 DEF Legal, Data
        <3>5. "continuation" \notin Control /\ "continuation" \notin Opening
              /\ \A x \in Opening : x \notin Control
            BY DEF Control, Opening
        <3>6. QED
            BY <1>1, <1>b, <3>3, <3>4, <3>5
    <2>3. QED
        BY <1>a, <2>1, <2>2, FailStep
<1>2. CASE ~unfit /\ cur.len > max_frame_size
    <2>1. Fail("1009") /\ "1009" \in Statuses
        BY <1>2 DEF CheckFrame, Statuses
    <2>2. ASSUME AllLegal(frames) PROVE FALSE
        BY <1>a, <1>b, <1>2, <2>2, LegalCur DEF Legal
    <2>3. QED
        BY <1>a, <2>1, <2>2, FailStep
<1>3. CASE ~unfit /\ ~(cur.len > max_frame_size)
    <2>1. /\ state' = "payload_data"
          /\ UNCHANGED <<frames, unsent, buffer, pos, running, opcode, validator, message, size,
                         open, status, delivered, pongs, raised>>
        BY <1>3 DEF CheckFrame, wire, content, ending, history
    <2>2. PartsRead \in Nat /\ PartsRead' \in Nat /\ buffer' + PartsRead' = buffer + PartsRead
        BY <1>a, <2>1 DEF PartsRead, cur
    <2>3. FrameFits'
        BY <1>3, <2>1 DEF FrameFits, cur
    <2>4. QED
        BY <1>a, <2>1, <2>2, <2>3, ReadOn
<1>4. QED
    BY <1>1, <1>2, <1>3

LEMMA ReadPayloadStep == ASSUME IInv, ReadPayload PROVE IInv'
<1>a. running /\ state = "payload_data" /\ open /\ buffer \in Nat /\ cur.len \in Nat
    BY AtFrame DEF ReadPayload
<1>1. /\ cur.len > 0 => buffer > 0
      /\ buffer' = IF cur.len > 0 THEN buffer - 1 ELSE buffer
      /\ state' = "process_frame"
      /\ UNCHANGED <<frames, unsent, pos, running, opcode, validator, message, size,
                     open, status, delivered, pongs, raised>>
    BY DEF ReadPayload, wire, content, ending, history
<1>2. buffer' \in Nat /\ PartsRead \in Nat /\ PartsRead' \in Nat
      /\ buffer' + PartsRead' = buffer + PartsRead
    BY <1>a, <1>1 DEF PartsRead, Parts, cur
<1>3. FrameFits'
    BY <1>a, <1>1 DEF IInv, FrameFits, cur
<1>4. QED
    BY <1>a, <1>1, <1>2, <1>3, ReadOn

-----------------------------------------------------------------------------
(* The rounds that process a frame.                                        *)

\* The loop goes on to the next frame.
LEMMA NextFrame ==
    ASSUME IInv, running, state = "process_frame", state' = "init", pos' = pos + 1,
           UNCHANGED <<frames, unsent>>, buffer' \in {0, buffer}
    PROVE  /\ WireTypes' /\ FrameFits'
           /\ (buffer' = buffer /\ open' = open /\ running' \in {FALSE, running}) => InStep'
<1>a. WireTypes /\ InStep
    BY SplitTypes DEF IInv
<1>1. /\ open /\ pos \in 1..Len(frames) /\ Len(frames) \in Nat
      /\ unsent \in Nat /\ buffer \in Nat /\ cur.len \in Nat
      /\ PartsFrom(frames, pos + 1) \in Nat
      /\ unsent + buffer + PartsRead = Parts(cur) + PartsFrom(frames, pos + 1)
    BY AtFrame
<1>2. WireTypes'
    BY <1>a, <1>1 DEF WireTypes
<1>3. FrameFits'
    BY DEF FrameFits
<1>4. ASSUME buffer' = buffer, open' = open, running' \in {FALSE, running} PROVE InStep'
    <2>1. PartsRead = Parts(cur) /\ Parts(cur) \in Nat
        BY <1>1 DEF PartsRead, Parts
    <2>2. unsent + buffer + 0 = PartsFrom(frames, pos + 1)
        BY <1>1, <2>1
    <2>3. PartsRead' = 0
        BY DEF PartsRead
    <2>4. unsent' + buffer' + PartsRead' = PartsFrom(frames', pos')
        BY <1>4, <2>2, <2>3
    <2>5. QED
        BY <1>1, <1>4, <2>4 DEF InStep
<1>5. QED
    BY <1>2, <1>3, <1>4

\* A data frame gives well-typed messages.
LEMMA DataTypes ==
    ASSUME IInv, running, state = "process_frame", cur.op \notin Control
    PROVE  /\ Extended \in Seq(1..Len(frames)) /\ size + cur.len \in Nat
           /\ MessageOp \in Opening
           /\ Done(MessageOp) \in Messages
           /\ Append(delivered, Done(MessageOp)) \in Seq(Messages)
<1>a. WireTypes /\ ContentTypes /\ FrameFits
    BY SplitTypes DEF IInv
<1>1. pos \in 1..Len(frames) /\ cur = frames[pos] /\ cur.len \in Nat
    BY AtFrame
<1>2. Extended \in Seq(1..Len(frames)) /\ size + cur.len \in Nat
    <2>1. message \in Seq(1..Len(frames)) /\ size \in Nat
        BY <1>a DEF ContentTypes
    <2>2. Append(message, pos) \in Seq(1..Len(frames))
        BY <1>1, <2>1
    <2>3. Extended \in Seq(1..Len(frames))
        BY <2>1, <2>2, Zenon DEF Extended
    <2>4. size + cur.len \in Nat
        BY <1>1, <2>1
    <2>5. QED
        BY <2>3, <2>4
<1>3. MessageOp \in Opening
    <2>1. cur.op \in Control \cup Opening \cup {"continuation"}
        BY <1>a, <1>1, FrameFacts
    <2>2. QED
        BY <1>a, <2>1 DEF FrameFits, ContentTypes, MessageOp
<1>4. Done(MessageOp) \in Messages
    BY <1>1, <1>2, <1>3 DEF Done, Messages
<1>5. QED
    BY <1>a, <1>2, <1>3, <1>4 DEF ContentTypes

\* What is delivered with a final frame is the client's message.
LEMMA DoneIntact ==
    ASSUME IInv, running, state = "process_frame", cur.op \notin Control, cur.fin, ~raised
    PROVE  \A n \in 1..Len(Append(delivered, Done(MessageOp))) :
               Intact(frames, Append(delivered, Done(MessageOp))[n])
<1>1. open /\ cur = frames[pos]
    BY AtFrame
<1>2. Intact(frames, Done(MessageOp))
    <2>1. /\ Ordered(Extended) /\ Stored(Extended) = Payloads(frames, pos)
          /\ HasOpener(frames, pos) /\ frames[Opener(frames, pos)].op = MessageOp
          /\ \A i \in 1..pos : frames[i].op # "close"
        BY <1>1, DataFrame
    <2>2. /\ Done(MessageOp).last = pos /\ Done(MessageOp).op = MessageOp
          /\ Done(MessageOp).parts = Extended
        BY DEF Done
    <2>3. frames[pos].fin /\ Data(frames, pos)
        BY <1>1 DEF Data
    <2>4. QED
        BY <2>1, <2>2, <2>3 DEF Intact
<1>3. delivered \in Seq(Messages) /\ Done(MessageOp) \in Messages
    BY DataTypes, SplitTypes DEF IInv, ContentTypes
<1>4. \A n \in 1..Len(delivered) : Intact(frames, delivered[n])
    BY DEF IInv, DeliveredIntact
<1> DEFINE d == Done(MessageOp)
<1>5. d \in Messages /\ Intact(frames, d)
    BY <1>2, <1>3
<1> HIDE DEF d
<1>6. /\ Len(Append(delivered, d)) = Len(delivered) + 1 /\ Len(delivered) \in Nat
      /\ \A n \in 1..Len(delivered) : Append(delivered, d)[n] = delivered[n]
      /\ Append(delivered, d)[Len(delivered) + 1] = d
    BY <1>3, <1>5
<1>7. \A n \in 1..Len(Append(delivered, d)) : n \in 1..Len(delivered) \/ n = Len(delivered) + 1
    BY <1>6
<1>8. \A n \in 1..Len(Append(delivered, d)) : Intact(frames, Append(delivered, d)[n])
    BY <1>4, <1>5, <1>6, <1>7
<1>9. QED
    BY <1>8 DEF d

\* message_done.
LEMMA DoneStep ==
    ASSUME IInv, running, state = "process_frame", cur.op \notin Control, cur.fin,
           state' = "init", pos' = pos + 1, UNCHANGED <<frames, unsent, pongs>>,
           validator' \in {"accept", "partial"}, MessageDone(MessageOp)
    PROVE  IInv'
<1>a. FlagTypes /\ ContentTypes
    BY SplitTypes DEF IInv
<1>b. /\ open /\ cur = frames[pos] /\ pos \in 1..Len(frames) /\ Len(frames) \in Nat
    BY AtFrame
<1>1. /\ delivered' = Append(delivered, Done(MessageOp))
      /\ delivered' \in Seq(Messages)
      /\ buffer' \in {0, buffer} /\ status' \in {status, "app"}
    BY <1>b, DataTypes DEF MessageDone, CloseConnection, ending
<1>2. WireTypes' /\ FrameFits'
    BY <1>1, NextFrame
<1>3. ContentTypes'
    <2>1. /\ opcode' \in {"nil", MessageOp} /\ size' \in {0, size + cur.len}
          /\ message' \in {<<>>, Extended}
        BY DEF MessageDone, Store
    <2>2. /\ opcode' \in Opening \cup {"nil"} /\ message' \in Seq(1..Len(frames))
          /\ size' \in Nat
        <3>1. <<>> \in Seq(1..Len(frames))
            OBVIOUS
        <3>2. /\ Extended \in Seq(1..Len(frames)) /\ size + cur.len \in Nat
              /\ MessageOp \in Opening /\ 0 \in Nat
            BY DataTypes
        <3>3. QED
            BY <2>1, <3>1, <3>2, Zenon
    <2>3. status' \in Statuses
        BY <1>a, <1>1 DEF ContentTypes, Statuses
    <2>4. Messages' = Messages
        BY DEF Messages
    <2>5. QED
        BY <1>a, <1>1, <2>2, <2>3, <2>4 DEF ContentTypes
<1>4. CASE /\ raised' = raised /\ message' = <<>> /\ size' = 0 /\ opcode' = "nil"
           /\ UNCHANGED <<buffer, running, ending, raised>> \/ CloseConnection("app")
    <2>1. DeliveredIntact'
        <3>1. ~raised' => \A n \in 1..Len(delivered') : Intact(frames, delivered'[n])
            BY <1>1, <1>4, DoneIntact
        <3>2. QED
            BY <3>1 DEF DeliveredIntact
    <2>2. LegalNotRefused'
        BY <1>1, <1>4 DEF IInv, LegalNotRefused
    <2>3. CASE UNCHANGED <<buffer, running, ending, raised>>
        <3>1. buffer' = buffer /\ running' = running /\ open' = open
            BY <2>3 DEF ending
        <3>2. FlagTypes' /\ InStep'
            BY <1>a, <1>1, <1>4, <3>1, NextFrame DEF FlagTypes
        <3>3. ASSUME ~raised PROVE Collected' /\ Validated' /\ OpenAsSent'
            <4>1. \A i \in 1..pos : frames[i].op # "close"
                BY <1>b, <3>3, DataFrame
            <4>2. Volume(frames, {}) = 0
                <5>1. frames \in Seq(Frame)
                    BY SplitTypes, FramingConstants DEF IInv, WireTypes
                <5>2. QED
                    BY <5>1, SumsOfFrames
            <4>3. Stored(message') = {} /\ Ordered(message')
                BY <1>4 DEF Stored, Ordered
            <4>4. Collected'
                <5>1. \A i \in 1..(pos' - 1) : frames'[i].op # "close"
                    BY <1>b, <4>1
                <5>2. size' = Volume(frames', Stored(message'))
                    BY <1>4, <4>2, <4>3
                <5>3. QED
                    BY <1>4, <4>3, <5>1, <5>2 DEF Collected
            <4>5. Validated'
                BY <1>4 DEF Validated
            <4>6. ~Unfinished(frames, pos + 1)
                BY <1>b, UnfinishedNext DEF Data
            <4>7. OpenAsSent'
                BY <1>4, <4>6 DEF OpenAsSent
            <4>8. QED
                BY <4>4, <4>5, <4>7
        <3>4. QED
            BY <1>2, <1>3, <1>4, <2>1, <2>2, <3>2, <3>3, Together
    <2>4. CASE CloseConnection("app")
        <3>1. open' = FALSE /\ running' = FALSE
            BY <2>4 DEF CloseConnection
        <3>2. FlagTypes'
            BY <1>a, <1>4, <3>1 DEF FlagTypes
        <3>3. InStep'
            BY <3>1 DEF InStep
        <3>4. QED
            BY <1>2, <1>3, <2>1, <2>2, <3>1, <3>2, <3>3, Together
    <2>5. QED
        BY <1>4, <2>3, <2>4
<1>5. CASE raised' = TRUE /\ running' = FALSE /\ UNCHANGED <<buffer, ending>>
    <2>1. buffer' = buffer /\ open' = open
        BY <1>5 DEF ending
    <2>2. FlagTypes' /\ InStep'
        BY <1>a, <1>1, <1>5, <2>1, NextFrame DEF FlagTypes
    <2>3. DeliveredIntact' /\ LegalNotRefused'
        BY <1>5 DEF DeliveredIntact, LegalNotRefused
    <2>4. QED
        BY <1>2, <1>3, <1>5, <2>2, <2>3, Together
<1>6. QED
    BY <1>4, <1>5 DEF MessageDone

\* The state of the validator before a data frame.
Before == IF cur.op \in Opening THEN "accept" ELSE validator

\* The payload is stored and the message stays open, because it goes on in
\* another frame or because it is longer than a legal one.
LEMMA StoreStep ==
    ASSUME IInv, running, state = "process_frame", cur.op \notin Control,
           state' = "init", pos' = pos + 1, UNCHANGED <<frames, unsent, pongs>>,
           validator' \in {"accept", "partial"},
           MessageOp = "text" =>
               validator' = IF cur.len > 0 THEN Validate(Before, cur.utf8) ELSE Before,
           Store, opcode' = MessageOp, running' \in {FALSE, running},
           UNCHANGED <<buffer, ending, delivered, raised>>,
           cur.fin => size + cur.len > max_message_size
    PROVE  IInv'
<1>a. FlagTypes /\ WireTypes /\ ContentTypes /\ FrameFits
    BY SplitTypes DEF IInv
<1>b. /\ open /\ cur = frames[pos] /\ pos \in 1..Len(frames) /\ Len(frames) \in Nat
      /\ cur.len \in Nat
    BY AtFrame
<1>c. /\ open' = open /\ status' = status /\ buffer' = buffer /\ delivered' = delivered
      /\ raised' = raised /\ message' = Extended /\ size' = size + cur.len
    BY DEF ending, Store
<1>1. WireTypes' /\ FrameFits' /\ InStep'
    BY <1>c, NextFrame
<1>2. FlagTypes'
    BY <1>a, <1>c DEF FlagTypes
<1>3. ContentTypes'
    <2>1. Messages' = Messages
        BY DEF Messages
    <2>2. /\ opcode' \in Opening /\ message' \in Seq(1..Len(frames)) /\ size' \in Nat
        BY <1>c, DataTypes
    <2>3. QED
        BY <1>a, <1>c, <2>1, <2>2 DEF ContentTypes
<1>4. DeliveredIntact' /\ LegalNotRefused'
    BY <1>c DEF IInv, DeliveredIntact, LegalNotRefused
<1>5. ASSUME ~raised PROVE Collected' /\ Validated' /\ OpenAsSent'
    <2>a. Collected /\ Validated
        BY <1>b, <1>5 DEF IInv
    <2>b. MessageOp \in Opening /\ opcode' # "nil"
        BY DataTypes DEF Opening
    <2>1. /\ Ordered(Extended)
          /\ size + cur.len = Volume(frames, Stored(Extended))
          /\ \A i \in 1..pos : frames[i].op # "close"
        BY <1>b, <1>5, DataFrame
    <2>2. PICK o \in 1..pos :
              /\ frames[o].op = MessageOp
              /\ \A j \in (o + 1)..pos : frames[j].op \notin Opening
              /\ Stored(Extended) = {j \in o..pos : Data(frames, j) /\ frames[j].len > 0}
        BY <1>b, <1>5, DataFrame
    <2>3. Collected'
        <3>1. pos' - 1 = pos
            BY <1>b
        <3>2. QED
            BY <1>c, <2>b, <2>1, <2>2, <3>1 DEF Collected, Data
    <2>4. Validated'
        <3> SUFFICES ASSUME MessageOp = "text"
                     PROVE  validator' = IF \/ Extended = <<>>
                                            \/ frames[Extended[Len(Extended)]].utf8 \in {"whole", "rest"}
                                         THEN "accept" ELSE "partial"
            BY <1>c DEF Validated
        <3>1. CASE cur.len > 0
            <4>1. \A k \in Stored(message) : k < pos
                <5>1. Stored(message) = Payloads(frames, pos) \ {pos}
                    BY <1>b, <1>5, DataFrame
                <5>2. QED
                    BY <1>b, <5>1 DEF Payloads
            <4>2. Extended # <<>> /\ Extended[Len(Extended)] = pos
                <5>1. message \in Seq(1..Len(frames)) /\ Ordered(message)
                    BY <1>a, <2>a DEF ContentTypes, Collected
                <5>2. /\ Append(message, pos) # <<>>
                      /\ Append(message, pos)[Len(Append(message, pos))] = pos
                    BY <1>b, <4>1, <5>1, AppendStored
                <5>3. Extended = Append(message, pos)
                    BY <3>1 DEF Extended
                <5>4. QED
                    BY <5>2, <5>3
            <4>3. validator' = Validate(Before, cur.utf8)
                BY <3>1
            <4>4. validator' = IF cur.utf8 \in {"whole", "rest"} THEN "accept" ELSE "partial"
                BY <4>3 DEF Validate
            <4>5. QED
                BY <1>b, <4>2, <4>4
        <3>2. CASE ~(cur.len > 0)
            <4>1. Extended = message /\ validator' = Before
                BY <3>2 DEF Extended
            <4>2. CASE cur.op \in Opening
                <5>1. message = <<>> /\ Before = "accept"
                    BY <1>a, <2>a, <4>2 DEF FrameFits, Collected, Before
                <5>2. QED
                    BY <4>1, <5>1
            <4>3. CASE cur.op \notin Opening
                <5>1. opcode = "text" /\ Before = validator
                    BY <4>3 DEF MessageOp, Before
                <5>2. QED
                    BY <2>a, <4>1, <5>1 DEF Validated
            <4>4. QED
                BY <4>2, <4>3
        <3>3. QED
            BY <3>1, <3>2
    <2>5. OpenAsSent'
        <3> SUFFICES ASSUME AllLegal(frames) PROVE Unfinished(frames, pos + 1)
            BY <2>b DEF OpenAsSent
        <3>1. size + cur.len <= max_message_size
            BY <1>b, <1>5, LegalFrame
        <3>2. ~cur.fin
            <4>1. size + cur.len \in Nat /\ max_message_size \in Nat
                BY DataTypes, FramingConstants
            <4>2. QED
                BY <3>1, <4>1
        <3>3. QED
            BY <1>b, <3>2, UnfinishedNext DEF Data
    <2>6. QED
        BY <2>3, <2>4, <2>5
<1>6. QED
    BY <1>1, <1>2, <1>3, <1>4, <1>5, <1>c, Together

\* The connection is closed for a data frame.
LEMMA RefuseStep ==
    ASSUME IInv, running, state = "process_frame", cur.op \notin Control,
           state' = "init", pos' = pos + 1, UNCHANGED <<frames, unsent, pongs, delivered, raised>>,
           NEW s \in Statuses, CloseConnection(s),
           validator' \in {"accept", "partial"}, opcode' \in Opening \cup {"nil"},
           Store \/ UNCHANGED <<message, size>>,
           ~raised /\ AllLegal(frames) => s \in {"none", "nil", "app"}
    PROVE  IInv'
<1>a. ContentTypes /\ open
    BY SplitTypes, AtFrame DEF IInv
<1>1. buffer' \in {0, buffer} /\ status' \in Statuses
    BY <1>a DEF CloseConnection
<1>2. WireTypes' /\ FrameFits'
    BY <1>1, NextFrame
<1>3. ContentTypes'
    <2>1. Messages' = Messages
        BY DEF Messages
    <2>2. message' \in Seq(1..Len(frames)) /\ size' \in Nat
        BY <1>a, DataTypes DEF Store, ContentTypes
    <2>3. QED
        BY <1>a, <1>1, <2>1, <2>2 DEF ContentTypes
<1>4. QED
    BY <1>a, <1>2, <1>3, ClosingStep

\* A text frame.
LEMMA ProcessTextStep == ASSUME IInv, ProcessText PROVE IInv'
<1>a. /\ running /\ state = "process_frame" /\ cur.op = "text"
      /\ state' = "init" /\ pos' = pos + 1 /\ UNCHANGED <<frames, unsent, pongs>>
    BY DEF ProcessText, wire
<1>b. /\ cur.op \notin Control /\ cur.op \in Opening
      /\ MessageOp = "text" /\ Before = "accept"
    BY <1>a DEF Control, Opening, MessageOp, Before
<1>c. open /\ size + cur.len \in Nat /\ max_message_size \in Nat
    BY <1>a, <1>b, AtFrame, DataTypes, FramingConstants
<1>d. validator \in {"accept", "partial"}
    BY SplitTypes DEF IInv, ContentTypes
<1>1. CASE BadText("accept")
    <2>1. /\ CloseConnection("1007") /\ opcode' = "text"
          /\ UNCHANGED <<validator, message, size, delivered, raised>>
        BY <1>1 DEF ProcessText
    <2>2. ~raised => ~AllLegal(frames)
        BY <1>a, <1>b, <1>c, <1>1, LegalFrame
    <2>3. "1007" \in Statuses /\ opcode' \in Opening \cup {"nil"}
        BY <2>1 DEF Statuses, Opening
    <2>4. QED
        BY <1>a, <1>b, <1>d, <2>1, <2>2, <2>3, RefuseStep
<1>2. CASE ~BadText("accept")
    <2> DEFINE v == IF cur.len > 0 THEN Validate("accept", cur.utf8) ELSE "accept"
    <2>1. /\ validator' = v
          /\ IF size + cur.len > max_message_size
             THEN /\ Store /\ opcode' = "text" /\ CloseConnection("1009")
                  /\ UNCHANGED <<delivered, raised>>
             ELSE IF cur.fin THEN MessageDone("text") ELSE MessageOpen("text")
        BY <1>2 DEF ProcessText
    <2>2. v \in {"accept", "partial"}
        BY <1>2 DEF BadText, Validate
    <2> HIDE DEF v
    <2>3. CASE size + cur.len > max_message_size
        <3>1. ~raised => ~AllLegal(frames)
            BY <1>a, <1>b, <1>c, <2>3, LegalFrame
        <3>2. "1009" \in Statuses /\ "text" \in Opening
            BY DEF Statuses, Opening
        <3>3. QED
            BY <1>a, <1>b, <2>1, <2>2, <2>3, <3>1, <3>2, RefuseStep
    <2>4. CASE ~(size + cur.len > max_message_size) /\ cur.fin
        BY <1>a, <1>b, <2>1, <2>2, <2>4, DoneStep
    <2>5. CASE ~(size + cur.len > max_message_size) /\ ~cur.fin
        <3>1. MessageOpen("text")
            BY <2>1, <2>5
        <3>2. /\ Store /\ opcode' = "text"
              /\ UNCHANGED <<buffer, running, ending, delivered, raised>>
            BY <3>1 DEF MessageOpen
        <3>3. validator' = IF cur.len > 0 THEN Validate(Before, cur.utf8) ELSE Before
            BY <1>b, <2>1 DEF v
        <3>4. QED
            BY <1>a, <1>b, <2>1, <2>2, <2>5, <3>2, <3>3, StoreStep
    <2>6. QED
        BY <2>3, <2>4, <2>5
<1>3. QED
    BY <1>1, <1>2

\* A binary frame.
LEMMA ProcessBinaryStep == ASSUME IInv, ProcessBinary PROVE IInv'
<1>a. /\ running /\ state = "process_frame" /\ cur.op = "binary"
      /\ state' = "init" /\ pos' = pos + 1 /\ UNCHANGED <<frames, unsent, pongs, validator>>
    BY DEF ProcessBinary, wire
<1>b. cur.op \notin Control /\ cur.op \in Opening /\ MessageOp = "binary"
    BY <1>a DEF Control, Opening, MessageOp
<1>c. open /\ size + cur.len \in Nat /\ max_message_size \in Nat
    BY <1>a, <1>b, AtFrame, DataTypes, FramingConstants
<1>d. validator' \in {"accept", "partial"}
    BY <1>a, SplitTypes DEF IInv, ContentTypes
<1>1. CASE size + cur.len > max_message_size
    <2>1. /\ Store /\ opcode' = "binary" /\ CloseConnection("1009")
          /\ UNCHANGED <<delivered, raised>>
        BY <1>1 DEF ProcessBinary
    <2>2. ~raised => ~AllLegal(frames)
        BY <1>a, <1>b, <1>c, <1>1, LegalFrame
    <2>3. "1009" \in Statuses /\ "binary" \in Opening
        BY DEF Statuses, Opening
    <2>4. QED
        BY <1>a, <1>b, <1>d, <2>1, <2>2, <2>3, RefuseStep
<1>2. CASE ~(size + cur.len > max_message_size) /\ cur.fin
    <2>1. MessageDone("binary")
        BY <1>2 DEF ProcessBinary
    <2>2. QED
        BY <1>a, <1>b, <1>d, <1>2, <2>1, DoneStep
<1>3. CASE ~(size + cur.len > max_message_size) /\ ~cur.fin
    <2>1. /\ Store /\ opcode' = "binary"
          /\ UNCHANGED <<buffer, running, ending, delivered, raised>>
        BY <1>3 DEF ProcessBinary, MessageOpen
    <2>2. QED
        BY <1>a, <1>b, <1>d, <1>3, <2>1, StoreStep
<1>4. QED
    BY <1>1, <1>2, <1>3

\* A continuation frame.
LEMMA ProcessContinuationStep == ASSUME IInv, ProcessContinuation PROVE IInv'
<1>a. /\ running /\ state = "process_frame" /\ cur.op = "continuation"
      /\ state' = "init" /\ pos' = pos + 1 /\ UNCHANGED <<frames, unsent, pongs>>
    BY DEF ProcessContinuation, wire
<1>b. /\ cur.op \notin Control /\ cur.op \notin Opening
      /\ MessageOp = opcode /\ Before = validator
    BY <1>a DEF Control, Opening, MessageOp, Before
<1>c. open /\ size + cur.len \in Nat /\ max_message_size \in Nat
    BY <1>a, <1>b, AtFrame, DataTypes, FramingConstants
<1>d. validator \in {"accept", "partial"} /\ opcode \in Opening
    BY <1>a, <1>b, DataTypes, SplitTypes DEF IInv, ContentTypes
<1>1. CASE opcode = "text" /\ BadText(validator)
    <2>1. /\ CloseConnection("1007")
          /\ UNCHANGED <<opcode, validator, message, size, delivered, raised>>
        BY <1>1 DEF ProcessContinuation, content
    <2>2. ~raised => ~AllLegal(frames)
        BY <1>a, <1>b, <1>c, <1>1, LegalFrame
    <2>3. "1007" \in Statuses
        BY DEF Statuses
    <2>4. QED
        BY <1>a, <1>b, <1>d, <2>1, <2>2, <2>3, RefuseStep
<1>2. CASE ~(opcode = "text" /\ BadText(validator))
    <2> DEFINE v == IF cur.len > 0 /\ opcode = "text"
                    THEN Validate(validator, cur.utf8) ELSE validator
    <2>1. /\ validator' = v
          /\ IF cur.len > 0 /\ size + cur.len > max_message_size
             THEN /\ Store /\ running' = FALSE
                  /\ UNCHANGED <<opcode, buffer, ending, delivered, raised>>
             ELSE IF cur.fin THEN MessageDone(opcode) ELSE MessageOpen(opcode)
        BY <1>2 DEF ProcessContinuation
    <2>2. v \in {"accept", "partial"}
        BY <1>2, <1>d DEF BadText, Validate
    <2>3. opcode = "text" => v = IF cur.len > 0 THEN Validate(Before, cur.utf8) ELSE Before
        BY <1>b
    <2> HIDE DEF v
    <2>4. CASE cur.len > 0 /\ size + cur.len > max_message_size
        BY <1>a, <1>b, <2>1, <2>2, <2>3, <2>4, StoreStep
    <2>5. CASE ~(cur.len > 0 /\ size + cur.len > max_message_size) /\ cur.fin
        BY <1>a, <1>b, <2>1, <2>2, <2>5, DoneStep
    <2>6. CASE ~(cur.len > 0 /\ size + cur.len > max_message_size) /\ ~cur.fin
        <3>1. /\ Store /\ opcode' = opcode
              /\ UNCHANGED <<buffer, running, ending, delivered, raised>>
            BY <2>1, <2>6 DEF MessageOpen
        <3>2. QED
            BY <1>a, <1>b, <2>1, <2>2, <2>3, <2>6, <3>1, StoreStep
    <2>7. QED
        BY <2>4, <2>5, <2>6
<1>3. QED
    BY <1>1, <1>2

\* A close frame.
LEMMA ProcessCloseStep == ASSUME IInv, ProcessClose PROVE IInv'
<1>a. /\ running /\ state = "process_frame" /\ cur.op = "close"
      /\ state' = "init" /\ pos' = pos + 1
      /\ UNCHANGED <<frames, unsent, opcode, validator, message, size, delivered, pongs, raised>>
    BY DEF ProcessClose, wire, content, history
<1> DEFINE s == IF cur.len > 0 /\ cur.utf8 # "whole" THEN "1007" ELSE "nil"
<1>1. CloseConnection(s) /\ s \in Statuses
    BY DEF ProcessClose, Statuses
<1>2. /\ open /\ pos \in 1..Len(frames) /\ cur = frames[pos] /\ cur.len \in Nat
    BY <1>a, AtFrame
<1>3. AllLegal(frames) => s \in {"none", "nil", "app"}
    <2>1. ASSUME AllLegal(frames) PROVE cur.len = 0 \/ cur.utf8 = "whole"
        <3>1. Legal(frames, pos) /\ ~Data(frames, pos)
            BY <1>a, <1>2, <2>1 DEF AllLegal, Data, Control
        <3>2. QED
            BY <1>a, <1>2, <3>1 DEF Legal
    <2>2. QED
        BY <1>2, <2>1
<1> HIDE DEF s
<1>4. buffer' = 0 /\ status' = s
    BY <1>1, <1>2 DEF CloseConnection
<1>5. WireTypes' /\ FrameFits'
    BY <1>a, <1>4, NextFrame
<1>6. ContentTypes'
    BY <1>a, <1>1, <1>4, SplitTypes DEF IInv, ContentTypes, Messages
<1>7. QED
    BY <1>a, <1>1, <1>2, <1>3, <1>5, <1>6, ClosingStep

\* A ping or a pong between the frames of a message.
LEMMA ProcessPingStep == ASSUME IInv, ProcessPing PROVE IInv'
<1>a. /\ running /\ state = "process_frame" /\ cur.op \in {"ping", "pong"}
      /\ state' = "init" /\ pos' = pos + 1
      /\ UNCHANGED <<frames, unsent, buffer, running, opcode, validator, message, size,
                     open, status, delivered, raised>>
      /\ pongs' \in {pongs, Append(pongs, pos)}
    BY DEF ProcessPing, wire, content, ending
<1>b. FlagTypes /\ ContentTypes
    BY SplitTypes DEF IInv
<1>c. /\ open /\ pos \in 1..Len(frames) /\ cur = frames[pos] /\ Len(frames) \in Nat
      /\ ~Data(frames, pos) /\ cur.op # "close" /\ cur.op \notin Opening
    BY <1>a, AtFrame DEF Data, Control, Opening
<1>1. WireTypes' /\ FrameFits' /\ InStep'
    BY <1>a, NextFrame
<1>2. FlagTypes'
    BY <1>a, <1>b DEF FlagTypes
<1>3. ContentTypes'
    <2>1. pongs' \in Seq(1..Len(frames))
        <3>1. pongs \in Seq(1..Len(frames))
            BY <1>b DEF ContentTypes
        <3>2. Append(pongs, pos) \in Seq(1..Len(frames))
            BY <1>c, <3>1
        <3>3. QED
            BY <1>a, <3>1, <3>2, Zenon
    <2>2. QED
        BY <1>a, <1>b, <2>1 DEF ContentTypes, Messages
<1>4. DeliveredIntact' /\ LegalNotRefused'
    BY <1>a DEF IInv, DeliveredIntact, LegalNotRefused
<1>5. ASSUME ~raised PROVE Collected' /\ Validated' /\ OpenAsSent'
    <2>a. Collected /\ Validated /\ OpenAsSent
        BY <1>c, <1>5 DEF IInv
    <2>b. pos' - 1 = pos
        BY <1>a, <1>c
    <2>1. Collected'
        <3>1. \A i \in 1..pos : frames[i].op # "close"
            BY <1>c, <2>a DEF Collected
        <3>2. ASSUME opcode # "nil"
              PROVE  \E o \in 1..pos :
                        /\ frames[o].op = opcode
                        /\ \A j \in (o + 1)..pos : frames[j].op \notin Opening
                        /\ Stored(message) = {j \in o..pos : Data(frames, j) /\ frames[j].len > 0}
            <4>1. PICK o \in 1..(pos - 1) :
                        /\ frames[o].op = opcode
                        /\ \A j \in (o + 1)..(pos - 1) : frames[j].op \notin Opening
                        /\ Stored(message) = {j \in o..(pos - 1) : Data(frames, j) /\ frames[j].len > 0}
                BY <2>a, <3>2 DEF Collected
            <4>2. o \in 1..pos /\ \A j \in (o + 1)..pos : frames[j].op \notin Opening
                BY <1>c, <4>1
            <4>3. Stored(message) = {j \in o..pos : Data(frames, j) /\ frames[j].len > 0}
                BY <1>c, <4>1
            <4>4. QED
                BY <4>1, <4>2, <4>3
        <3>3. QED
            BY <1>a, <2>a, <2>b, <3>1, <3>2 DEF Collected, Data
    <2>2. Validated'
        BY <1>a, <2>a DEF Validated
    <2>3. OpenAsSent'
        <3>1. Unfinished(frames, pos + 1) <=> Unfinished(frames, pos)
            BY <1>c, UnfinishedNext
        <3>2. QED
            BY <1>a, <2>a, <3>1 DEF OpenAsSent
    <2>4. QED
        BY <2>1, <2>2, <2>3
<1>6. QED
    BY <1>a, <1>1, <1>2, <1>3, <1>4, <1>5, Together

\* The script closes the connection.
LEMMA ScriptClosesStep == ASSUME IInv, ScriptCloses PROVE IInv'
<1>1. Fail("app") /\ open /\ "app" \in Statuses
    BY DEF ScriptCloses, Fail, Statuses
<1>2. QED
    BY <1>1, FailStep

-----------------------------------------------------------------------------
\* However the traffic of a client is cut, the loop stays in step with the
\* stream, and the message it has open is the one the client has open.
THEOREM Invariance == Spec => []IInv
<1>1. IInv /\ [Next]_vars => IInv'
    <2> SUFFICES ASSUME IInv, [Next]_vars PROVE IInv'
        OBVIOUS
    <2>1. CASE \E n \in 1..unsent : ReceiveData(n)
        BY <2>1, ReceiveDataStep
    <2>2. CASE Await
        BY <2>2, AwaitStep
    <2>3. CASE ReadHeader
        BY <2>3, ReadHeaderStep
    <2>4. CASE ReadLength
        BY <2>4, ReadLengthStep
    <2>5. CASE ReadKey
        BY <2>5, ReadKeyStep
    <2>6. CASE CheckFrame
        BY <2>6, CheckFrameStep
    <2>7. CASE ReadPayload
        BY <2>7, ReadPayloadStep
    <2>8. CASE ProcessText
        BY <2>8, ProcessTextStep
    <2>9. CASE ProcessBinary
        BY <2>9, ProcessBinaryStep
    <2>10. CASE ProcessContinuation
        BY <2>10, ProcessContinuationStep
    <2>11. CASE ProcessClose
        BY <2>11, ProcessCloseStep
    <2>12. CASE ProcessPing
        BY <2>12, ProcessPingStep
    <2>13. CASE ScriptCloses
        BY <2>13, ScriptClosesStep
    <2>14. CASE UNCHANGED vars
        <3>1. UNCHANGED <<frames, unsent, buffer, pos, state, running, opcode, validator,
                          message, size, open, status, delivered, pongs, raised>>
            BY <2>14 DEF vars
        <3>2. WireTypes /\ InStep /\ FrameFits /\ running \in BOOLEAN
            BY SplitTypes DEF IInv, FlagTypes
        <3>3. WireTypes' /\ InStep' /\ FrameFits'
            BY <3>1, <3>2 DEF WireTypes, InStep, FrameFits, PartsRead, cur
        <3>4. QED
            BY <3>1, <3>2, <3>3, SameContent
    <2>15. QED
        BY <2>1, <2>2, <2>3, <2>4, <2>5, <2>6, <2>7, <2>8, <2>9, <2>10, <2>11, <2>12,
           <2>13, <2>14 DEF Next, Rounds
<1>2. QED
    BY <1>1, InitIInv, PTL DEF Spec

\* The state of the framing layer keeps its types.
THEOREM TypeCorrect == Spec => []TypeOK
<1>1. IInv => TypeOK
    BY DEF IInv
<1>2. QED
    BY <1>1, Invariance, PTL

\* SIP gets the messages of the client whole, once and in order, and nothing
\* from behind a close frame.
THEOREM MessagesIntact == Spec => []DeliveredIntact
<1>1. IInv => DeliveredIntact
    BY DEF IInv
<1>2. QED
    BY <1>1, Invariance, PTL

\* A client that keeps to RFC 6455 and the limits is never disconnected by the
\* framing layer.
THEOREM LegalAccepted == Spec => []LegalNotRefused
<1>1. IInv => LegalNotRefused
    BY DEF IInv
<1>2. QED
    BY <1>1, Invariance, PTL
=============================================================================
