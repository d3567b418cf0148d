------------------------ MODULE TcpConnectionProofs ------------------------
(***************************************************************************)
(* Proofs about TcpConnection, for every stream, however it is cut, and    *)
(* every limit of the headers.                                             *)
(***************************************************************************)
EXTENDS TcpConnection, FiniteSetTheorems, FunctionTheorems, TLAPS

\* The units of a stream are finitely many.
LEMMA StreamUnits ==
    ASSUME NEW s \in Seq(Message)
    PROVE  Units(s) \in Nat
<1> DEFINE D == 1..Len(s)
           w == [i \in D |-> Size(s[i])]
           Row(i) == {i} \X (1..w[i])
           rows == [i \in D |-> Row(i)]
<1>1. Len(s) \in Nat /\ \A i \in D : s[i] \in Message
    OBVIOUS
<1>2. IsFiniteSet(D)
    BY <1>1, FS_Interval
<1>3. \A i \in D : w[i] \in Nat
    BY <1>1 DEF Message, Size
<1> HIDE DEF w
<1>4. \A i \in D : IsFiniteSet(Row(i))
    <2> SUFFICES ASSUME NEW i \in D PROVE IsFiniteSet(Row(i))
        OBVIOUS
    <2>1. w[i] \in Int /\ 1 \in Int
        BY <1>3
    <2>2. IsFiniteSet(1..w[i]) /\ IsFiniteSet({i})
        BY <2>1, FS_Interval, FS_Singleton
    <2>3. QED
        BY <2>2, FS_Product
<1>5. IsFiniteSet({Row(i) : i \in D})
    <2> HIDE DEF Row, D
    <2>1. /\ rows \in [D -> {Row(i) : i \in D}]
          /\ \A t \in {Row(i) : i \in D} : \E i \in D : rows[i] = t
        OBVIOUS
    <2> HIDE DEF rows
    <2>2. rows \in Surjection(D, {Row(i) : i \in D})
        BY <2>1, Fun_IsSurj
    <2>3. QED
        BY <1>2, <2>2, FS_Surjection
<1>6. IsFiniteSet(UNION {Row(i) : i \in D})
    BY <1>4, <1>5, FS_UNION
<1>7. Cardinality(UNION {Row(i) : i \in D}) \in Nat
    BY <1>6, FS_CardinalityType
<1>8. QED
    BY <1>7 DEF Units, Total, w

\* The messages of a stream and their sizes.
LEMMA StreamFacts ==
    ASSUME TypeOK
    PROVE  /\ HEADERS_MAX_SIZE \in Nat
           /\ stream \in Seq(Message)
           /\ Len(stream) \in Nat /\ DOMAIN stream = 1..Len(stream)
           /\ \A i \in DOMAIN stream :
                  /\ stream[i] \in Message
                  /\ stream[i].hdr \in Nat \ {0} /\ stream[i].body \in Nat
                  /\ Size(stream[i]) = stream[i].hdr + stream[i].body
<1>1. HEADERS_MAX_SIZE \in Nat /\ stream \in Seq(Message)
    BY ConnectionConstants DEF TypeOK
<1>2. Len(stream) \in Nat /\ DOMAIN stream = 1..Len(stream)
    BY <1>1
<1>3. \A i \in DOMAIN stream : stream[i] \in Message
    BY <1>1, <1>2
<1>4. QED
    BY <1>1, <1>2, <1>3 DEF Message, Size

\* What Append does to the messages handled.
LEMMA AppendFacts ==
    ASSUME NEW S, NEW s \in Seq(S), NEW e \in S
    PROVE  /\ Append(s, e) \in Seq(S)
           /\ Len(s) \in Nat /\ Len(Append(s, e)) = Len(s) + 1
           /\ \A i \in 1..Len(s) : Append(s, e)[i] = s[i]
           /\ Append(s, e)[Len(s) + 1] = e
OBVIOUS

\* A usable message that is handled when its turn has come keeps the order.
LEMMA HandleInOrder ==
    ASSUME IInv, pos \in DOMAIN stream,
           stream[pos].kind \notin Unusable,
           stream[pos].kind # "haproxy" => stream[pos].hdr <= HEADERS_MAX_SIZE,
           transport = "tls_callback" => fiber = "done",
           handled' = Append(handled, pos),
           raised \subseteq raised',
           UNCHANGED <<transport, stream, fiber>>
    PROVE  /\ InOrder'
           /\ handled' \in Seq(Positions)
           /\ Len(handled') > 0 /\ handled'[Len(handled')] = pos
<1> USE DEF IInv, TypeOK
<1>1. /\ pos \in Positions /\ pos \in Int
      /\ handled \in Seq(Positions)
    BY StreamFacts DEF Positions
<1>2. /\ handled' \in Seq(Positions)
      /\ Len(handled) \in Nat /\ Len(handled') = Len(handled) + 1
      /\ \A i \in 1..Len(handled) : handled'[i] = handled[i]
      /\ handled'[Len(handled) + 1] = pos
    BY <1>1, AppendFacts
<1>3. Len(handled') > 0 => handled'[1] = 1
    BY <1>2 DEF HandledUpToHere, InOrder
<1>4. ASSUME NEW i \in 1..(Len(handled') - 1)
      PROVE  \/ handled'[i + 1] = handled'[i] + 1
             \/ handled'[i + 1] = handled'[i] /\ handled'[i] \in raised'
    <2>1. CASE i = Len(handled)
        <3>1. handled'[i] = handled[Len(handled)] /\ handled'[i + 1] = pos
              /\ Len(handled) # 0
            BY <1>2, <1>4, <2>1
        <3>2. \/ handled[Len(handled)] = pos - 1
              \/ handled[Len(handled)] = pos /\ pos \in raised
            BY <3>1 DEF HandledUpToHere
        <3>3. QED
            BY <1>1, <3>1, <3>2
    <2>2. CASE i # Len(handled)
        <3>1. /\ i \in 1..(Len(handled) - 1)
              /\ handled'[i] = handled[i] /\ handled'[i + 1] = handled[i + 1]
            BY <1>2, <1>4, <2>2
        <3>2. QED
            BY <3>1 DEF InOrder
    <2>3. QED
        BY <2>1, <2>2
<1>5. ASSUME NEW i \in 1..Len(handled')
      PROVE  /\ stream[handled'[i]].kind \notin Unusable
             /\ stream[handled'[i]].kind # "haproxy" =>
                    stream[handled'[i]].hdr <= HEADERS_MAX_SIZE
    <2>1. CASE i = Len(handled) + 1
        BY <1>2, <2>1
    <2>2. CASE i # Len(handled) + 1
        <3>1. i \in 1..Len(handled) /\ handled'[i] = handled[i]
            BY <1>2, <1>5, <2>2
        <3>2. QED
            BY <3>1 DEF InOrder
    <2>3. QED
        BY <2>1, <2>2
<1>6. QED
    BY <1>2, <1>3, <1>4, <1>5 DEF InOrder

\* A step in which nothing is handled keeps the order.
LEMMA SameInOrder ==
    ASSUME InOrder, UNCHANGED <<transport, stream, handled, raised>>,
           fiber' = "done" \/ fiber # "done"
    PROVE  InOrder'
BY DEF InOrder

-----------------------------------------------------------------------------
\* A new connection satisfies the inductive invariant.
LEMMA InitIInv == Init => IInv
<1> SUFFICES ASSUME Init PROVE IInv
    OBVIOUS
<1>1. TypeOK
    <2>1. unsent \in Nat
        <3>1. stream \in Seq(Message) /\ unsent = Units(stream)
            BY ConnectionConstants DEF Init
        <3>2. QED
            BY <3>1, StreamUnits
    <2>2. stream \in Seq(Message) /\ Len(stream) \in Nat
        BY ConnectionConstants DEF Init
    <2>3. bound \in BOOLEAN
        BY DEF Init
    <2>4. handled \in Seq(Positions)
        BY DEF Init
    <2>5. QED
        BY <2>1, <2>2, <2>3, <2>4 DEF Init, TypeOK, Positions
<1>2. Unapproved /\ AtMessage /\ HandledUpToHere /\ InOrder
    BY DEF Init, Unapproved, AtMessage, ParserFinished, HandledUpToHere, InOrder
<1>3. NothingStuck
    BY <1>1, StreamFacts DEF Init, NothingStuck
<1>4. QED
    BY <1>1, <1>2, <1>3 DEF IInv

\* Every round of the loop, every arrival and every callback preserves the
\* inductive invariant.
LEMMA StepIInv == IInv /\ [Next]_vars => IInv'
<1> SUFFICES ASSUME IInv, [Next]_vars PROVE IInv'
    OBVIOUS
<1>a. /\ HEADERS_MAX_SIZE \in Nat
      /\ Len(stream) \in Nat /\ DOMAIN stream = 1..Len(stream)
      /\ \A i \in DOMAIN stream :
             /\ stream[i].hdr \in Nat \ {0} /\ stream[i].body \in Nat
             /\ Size(stream[i]) = stream[i].hdr + stream[i].body
    BY StreamFacts DEF IInv
<1>b. busy # "no" => (transport = "tls_callback" => fiber = "done")
    BY DEF IInv, Unapproved
<1>c. /\ msg \in Nat /\ pos \in Nat
    BY <1>a DEF IInv, TypeOK, Positions
<1> USE DEF IInv, input, parsing, history
<1>1. CASE StartMessage
    <2>1. TypeOK'
        <3>1. bound' \in BOOLEAN
            BY <1>1 DEF StartMessage, TypeOK
        <3>2. QED
            BY <1>1 DEF StartMessage, TypeOK, Positions
    <2>2. InOrder'
        BY <1>1, SameInOrder DEF StartMessage
    <2>3. Unapproved'
        BY <1>1 DEF StartMessage, Unapproved
    <2>4. AtMessage' /\ HandledUpToHere'
        BY <1>1, <1>c DEF StartMessage, AtMessage, ParserFinished, HandledUpToHere
    <2>5. NothingStuck'
        BY <1>1 DEF StartMessage, NothingStuck
    <2>6. QED
        BY <2>1, <2>2, <2>3, <2>4, <2>5
<1>2. CASE AwaitHeaders
    <2>1. TypeOK'
        <3>1. bound' \in BOOLEAN
            BY <1>2 DEF AwaitHeaders, Parsing, TypeOK
        <3>2. QED
            BY <1>2 DEF AwaitHeaders, Parsing, TypeOK, Positions
    <2>2. InOrder'
        BY <1>2, SameInOrder DEF AwaitHeaders, Parsing
    <2>3. Unapproved'
        BY <1>2 DEF AwaitHeaders, Parsing, Unapproved
    <2>4. AtMessage' /\ HandledUpToHere'
        BY <1>2, <1>c DEF AwaitHeaders, Parsing, AtMessage, ParserFinished, HandledUpToHere
    <2>5. NothingStuck'
        BY <1>2, <1>a DEF AwaitHeaders, Parsing, TypeOK, AtMessage, ParserFinished, NothingStuck
    <2>6. QED
        BY <2>1, <2>2, <2>3, <2>4, <2>5
<1>3. CASE RefuseMessage
    <2>1. TypeOK'
        <3>1. bound' \in BOOLEAN
            BY <1>3 DEF RefuseMessage, Parsing, TypeOK
        <3>2. QED
            BY <1>3, <1>a DEF RefuseMessage, Parsing, Refuse, Close, Parsed, TypeOK, Positions
    <2>2. InOrder'
        BY <1>3, SameInOrder DEF RefuseMessage, Parsing, Refuse
    <2>3. Unapproved'
        BY <1>3 DEF RefuseMessage, Parsing, Unapproved
    <2>4. AtMessage' /\ HandledUpToHere'
        BY <1>3, <1>c DEF RefuseMessage, Parsing, Refuse, AtMessage, ParserFinished, HandledUpToHere
    <2>5. NothingStuck'
        BY <1>3 DEF RefuseMessage, Parsing, Refuse, NothingStuck
    <2>6. QED
        BY <2>1, <2>2, <2>3, <2>4, <2>5
<1>3a. CASE ViaRaises
    <2>0. /\ pos \in DOMAIN stream /\ Parsed = stream[pos].hdr
          /\ state = "headers" /\ ~ParserFinished /\ busy # "no"
          /\ nbytes' = Parsed /\ buffer' = buffer - Parsed /\ taken' = Parsed
          /\ msg' = pos /\ raised' = raised \cup {pos} /\ busy' = "no"
          /\ closed' \in {"no", "oversip", "script"}
          /\ UNCHANGED <<transport, stream, unsent, pos, state, bound, fiber, handled>>
        BY <1>3a DEF ViaRaises, Parsing, Raise, Close, TypeOK
    <2>1. TypeOK'
        <3>1. bound' \in BOOLEAN
            BY <2>0 DEF TypeOK
        <3>2. Parsed \in Nat /\ Parsed <= buffer
            BY <1>a, <2>0 DEF Parsed, TypeOK
        <3>3. buffer' \in Nat /\ nbytes' \in Nat /\ taken' \in Nat
            BY <2>0, <3>2 DEF TypeOK
        <3>4. raised' \subseteq Positions /\ Positions' = Positions
            BY <2>0 DEF TypeOK, Positions
        <3>5. QED
            BY <2>0, <3>1, <3>3, <3>4 DEF TypeOK
    <2>2. InOrder'
        BY <2>0 DEF InOrder
    <2>3. Unapproved'
        BY <2>0 DEF Unapproved
    <2>4. AtMessage' /\ HandledUpToHere'
        BY <2>0 DEF AtMessage, ParserFinished, HandledUpToHere
    <2>5. NothingStuck'
        BY <2>0 DEF NothingStuck
    <2>6. QED
        BY <2>1, <2>2, <2>3, <2>4, <2>5
<1>3b. CASE ExecuteAgain
    <2>0. ParserFinished /\ pos \in raised
        BY <1>3b DEF ExecuteAgain, AtMessage
    <2>1. TypeOK'
        <3>1. bound' \in BOOLEAN
            BY <1>3b DEF ExecuteAgain, TypeOK
        <3>2. QED
            BY <1>3b DEF ExecuteAgain, Raise, Refuse, Close, TypeOK, Positions
    <2>2. InOrder'
        BY <1>3b, SameInOrder DEF ExecuteAgain, Refuse
    <2>3. Unapproved'
        BY <1>3b DEF ExecuteAgain, Unapproved
    <2>4. AtMessage' /\ HandledUpToHere'
        BY <1>3b, <2>0 DEF ExecuteAgain, Raise, Refuse, AtMessage, ParserFinished,
           HandledUpToHere
    <2>5. NothingStuck'
        BY <1>3b, <2>0 DEF ExecuteAgain, Raise, Refuse, NothingStuck
    <2>6. QED
        BY <2>1, <2>2, <2>3, <2>4, <2>5
<1>4. CASE ParseHaproxyProtocol /\ buffer < stream[pos].hdr
    <2>1. pos \in DOMAIN stream /\ buffer \in Nat
        BY <1>4, <1>a DEF ParseHaproxyProtocol, AtMessage, ParserFinished, TypeOK
    <2>2. Refuse /\ UNCHANGED <<input, unsent, nbytes, bound, fiber>>
        BY <1>4, <1>a, <2>1 DEF ParseHaproxyProtocol
    <2>3. TypeOK'
        <3>1. bound' \in BOOLEAN
            BY <2>2 DEF TypeOK
        <3>2. QED
            BY <2>2 DEF Refuse, Close, TypeOK, Positions
    <2>4. InOrder'
        BY <2>2, SameInOrder DEF Refuse
    <2>5. Unapproved' /\ AtMessage' /\ HandledUpToHere' /\ NothingStuck'
        BY <2>2 DEF Refuse, Unapproved, AtMessage, ParserFinished, HandledUpToHere, NothingStuck
    <2>6. QED
        BY <2>3, <2>4, <2>5
<1>5. CASE ParseHaproxyProtocol /\ buffer >= stream[pos].hdr
    <2>1. /\ pos \in DOMAIN stream /\ pos = 1 /\ transport = "tunnel"
          /\ stream[pos].kind = "haproxy"
        <3>1. pos = 1 /\ transport = "tunnel" /\ stream[1].kind = "haproxy"
              /\ stream # <<>>
            BY <1>5 DEF ParseHaproxyProtocol, AtMessage
        <3>2. pos \in DOMAIN stream
            BY <1>a, <3>1, StreamFacts
        <3>3. QED
            BY <3>1, <3>2
    <2>2. /\ InOrder'
          /\ handled' \in Seq(Positions)
          /\ Len(handled') > 0 /\ handled'[Len(handled')] = pos
        <3>1. /\ handled' = Append(handled, pos)
              /\ UNCHANGED <<transport, stream, fiber, raised>>
            BY <1>5 DEF ParseHaproxyProtocol
        <3>2. QED
            BY <2>1, <3>1, HandleInOrder DEF Unusable
    <2>3. TypeOK'
        <3>1. bound' \in BOOLEAN
            BY <1>5 DEF ParseHaproxyProtocol, TypeOK
        <3>2. /\ buffer' = buffer - stream[pos].hdr /\ pos' = pos + 1 /\ state' = "headers"
              /\ UNCHANGED <<transport, stream, unsent, nbytes, taken, msg, busy, closed,
                             fiber, raised>>
            BY <1>5 DEF ParseHaproxyProtocol
        <3>3. buffer' \in Nat /\ pos' \in Positions \ {0}
            BY <1>5, <1>a, <2>1, <3>2 DEF TypeOK, Positions
        <3>4. QED
            BY <2>2, <3>1, <3>2, <3>3 DEF TypeOK, Positions
    <2>4. Unapproved'
        BY <1>5 DEF ParseHaproxyProtocol, Unapproved
    <2>5. AtMessage' /\ HandledUpToHere'
        BY <1>5, <1>c DEF ParseHaproxyProtocol, AtMessage, ParserFinished, HandledUpToHere
    <2>6. NothingStuck'
        BY <1>5 DEF ParseHaproxyProtocol, NothingStuck
    <2>7. QED
        BY <2>2, <2>3, <2>4, <2>5, <2>6
<1>6. CASE HeadersDone /\ stream[pos].kind = "keepalive"
    <2>2. /\ InOrder'
          /\ handled' \in Seq(Positions)
          /\ Len(handled') > 0 /\ handled'[Len(handled')] = pos
        BY <1>6, <1>b, HandleInOrder DEF HeadersDone, Parsing
    <2>3. TypeOK'
        <3>1. bound' \in BOOLEAN
            BY <1>6 DEF HeadersDone, Parsing, TypeOK
        <3>2. /\ pos \in DOMAIN stream /\ Parsed = stream[pos].hdr
              /\ nbytes' = Parsed /\ buffer' = buffer - Parsed /\ pos' = pos + 1
              /\ state' = "init" /\ msg' = 0
              /\ UNCHANGED <<transport, stream, unsent, taken, busy, closed, fiber, raised>>
            BY <1>6 DEF HeadersDone, Parsing
        <3>3. Parsed \in Nat /\ Parsed <= buffer
            BY <1>a, <3>2 DEF Parsed, TypeOK
        <3>4. buffer' \in Nat /\ nbytes' \in Nat
            BY <3>2, <3>3 DEF TypeOK
        <3>5. pos' \in Positions \ {0} /\ 0 \in Positions /\ Positions' = Positions
            BY <1>a, <3>2 DEF Positions
        <3>6. QED
            BY <2>2, <3>1, <3>2, <3>4, <3>5 DEF TypeOK
    <2>4. Unapproved'
        BY <1>6 DEF HeadersDone, Parsing, Unapproved
    <2>5. AtMessage' /\ HandledUpToHere'
        BY <1>6, <1>c, <1>a DEF HeadersDone, Parsing, AtMessage, ParserFinished, HandledUpToHere
    <2>6. NothingStuck'
        BY <1>6 DEF HeadersDone, Parsing, NothingStuck
    <2>7. QED
        BY <2>2, <2>3, <2>4, <2>5, <2>6
<1>7. CASE HeadersDone /\ stream[pos].kind # "keepalive"
    <2>1. TypeOK'
        <3>1. bound' \in BOOLEAN
            BY <1>7 DEF HeadersDone, Parsing, TypeOK
        <3>2. /\ pos \in DOMAIN stream /\ Parsed = stream[pos].hdr
              /\ nbytes' = Parsed /\ buffer' = buffer - Parsed /\ taken' = Parsed
              /\ state' \in {"body", "finished"} /\ msg' = pos
              /\ UNCHANGED <<transport, stream, unsent, pos, handled, busy, closed, fiber,
                             raised>>
            BY <1>7 DEF HeadersDone, Parsing
        <3>3. Parsed \in Nat /\ Parsed <= buffer
            BY <1>a, <3>2 DEF Parsed, TypeOK
        <3>4. buffer' \in Nat /\ nbytes' \in Nat /\ taken' \in Nat
            BY <3>2, <3>3 DEF TypeOK
        <3>5. Positions' = Positions
            BY <3>2 DEF Positions
        <3>6. QED
            BY <3>1, <3>2, <3>4, <3>5 DEF TypeOK
    <2>2. InOrder'
        BY <1>7, SameInOrder DEF HeadersDone, Parsing
    <2>3. Unapproved'
        BY <1>7 DEF HeadersDone, Parsing, Unapproved
    <2>4. AtMessage' /\ HandledUpToHere'
        <3>1. /\ pos \in DOMAIN stream /\ state = "headers"
              /\ stream[pos].hdr <= HEADERS_MAX_SIZE
              /\ stream[pos].kind \notin Unusable
              /\ state' = IF stream[pos].body > 0 THEN "body" ELSE "finished"
              /\ taken' = stream[pos].hdr /\ msg' = pos
              /\ UNCHANGED <<transport, stream, pos, handled, raised>>
            BY <1>7 DEF HeadersDone, Parsing
        <3>2. stream[pos].hdr \in Nat /\ stream[pos].body \in Nat
              /\ Size(stream[pos]) = stream[pos].hdr + stream[pos].body
            BY <1>a, <3>1
        <3>3. taken' = IF state' = "body" THEN stream[pos].hdr ELSE Size(stream[pos])
            BY <3>1, <3>2
        <3>4. AtMessage'
            BY <3>1, <3>3 DEF AtMessage, ParserFinished
        <3>5. HandledUpToHere'
            BY <3>1 DEF HandledUpToHere
        <3>6. QED
            BY <3>4, <3>5
    <2>5. NothingStuck'
        BY <1>7 DEF HeadersDone, Parsing, NothingStuck
    <2>6. QED
        BY <2>1, <2>2, <2>3, <2>4, <2>5
<1>8. CASE GetBody
    <2>1. TypeOK'
        <3>1. bound' \in BOOLEAN
            BY <1>8 DEF GetBody, TypeOK
        <3>2. QED
            <4>1. /\ stream[pos].body \in Nat /\ buffer \in Nat /\ taken \in Nat
                BY <1>8, <1>a DEF GetBody, AtMessage, ParserFinished, TypeOK
            <4>2. buffer' \in Nat /\ taken' \in Nat
                BY <1>8, <4>1 DEF GetBody
            <4>3. busy' \in {"no", "reactor", "fiber"} /\ state' \in {"body", "finished"}
                BY <1>8 DEF GetBody, TypeOK
            <4>4. QED
                BY <1>8, <4>2 DEF GetBody, TypeOK, Positions
    <2>2. InOrder'
        BY <1>8, SameInOrder DEF GetBody
    <2>3. Unapproved'
        BY <1>8 DEF GetBody, Unapproved
    <2>4. AtMessage' /\ HandledUpToHere'
        BY <1>8, <1>c, <1>a DEF GetBody, AtMessage, ParserFinished, HandledUpToHere
    <2>5. NothingStuck'
        BY <1>8, <1>a DEF GetBody, TypeOK, AtMessage, ParserFinished, NothingStuck
    <2>6. QED
        BY <2>1, <2>2, <2>3, <2>4, <2>5
<1>9. CASE Process
    <2>2. /\ InOrder'
          /\ handled' \in Seq(Positions)
          /\ Len(handled') > 0 /\ handled'[Len(handled')] = pos
        BY <1>9, <1>b, HandleInOrder DEF Process, AtMessage, ParserFinished
    <2>3. TypeOK'
        <3>1. bound' \in BOOLEAN
            BY <1>9 DEF Process, TypeOK
        <3>2. QED
            <4>1. /\ closed' \in {"no", "oversip", "script"} /\ state' = "init"
                  /\ pos' = pos + 1 /\ taken' = taken - Size(stream[pos])
                  /\ UNCHANGED <<transport, stream, unsent, buffer, nbytes, msg, busy,
                                 fiber, raised>>
                BY <1>9 DEF Process, Close, TypeOK
            <4>2. pos \in DOMAIN stream /\ taken = Size(stream[pos])
                  /\ Size(stream[pos]) \in Nat
                BY <1>9, <1>a DEF Process, AtMessage, ParserFinished
            <4>3. pos' \in Positions \ {0} /\ taken' \in Nat
                BY <1>a, <4>1, <4>2 DEF Positions
            <4>4. Positions' = Positions
                BY <4>1 DEF Positions
            <4>5. QED
                BY <2>2, <3>1, <4>1, <4>3, <4>4 DEF TypeOK
    <2>4. Unapproved'
        BY <1>9 DEF Process, Unapproved
    <2>5. AtMessage' /\ HandledUpToHere'
        <3>1. /\ pos \in Int /\ state' = "init" /\ pos' = pos + 1
              /\ taken' = taken - Size(stream[pos])
              /\ UNCHANGED <<transport, stream, msg>> /\ msg = pos
            BY <1>9, <1>a DEF Process, AtMessage, ParserFinished
        <3>2. taken = Size(stream[pos]) /\ Size(stream[pos]) \in Nat
            BY <1>9, <1>a DEF Process, AtMessage, ParserFinished
        <3>3. AtMessage'
            BY <3>1, <3>2 DEF AtMessage, ParserFinished
        <3>4. HandledUpToHere'
            BY <2>2, <3>1 DEF HandledUpToHere
        <3>5. QED
            BY <3>3, <3>4
    <2>6. NothingStuck'
        BY <1>9 DEF Process, NothingStuck
    <2>7. QED
        BY <2>2, <2>3, <2>4, <2>5, <2>6
<1>10. CASE ProcessRaises
    <2>2. /\ InOrder'
          /\ handled' \in Seq(Positions)
          /\ Len(handled') > 0 /\ handled'[Len(handled')] = pos
        BY <1>10, <1>b, HandleInOrder DEF ProcessRaises, Raise, AtMessage, ParserFinished
    <2>3. TypeOK'
        <3>1. bound' \in BOOLEAN
            BY <1>10 DEF ProcessRaises, Raise, TypeOK
        <3>2. QED
            <4>1. /\ closed' \in {"no", "oversip", "script"} /\ busy' = "no"
                  /\ raised' = raised \cup {msg}
                  /\ UNCHANGED <<transport, stream, unsent, buffer, nbytes, taken, pos,
                                 msg, state, fiber>>
                BY <1>10 DEF ProcessRaises, Raise, Close, TypeOK
            <4>2. raised' \subseteq Positions /\ Positions' = Positions
                BY <4>1 DEF TypeOK, Positions
            <4>3. QED
                BY <2>2, <3>1, <4>1, <4>2 DEF TypeOK
    <2>4. Unapproved'
        BY <1>10 DEF ProcessRaises, Raise, Unapproved
    <2>5. AtMessage' /\ HandledUpToHere'
        <3>1. /\ pos \in raised' /\ state = "finished"
              /\ UNCHANGED <<transport, stream, taken, pos, msg, state>>
            BY <1>10 DEF ProcessRaises, Raise, AtMessage, ParserFinished
        <3>2. AtMessage'
            BY <3>1 DEF AtMessage, ParserFinished
        <3>3. HandledUpToHere'
            BY <2>2, <3>1 DEF HandledUpToHere
        <3>4. QED
            BY <3>2, <3>3
    <2>6. NothingStuck'
        <3>1. pos' \in raised'
            BY <1>10 DEF ProcessRaises, AtMessage
        <3>2. QED
            BY <3>1 DEF NothingStuck
    <2>7. QED
        BY <2>2, <2>3, <2>4, <2>5, <2>6
<1>11. ASSUME NEW n \in 1..unsent, ReceiveData(n)
       PROVE  IInv'
    <2>1. TypeOK'
        <3>1. bound' \in BOOLEAN
            BY <1>11 DEF ReceiveData
        <3>2. QED
            BY <1>11 DEF ReceiveData, TypeOK, Positions
    <2>2. InOrder'
        BY <1>11, SameInOrder DEF ReceiveData
    <2>3. Unapproved'
        BY <1>11 DEF ReceiveData, Unapproved, TypeOK
    <2>4. AtMessage' /\ HandledUpToHere'
        BY <1>11, <1>c DEF ReceiveData, AtMessage, ParserFinished, HandledUpToHere
    <2>5. NothingStuck'
        BY <1>11 DEF ReceiveData, NothingStuck
    <2>6. QED
        BY <2>1, <2>2, <2>3, <2>4, <2>5
<1>12. CASE HandshakeCompleted
    <2>1. TypeOK'
        <3>1. bound' \in BOOLEAN
            BY <1>12 DEF HandshakeCompleted
        <3>2. QED
            BY <1>12 DEF HandshakeCompleted, TypeOK, Positions
    <2>2. InOrder'
        BY <1>12, SameInOrder DEF HandshakeCompleted
    <2>3. Unapproved'
        BY <1>12 DEF HandshakeCompleted, Unapproved
    <2>4. AtMessage' /\ HandledUpToHere'
        BY <1>12, <1>c DEF HandshakeCompleted, AtMessage, ParserFinished, HandledUpToHere, Unapproved
    <2>5. NothingStuck'
        BY <1>12 DEF HandshakeCompleted, NothingStuck
    <2>6. QED
        BY <2>1, <2>2, <2>3, <2>4, <2>5
<1>13. CASE HandshakeTimeout
    <2>1. TypeOK'
        <3>1. bound' \in BOOLEAN
            BY <1>13 DEF HandshakeTimeout
        <3>2. QED
            BY <1>13 DEF HandshakeTimeout, Close, TypeOK, Positions
    <2>2. InOrder'
        BY <1>13, SameInOrder DEF HandshakeTimeout
    <2>3. Unapproved'
        BY <1>13 DEF HandshakeTimeout, Unapproved
    <2>4. AtMessage' /\ HandledUpToHere'
        BY <1>13, <1>c DEF HandshakeTimeout, AtMessage, ParserFinished, HandledUpToHere
    <2>5. NothingStuck'
        BY <1>13 DEF HandshakeTimeout, NothingStuck
    <2>6. QED
        BY <2>1, <2>2, <2>3, <2>4, <2>5
<1>14. CASE TlsCallbackEnds
    <2>1. TypeOK'
        <3>1. bound' \in BOOLEAN
            BY <1>14 DEF TlsCallbackEnds, TypeOK
        <3>2. QED
            BY <1>14 DEF TlsCallbackEnds, TypeOK, Positions
    <2>2. InOrder'
        BY <1>14, SameInOrder DEF TlsCallbackEnds
    <2>3. Unapproved'
        BY <1>14 DEF TlsCallbackEnds, Unapproved
    <2>4. AtMessage' /\ HandledUpToHere'
        BY <1>14, <1>c DEF TlsCallbackEnds, AtMessage, ParserFinished, HandledUpToHere, Unapproved
    <2>5. NothingStuck'
        BY <1>14 DEF TlsCallbackEnds, NothingStuck
    <2>6. QED
        BY <2>1, <2>2, <2>3, <2>4, <2>5
<1>15. CASE TlsCallbackRaises
    <2>1. TypeOK'
        <3>1. bound' \in BOOLEAN
            BY <1>15 DEF TlsCallbackRaises, TypeOK
        <3>2. QED
            BY <1>15 DEF TlsCallbackRaises, Close, TypeOK, Positions
    <2>2. InOrder'
        BY <1>15, SameInOrder DEF TlsCallbackRaises
    <2>3. Unapproved'
        BY <1>15 DEF TlsCallbackRaises, Unapproved
    <2>4. AtMessage' /\ HandledUpToHere'
        BY <1>15, <1>c DEF TlsCallbackRaises, AtMessage, ParserFinished, HandledUpToHere
    <2>5. NothingStuck'
        BY <1>15 DEF TlsCallbackRaises, Close, NothingStuck
    <2>6. QED
        BY <2>1, <2>2, <2>3, <2>4, <2>5
<1>16. CASE ScriptCloses
    <2>1. TypeOK'
        <3>1. bound' \in BOOLEAN
            BY <1>16 DEF ScriptCloses
        <3>2. QED
            BY <1>16 DEF ScriptCloses, Close, TypeOK, Positions
    <2>2. InOrder'
        BY <1>16, SameInOrder DEF ScriptCloses
    <2>3. Unapproved'
        BY <1>16 DEF ScriptCloses, Unapproved
    <2>4. AtMessage' /\ HandledUpToHere'
        BY <1>16, <1>c DEF ScriptCloses, AtMessage, ParserFinished, HandledUpToHere
    <2>5. NothingStuck'
        BY <1>16 DEF ScriptCloses, NothingStuck
    <2>6. QED
        BY <2>1, <2>2, <2>3, <2>4, <2>5
<1>17. CASE Unbind
    <2>1. TypeOK'
        <3>1. bound' \in BOOLEAN
            BY <1>17 DEF Unbind
        <3>2. QED
            BY <1>17 DEF Unbind, TypeOK, Positions
    <2>2. InOrder'
        BY <1>17, SameInOrder DEF Unbind
    <2>3. Unapproved'
        BY <1>17 DEF Unbind, Unapproved
    <2>4. AtMessage' /\ HandledUpToHere'
        BY <1>17, <1>c DEF Unbind, AtMessage, ParserFinished, HandledUpToHere
    <2>5. NothingStuck'
        BY <1>17 DEF Unbind, NothingStuck
    <2>6. QED
        BY <2>1, <2>2, <2>3, <2>4, <2>5
<1>18. CASE UNCHANGED vars
    <2>1. TypeOK'
        <3>1. bound' \in BOOLEAN
            BY <1>18 DEF vars, TypeOK
        <3>2. QED
            BY <1>18 DEF vars, TypeOK, Positions
    <2>2. InOrder'
        BY <1>18, SameInOrder DEF vars
    <2>3. Unapproved'
        BY <1>18 DEF vars, Unapproved
    <2>4. AtMessage' /\ HandledUpToHere'
        BY <1>18, <1>c DEF vars, AtMessage, ParserFinished, HandledUpToHere
    <2>5. NothingStuck'
        BY <1>18 DEF vars, NothingStuck
    <2>6. QED
        BY <2>1, <2>2, <2>3, <2>4, <2>5
<1>19. QED
    <2>1. ASSUME ParseHaproxyProtocol PROVE IInv'
        <3>1. stream[pos].hdr \in Nat /\ buffer \in Nat
            BY <1>a, <2>1 DEF ParseHaproxyProtocol, AtMessage, ParserFinished, TypeOK
        <3>2. QED
            BY <1>4, <1>5, <2>1, <3>1
    <2>2. QED
        BY <1>1, <1>2, <1>3, <1>3a, <1>3b, <1>6, <1>7, <1>8, <1>9, <1>10, <1>11, <1>12, <1>13, <1>14,
           <1>15, <1>16, <1>17, <1>18, <2>1 DEF Next, Rounds

-----------------------------------------------------------------------------
\* The inductive invariant holds in every reachable state.
THEOREM Invariance == Spec => []IInv
BY InitIInv, StepIInv, PTL DEF Spec

\* Whatever the peer sends, however the network cuts it and whenever the script
\* decides, messages are handled in the order of the stream, the unusable and
\* what follows them never, and nothing before a TLS client is let in.
THEOREM HandledInOrder == Spec => []InOrder
<1>1. IInv => InOrder
    BY DEF IInv
<1>2. QED
    BY <1>1, Invariance, PTL

\* A message that is complete in the buffer does not wait for the next segment,
\* unless an exception was raised over the message the connection is at.
THEOREM NeverStuck == Spec => []NothingStuck
<1>1. IInv => NothingStuck
    BY DEF IInv
<1>2. QED
    BY <1>1, Invariance, PTL
=============================================================================
