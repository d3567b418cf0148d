------------------------- MODULE InviteProxyProofs -------------------------
(* Proofs about InviteProxy, for any number of targets.                    *)
EXTENDS InviteProxy, FiniteSetTheorems, WellFoundedInduction, TLAPS

\* A set of numbers that is not empty has a least one.
LEMMA LeastNumber ==
    ASSUME NEW S \in SUBSET Nat, S # {}
    PROVE  Min(S) \in S
<1> DEFINE R == OpToRel(<, Nat)
<1>1. IsWellFoundedOn(R, Nat)
    BY NatLessThanWellFounded
<1>2. \A x, y \in S : <<y, x>> \in R <=> y < x
    BY DEF OpToRel
<1> HIDE DEF R
<1>3. PICK x \in S : \A y \in S : ~(<<y, x>> \in R)
    BY <1>1, WFMin
<1>4. \A y \in S : ~(y < x)
    BY <1>2, <1>3
<1>5. \A y \in S : x <= y
    BY <1>4
<1>6. QED
    BY <1>5 DEF Min

\* A client transaction as it is created.
Started(link) ==
    [NoBranch EXCEPT !.state = "calling", !.link = link, !.expiry = TRUE]

\* What try_next_target does: a later target is tried, or the caller is told
\* that there is none, or the next one cannot be used.
LEMMA TryNextFacts ==
    ASSUME TypeOK, NEW n \in num..MaxTargets, NEW branches, NEW listed,
           TryNextTarget(n, branches, listed)
    PROVE  \/ \E next \in (num + 1)..n, link \in {"up", "pending"} :
                 /\ branch' = [branches EXCEPT ![next] = Started(link)]
                 /\ num' = next /\ ct' = next /\ size' = n
                 /\ UNCHANGED <<ist, drop, dropped, raised>>
           \/ \E m \in num..n :
                 /\ branch' = branches
                 /\ num' = m /\ size' = m /\ ct' = ct /\ raised' = raised
                 /\ \E script \in BOOLEAN : UnlessDropped(script, ReplyFailure)
           \/ \E m \in num..n :
                 /\ branch' = branches
                 /\ num' = m /\ size' = n /\ ct' = ct /\ raised' = TRUE
                 /\ UNCHANGED <<ist, drop, dropped>>
<1>1. num \in Nat /\ n \in Nat /\ num <= n
    BY ProxyConstants DEF TypeOK
<1> DEFINE usable == ((num + 1)..n) \ listed
           next == Min(usable)
<1>2. CASE usable = {}
    BY <1>1, <1>2 DEF TryNextTarget, NoMoreTargets
<1>3. CASE usable # {}
    <2>1. next \in usable
        <3>1. usable \in SUBSET Nat
            BY <1>1
        <3>2. QED
            BY <1>3, <3>1, LeastNumber
    <2>2. next \in (num + 1)..n /\ next \in num..n
        BY <1>1, <2>1
    <2>3. \/ UseTarget(next, branches) /\ size' = n
          \/ UnusableTarget(next, branches) /\ size' = n
          \/ NoMoreTargets(next, branches) /\ size' = next
        BY <1>3 DEF TryNextTarget
    <2> HIDE DEF next
    <2>4. CASE UseTarget(next, branches) /\ size' = n
        BY <2>2, <2>4 DEF UseTarget, Started
    <2>5. CASE NoMoreTargets(next, branches) /\ size' = next
        BY <2>2, <2>5 DEF NoMoreTargets
    <2>6. CASE UnusableTarget(next, branches) /\ size' = n
        BY <2>2, <2>6 DEF UnusableTarget
    <2>7. QED
        BY <2>3, <2>4, <2>5, <2>6
<1>4. QED
    BY <1>2, <1>3

\* The fields of a client transaction before and after it is created.
LEMMA NewBranchFacts ==
    /\ NoBranch \in ClientTransaction
    /\ NoBranch.state = "none" /\ NoBranch.link = "up"
    /\ NoBranch.cancel = FALSE /\ NoBranch.expiry = FALSE
    /\ \A link \in {"up", "pending"} :
           /\ Started(link) \in ClientTransaction
           /\ Started(link).state = "calling" /\ Started(link).link = link
           /\ Started(link).cancel = FALSE /\ Started(link).expiry = TRUE
BY DEF Started, NoBranch, ClientTransaction

\* A reply that is not dropped by the script answers a waiting caller: the drop
\* flag is set only when there is none.
LEMMA ReplyFacts ==
    ASSUME IInv, NEW script \in BOOLEAN,
           UnlessDropped(script, ReplyFailure) \/ UnlessDropped(script, ReplySuccess)
    PROVE  /\ ist' \in {"proceeding", "completed", "accepted", "terminated"}
           /\ drop' = FALSE /\ dropped' \in BOOLEAN
           /\ ist' # "proceeding" \/ dropped'
           /\ ist = "terminated" => ist' = "terminated"
BY DEF IInv, TypeOK, CallerLookedAfter, UnlessDropped, ReplyFailure, ReplySuccess

\* try_next_target preserves the inductive invariant, for branches in which no
\* target is being tried any more.
LEMMA TryNextStep ==
    ASSUME IInv, NEW n \in num..MaxTargets, NEW listed,
           NEW branches \in [Target -> ClientTransaction],
           TryNextTarget(n, branches, listed),
           dns' = "done", blacklist' \in SUBSET Target, UNCHANGED <<conf, canceled>>,
           \A m \in Target : m > num => branches[m] = NoBranch,
           \A m \in Target : branches[m].state = "none" => branches[m] = NoBranch,
           \A m \in Target : branches[m].state = "accepted" => ~branches[m].expiry,
           ct # 0 => branches[ct].state # "none",
           Ordered => /\ \A m \in Target :
                             /\ branches[m].state \in {"none", "completed", "terminated"}
                             /\ branches[m].link # "pending"
                             /\ ~branches[m].expiry
                      /\ ist \notin {"completed", "accepted"}
    PROVE  IInv'
<1> USE ProxyConstants
<1>0. TypeOK /\ num \in Nat /\ n \in Nat /\ num <= n /\ n <= MaxTargets /\ ct \in 0..num
    BY DEF IInv, TypeOK
<1>1. CASE \E next \in (num + 1)..n, link \in {"up", "pending"} :
              /\ branch' = [branches EXCEPT ![next] = Started(link)]
              /\ num' = next /\ ct' = next /\ size' = n
              /\ UNCHANGED <<ist, drop, dropped, raised>>
    <2>1. PICK next \in (num + 1)..n, link \in {"up", "pending"} :
              /\ branch' = [branches EXCEPT ![next] = Started(link)]
              /\ num' = next /\ ct' = next /\ size' = n
              /\ UNCHANGED <<ist, drop, dropped, raised>>
        BY <1>1
    <2>2. next \in Target /\ next > num
        BY <1>0 DEF Target
    <2>3. /\ branch' \in [Target -> ClientTransaction]
          /\ branch'[next] = Started(link)
          /\ \A m \in Target : m # next => branch'[m] = branches[m]
        BY <2>1, <2>2, NewBranchFacts
    <2>4. TypeOK'
        BY <1>0, <2>1, <2>2, <2>3 DEF TypeOK, Target
    <2>5. BranchesMatchTargets'
        BY <1>0, <2>1, <2>2, <2>3, NewBranchFacts DEF BranchesMatchTargets, Target
    <2>6. CallerLookedAfter'
        BY <2>1, <2>2, <2>3, NewBranchFacts DEF CallerLookedAfter, IInv
    <2>7. Ordered => OnlyCurrentBranch'
        BY <2>1, <2>2, <2>3, NewBranchFacts DEF OnlyCurrentBranch
    <2>8. QED
        BY <2>4, <2>5, <2>6, <2>7 DEF IInv
<1>2. CASE \E m \in num..n :
              /\ branch' = branches
              /\ num' = m /\ size' = m /\ ct' = ct /\ raised' = raised
              /\ \E script \in BOOLEAN : UnlessDropped(script, ReplyFailure)
    <2>1. PICK m \in num..n :
              /\ branch' = branches
              /\ num' = m /\ size' = m /\ ct' = ct /\ raised' = raised
              /\ \E script \in BOOLEAN : UnlessDropped(script, ReplyFailure)
        BY <1>2
    <2>2. /\ ist' \in {"proceeding", "completed", "accepted", "terminated"}
          /\ drop' = FALSE /\ dropped' \in BOOLEAN
          /\ ist' # "proceeding" \/ dropped'
        BY <2>1, ReplyFacts
    <2>3. TypeOK'
        <3>1. size' \in 0..MaxTargets /\ num' \in 0..size' /\ ct' \in 0..num'
            BY <1>0, <2>1
        <3>2. /\ drop' \in BOOLEAN /\ raised' \in BOOLEAN
              /\ branch' \in [Target -> ClientTransaction]
            BY <1>0, <2>1, <2>2 DEF TypeOK
        <3>3. QED
            BY <1>0, <2>2, <3>1, <3>2 DEF TypeOK
    <2>4. BranchesMatchTargets'
        BY <1>0, <2>1 DEF BranchesMatchTargets, Target
    <2>5. CallerLookedAfter'
        BY <2>2 DEF CallerLookedAfter
    <2>6. Ordered => OnlyCurrentBranch'
        BY <2>1 DEF OnlyCurrentBranch
    <2>7. QED
        BY <2>3, <2>4, <2>5, <2>6 DEF IInv
<1>3. CASE \E m \in num..n :
              /\ branch' = branches
              /\ num' = m /\ size' = n /\ ct' = ct /\ raised' = TRUE
              /\ UNCHANGED <<ist, drop, dropped>>
    <2>1. PICK m \in num..n :
              /\ branch' = branches
              /\ num' = m /\ size' = n /\ ct' = ct /\ raised' = TRUE
              /\ UNCHANGED <<ist, drop, dropped>>
        BY <1>3
    <2>2. TypeOK'
        <3>1. size' \in 0..MaxTargets /\ num' \in 0..size' /\ ct' \in 0..num'
            BY <1>0, <2>1
        <3>2. raised' \in BOOLEAN /\ branch' \in [Target -> ClientTransaction]
            BY <2>1
        <3>3. QED
            BY <1>0, <2>1, <3>1, <3>2 DEF TypeOK
    <2>3. BranchesMatchTargets'
        BY <1>0, <2>1 DEF BranchesMatchTargets, Target
    <2>4. CallerLookedAfter'
        BY <2>1 DEF IInv, CallerLookedAfter
    <2>5. Ordered => OnlyCurrentBranch'
        BY <2>1 DEF OnlyCurrentBranch
    <2>6. QED
        BY <2>2, <2>3, <2>4, <2>5 DEF IInv
<1>4. QED
    BY <1>0, <1>1, <1>2, <1>3, TryNextFacts

-----------------------------------------------------------------------------
\* The inductive invariant holds when the DNS query has been sent.
LEMMA InitIInv == Init => IInv
<1> SUFFICES ASSUME Init PROVE IInv
    OBVIOUS
<1>1. TypeOK
    <2>1. size \in 0..MaxTargets /\ num \in 0..size /\ ct \in 0..num
        BY ProxyConstants DEF Init
    <2>2. branch \in [Target -> ClientTransaction]
        BY NewBranchFacts DEF Init
    <2>3. canceled \in BOOLEAN /\ drop \in BOOLEAN /\ dropped \in BOOLEAN /\ raised \in BOOLEAN
        BY Zenon DEF Init
    <2>4. QED
        BY <2>1, <2>2, <2>3 DEF Init, TypeOK
<1>2. BranchesMatchTargets /\ CallerLookedAfter /\ OnlyCurrentBranch
    BY NewBranchFacts DEF Init, BranchesMatchTargets, CallerLookedAfter, OnlyCurrentBranch
<1>3. QED
    BY <1>1, <1>2 DEF IInv

\* A step that changes one branch, of which a client transaction exists, and no
\* number of a target.
LEMMA BranchStep ==
    ASSUME IInv, NEW m \in Target, NEW b \in ClientTransaction,
           branch' = Set(m, b), branch[m].state # "none", b.state # "none",
           b.state = "accepted" => ~b.expiry,
           ist' \in {"proceeding", "completed", "accepted", "terminated"},
           dns = "done" => b.expiry = branch[m].expiry \/ ist' # "proceeding" \/ dropped',
           drop' \in BOOLEAN, dropped' \in BOOLEAN,
           drop' => ist' # "proceeding" \/ dropped',
           ist' = "proceeding" => ist = "proceeding", dropped => dropped',
           UNCHANGED <<conf, dns, size, num, ct, blacklist, raised>>, canceled' \in BOOLEAN,
           Ordered => /\ b.state \in {"calling", "proceeding", "accepted"} \/ b.expiry => m = num
                      /\ b.link = "pending" => b.state = "calling"
                      /\ b.state = "calling" => ist' = ist
                      /\ b.state = "calling" => branch[m].state = "calling"
                      /\ ist' = ist \/ m = num
    PROVE  IInv'
<1> USE ProxyConstants
<1>0. TypeOK /\ num \in Nat /\ ct \in 0..num
    BY DEF IInv, TypeOK
<1>1. /\ branch' \in [Target -> ClientTransaction]
      /\ branch'[m] = b
      /\ \A o \in Target : o # m => branch'[o] = branch[o]
    BY <1>0 DEF TypeOK, Set
<1>2. dns = "done" /\ m <= num
    <2>1. m <= num
        BY <1>0, NewBranchFacts DEF IInv, BranchesMatchTargets, Target
    <2>2. QED
        BY <1>0, <2>1 DEF IInv, TypeOK, BranchesMatchTargets, Target
<1>3. TypeOK'
    BY <1>0, <1>1 DEF TypeOK
<1>4. BranchesMatchTargets'
    <2>1. \A o \in Target : o > num => branch'[o] = NoBranch
        BY <1>0, <1>1, <1>2 DEF IInv, BranchesMatchTargets, Target
    <2>2. \A o \in Target : branch'[o].state = "none" => branch'[o] = NoBranch
        BY <1>1 DEF IInv, BranchesMatchTargets
    <2>3. \A o \in Target : branch'[o].state = "accepted" => ~branch'[o].expiry
        BY <1>1 DEF IInv, BranchesMatchTargets
    <2>4. ct # 0 => branch'[ct].state # "none"
        <3>1. ct # 0 => ct \in Target
            BY <1>0 DEF TypeOK, Target
        <3>2. QED
            BY <1>1, <3>1 DEF IInv, BranchesMatchTargets
    <2>5. QED
        BY <1>2, <2>1, <2>2, <2>3, <2>4 DEF BranchesMatchTargets
<1>5. CallerLookedAfter'
    BY <1>1, <1>2 DEF IInv, CallerLookedAfter
<1>6. ASSUME Ordered PROVE OnlyCurrentBranch'
    <2>1. \A o \in Target : o # num =>
              branch'[o].state \in {"none", "completed", "terminated"} /\ ~branch'[o].expiry
        BY <1>1, <1>6 DEF IInv, OnlyCurrentBranch, ClientTransaction
    <2>2. \A o \in Target : branch'[o].link = "pending" => branch'[o].state = "calling"
        BY <1>1, <1>6 DEF IInv, OnlyCurrentBranch
    <2>3. \A o \in Target : branch'[o].state = "calling" => ist' \notin {"completed", "accepted"}
        BY <1>1, <1>6 DEF IInv, OnlyCurrentBranch
    <2>4. QED
        BY <2>1, <2>2, <2>3 DEF OnlyCurrentBranch
<1>7. QED
    BY <1>3, <1>4, <1>5, <1>6 DEF IInv

\* A branch ends and the next target is tried.
LEMMA FailoverStep ==
    ASSUME IInv, NEW m \in Target, NEW b \in ClientTransaction, NEW listed,
           TryNextTarget(size, Set(m, b), listed),
           branch[m].state # "none", b.state \in {"completed", "terminated"}, ~b.expiry,
           UNCHANGED <<conf, dns, canceled>>, blacklist' \in SUBSET Target,
           Ordered => /\ m = num /\ b.link # "pending"
                      /\ ist \notin {"completed", "accepted"}
    PROVE  IInv'
<1> USE ProxyConstants
<1>0. TypeOK /\ num \in Nat /\ ct \in 0..num /\ size \in num..MaxTargets
    BY DEF IInv, TypeOK
<1> DEFINE branches == Set(m, b)
<1>1. /\ branches \in [Target -> ClientTransaction]
      /\ branches[m] = b
      /\ \A o \in Target : o # m => branches[o] = branch[o]
    BY <1>0 DEF TypeOK, Set
<1> HIDE DEF branches
<1>2. dns = "done" /\ m <= num
    <2>1. m <= num
        BY <1>0, NewBranchFacts DEF IInv, BranchesMatchTargets, Target
    <2>2. QED
        BY <1>0, <2>1 DEF IInv, TypeOK, BranchesMatchTargets, Target
<1>3. \A o \in Target : o > num => branches[o] = NoBranch
    BY <1>0, <1>1, <1>2 DEF IInv, BranchesMatchTargets, Target
<1>4. \A o \in Target : branches[o].state = "none" => branches[o] = NoBranch
    BY <1>1 DEF IInv, BranchesMatchTargets
<1>5. \A o \in Target : branches[o].state = "accepted" => ~branches[o].expiry
    BY <1>1 DEF IInv, BranchesMatchTargets
<1>6. ct # 0 => branches[ct].state # "none"
    <2>1. ct # 0 => ct \in Target
        BY <1>0 DEF TypeOK, Target
    <2>2. QED
        BY <1>1, <2>1 DEF IInv, BranchesMatchTargets
<1>7. Ordered => /\ \A o \in Target :
                        /\ branches[o].state \in {"none", "completed", "terminated"}
                        /\ branches[o].link # "pending"
                        /\ ~branches[o].expiry
                 /\ ist \notin {"completed", "accepted"}
    BY <1>1 DEF IInv, OnlyCurrentBranch
<1>8. TryNextTarget(size, branches, listed) /\ dns' = "done"
    BY <1>2 DEF branches
<1>9. QED
    BY <1>0, <1>1, <1>3, <1>4, <1>5, <1>6, <1>7, <1>8, TryNextStep

\* Every event of the DNS, a branch, the caller and the blacklist preserves
\* the inductive invariant.
LEMMA StepIInv == IInv /\ [Next]_vars => IInv'
<1> SUFFICES ASSUME IInv, [Next]_vars PROVE IInv'
    OBVIOUS
<1> USE ProxyConstants
<1>0. TypeOK /\ BranchesMatchTargets /\ CallerLookedAfter /\ (Ordered => OnlyCurrentBranch)
    BY DEF IInv
<1>a. \A m \in Target : branch[m] \in ClientTransaction
    BY <1>0 DEF TypeOK
<1>b. \A m \in Target : branch[m].link = "pending" \/ branch[m].expiry => branch[m].state # "none"
    BY <1>0, NewBranchFacts DEF BranchesMatchTargets
<1>1. ASSUME NEW n \in Target, DnsSucceeded(n) PROVE IInv'
    <2>1. num = 0 /\ n \in num..MaxTargets /\ ct = 0 /\ ist \in {"proceeding", "terminated"}
        BY <1>0, <1>1 DEF DnsSucceeded, BranchesMatchTargets, TypeOK, Target
    <2>2. /\ TryNextTarget(n, branch, blacklist)
          /\ dns' = "done" /\ blacklist' \in SUBSET Target /\ UNCHANGED <<conf, canceled>>
        BY <1>0, <1>1 DEF DnsSucceeded, TypeOK
    <2>3. branch \in [Target -> ClientTransaction] /\ \A m \in Target : branch[m] = NoBranch
        BY <1>0, <2>1 DEF TypeOK, BranchesMatchTargets, Target
    <2>4. QED
        BY <2>1, <2>2, <2>3, NewBranchFacts, TryNextStep
<1>2. CASE DnsFailed
    <2>1. PICK script \in BOOLEAN : UnlessDropped(script, ReplyFailure)
        BY <1>2 DEF DnsFailed
    <2>2. /\ ist' \in {"proceeding", "completed", "accepted", "terminated"}
          /\ drop' = FALSE /\ dropped' \in BOOLEAN
          /\ ist' # "proceeding" \/ dropped'
        BY <2>1, ReplyFacts
    <2>3. /\ dns # "done" /\ dns' \in {"again", "done"}
          /\ UNCHANGED <<conf, size, num, ct, branch, canceled, blacklist, raised>>
        BY <1>2 DEF DnsFailed
    <2>4. num = 0 /\ \A m \in Target : branch[m] = NoBranch
        BY <1>0, <2>3 DEF BranchesMatchTargets, Target
    <2>5. TypeOK'
        BY <1>0, <2>2, <2>3 DEF TypeOK
    <2>6. BranchesMatchTargets' /\ CallerLookedAfter' /\ OnlyCurrentBranch'
        BY <1>0, <2>2, <2>3, <2>4, NewBranchFacts
           DEF BranchesMatchTargets, CallerLookedAfter, OnlyCurrentBranch
    <2>7. QED
        BY <2>5, <2>6 DEF IInv
<1>d. CASE DnsWithoutTargets
    <2>1. /\ dns = "pending" /\ dns' = "done"
          /\ UNCHANGED <<conf, size, num, ct, branch, ist, canceled, blacklist>>
          /\ drop' \in BOOLEAN /\ dropped' \in BOOLEAN /\ raised' \in BOOLEAN
          /\ (drop' => drop) /\ (dropped => dropped')
          /\ drop \/ dropped' \/ raised'
        BY <1>0, <1>d DEF DnsWithoutTargets, TypeOK
    <2>2. num = 0 /\ \A m \in Target : branch[m] = NoBranch
        BY <1>0, <2>1 DEF BranchesMatchTargets, Target
    <2>3. TypeOK'
        BY <1>0, <2>1 DEF TypeOK
    <2>4. BranchesMatchTargets' /\ OnlyCurrentBranch'
        BY <1>0, <2>1, <2>2, NewBranchFacts DEF BranchesMatchTargets, OnlyCurrentBranch
    <2>5. CallerLookedAfter'
        BY <1>0, <2>1 DEF CallerLookedAfter
    <2>6. QED
        BY <2>3, <2>4, <2>5 DEF IInv
<1>e. ASSUME NEW n \in Target, DnsSucceededAgain(n) PROVE IInv'
    <2>1. /\ dns = "again" /\ dns' = "done" /\ UNCHANGED <<conf, canceled, blacklist>>
          /\ branch' = branch /\ num' = 1 /\ ct' = ct /\ size' \in {1, n}
        BY <1>e DEF DnsSucceededAgain, UnusableTarget, NoMoreTargets
    <2>2. /\ ist' \in {"proceeding", "completed", "accepted", "terminated"}
          /\ drop' \in BOOLEAN /\ dropped' \in BOOLEAN /\ raised' \in BOOLEAN
          /\ ist' # "proceeding" \/ dropped' \/ raised'
          /\ drop' => ist' # "proceeding" \/ dropped'
        <3>1. CASE UnusableTarget(1, branch)
            BY <1>0, <3>1 DEF UnusableTarget, TypeOK, CallerLookedAfter
        <3>2. CASE NoMoreTargets(1, branch)
            BY <1>0, <3>2, ReplyFacts DEF NoMoreTargets, TypeOK
        <3>3. QED
            BY <1>e, <3>1, <3>2 DEF DnsSucceededAgain
    <2>3. num = 0 /\ \A m \in Target : branch[m] = NoBranch
        BY <1>0, <2>1 DEF BranchesMatchTargets, Target
    <2>4. TypeOK'
        <3>1. size' \in 0..MaxTargets /\ num' \in 0..size' /\ ct' \in 0..num'
            BY <1>0, <2>1, <2>3 DEF TypeOK, Target
        <3>2. QED
            BY <1>0, <2>1, <2>2, <3>1 DEF TypeOK
    <2>5. BranchesMatchTargets' /\ CallerLookedAfter' /\ OnlyCurrentBranch'
        <3>1. ct' = 0
            BY <1>0, <2>1, <2>3 DEF TypeOK
        <3>2. BranchesMatchTargets' /\ OnlyCurrentBranch'
            BY <2>1, <2>3, <3>1, NewBranchFacts DEF BranchesMatchTargets, OnlyCurrentBranch
        <3>3. CallerLookedAfter'
            BY <2>2 DEF CallerLookedAfter
        <3>4. QED
            BY <3>2, <3>3
    <2>6. QED
        BY <2>4, <2>5 DEF IInv
<1>3. ASSUME NEW m \in Target, BranchProvisional(m) PROVE IInv'
    <2> DEFINE b == [branch[m] EXCEPT !.state = "proceeding"]
    <2>1. b \in ClientTransaction /\ b.state = "proceeding" /\ b.link = branch[m].link
          /\ b.expiry = branch[m].expiry
        BY <1>a DEF ClientTransaction
    <2> HIDE DEF b
    <2>2. /\ branch' = Set(m, b) /\ branch[m].link = "up"
          /\ branch[m].state \in {"calling", "proceeding"}
          /\ UNCHANGED <<conf, dns, size, num, ct, ist, canceled, blacklist, dropped, raised>>
        BY <1>3 DEF BranchProvisional, b
    <2>3. drop' \in BOOLEAN /\ (drop' => drop)
        <3>1. drop' = drop \/ drop' = FALSE
            BY <1>3 DEF BranchProvisional
        <3>2. drop \in BOOLEAN
            BY <1>0 DEF TypeOK
        <3>3. CASE drop' = drop
            BY <3>2, <3>3
        <3>4. CASE drop' = FALSE
            BY <3>4
        <3>5. QED
            BY <3>1, <3>3, <3>4
    <2>4. Ordered => m = num
        BY <1>0, <2>2 DEF OnlyCurrentBranch
    <2>5. /\ ist' \in {"proceeding", "completed", "accepted", "terminated"}
          /\ dropped' \in BOOLEAN /\ canceled' \in BOOLEAN
          /\ drop' => ist' # "proceeding" \/ dropped'
        BY <1>0, <2>2, <2>3 DEF TypeOK, CallerLookedAfter
    <2>6. QED
        BY <2>1, <2>2, <2>3, <2>4, <2>5, BranchStep
<1>4. ASSUME NEW m \in Target, NEW code, BranchFailure(m, code) PROVE IInv'
    <2>1. PICK ended \in {"completed", "terminated"} :
            LET branches == Set(m, [branch[m] EXCEPT !.state = ended, !.expiry = FALSE])
                runs == ist = "proceeding" /\ ~canceled
            IN IF runs /\ code = "503" /\ conf.dns_failover_on_503
               THEN TryNextTarget(size, branches, blacklist)
               ELSE /\ branch' = branches
                    /\ \E script \in {FALSE, runs} : UnlessDropped(script, ReplyFailure)
                    /\ UNCHANGED <<size, num, ct, raised>>
        BY <1>4 DEF BranchFailure
    <2> DEFINE b == [branch[m] EXCEPT !.state = ended, !.expiry = FALSE]
    <2>2. b \in ClientTransaction /\ b.state = ended /\ b.link = branch[m].link /\ b.expiry = FALSE
        BY <1>a DEF ClientTransaction
    <2>3. \/ ist = "proceeding" /\ TryNextTarget(size, Set(m, b), blacklist)
          \/ /\ branch' = Set(m, b) /\ UNCHANGED <<size, num, ct, raised>>
             /\ \E script \in BOOLEAN : UnlessDropped(script, ReplyFailure)
        BY <2>1
    <2> HIDE DEF b
    <2>4. /\ branch[m].link = "up" /\ branch[m].state \in {"calling", "proceeding"}
          /\ UNCHANGED <<conf, dns, canceled, blacklist>>
        BY <1>4 DEF BranchFailure
    <2>5. Ordered => m = num
        BY <1>0, <2>4 DEF OnlyCurrentBranch
    <2>6. CASE ist = "proceeding" /\ TryNextTarget(size, Set(m, b), blacklist)
        <3>1. blacklist' \in SUBSET Target
            BY <1>0, <2>4 DEF TypeOK
        <3>2. QED
            BY <2>2, <2>4, <2>5, <2>6, <3>1, FailoverStep
    <2>7. CASE /\ branch' = Set(m, b) /\ UNCHANGED <<size, num, ct, raised>>
               /\ \E script \in BOOLEAN : UnlessDropped(script, ReplyFailure)
        <3>1. /\ ist' \in {"proceeding", "completed", "accepted", "terminated"}
              /\ drop' = FALSE /\ dropped' \in BOOLEAN
              /\ ist' # "proceeding" \/ dropped'
              /\ ist' = "proceeding" => ist = "proceeding"
              /\ dropped => dropped'
            BY <1>0, <2>7, ReplyFacts DEF UnlessDropped, ReplyFailure, TypeOK
        <3>2. QED
            BY <1>0, <2>2, <2>4, <2>5, <2>7, <3>1, BranchStep DEF TypeOK
    <2>8. QED
        BY <2>3, <2>6, <2>7
<1>5. ASSUME NEW m \in Target, BranchSuccess(m) PROVE IInv'
    <2> DEFINE b == [branch[m] EXCEPT !.state = "accepted", !.expiry = FALSE]
    <2>1. /\ b \in ClientTransaction /\ b.state = "accepted"
          /\ b.link = branch[m].link /\ b.expiry = FALSE
        BY <1>a DEF ClientTransaction
    <2> HIDE DEF b
    <2>2. /\ branch' = Set(m, b) /\ branch[m].link = "up"
          /\ branch[m].state \in {"calling", "proceeding", "accepted"}
          /\ \E script \in BOOLEAN : UnlessDropped(script, ReplySuccess)
          /\ UNCHANGED <<conf, dns, size, num, ct, canceled, blacklist, raised>>
        BY <1>5 DEF BranchSuccess, b
    <2>3. Ordered => m = num
        BY <1>0, <2>2 DEF OnlyCurrentBranch
    <2>4. /\ ist' \in {"proceeding", "completed", "accepted", "terminated"}
          /\ drop' = FALSE /\ dropped' \in BOOLEAN
          /\ ist' # "proceeding" \/ dropped'
          /\ ist' = "proceeding" => ist = "proceeding"
          /\ dropped => dropped'
        BY <1>0, <2>2, ReplyFacts DEF UnlessDropped, ReplySuccess, TypeOK
    <2>5. QED
        BY <1>0, <2>1, <2>2, <2>3, <2>4, BranchStep DEF TypeOK
<1>6. ASSUME NEW m \in Target, BranchLinkUp(m) PROVE IInv'
    <2> DEFINE b == [branch[m] EXCEPT !.link = "up"]
    <2>1. b \in ClientTransaction /\ b.state = branch[m].state /\ b.link = "up"
          /\ b.expiry = branch[m].expiry
        BY <1>a DEF ClientTransaction
    <2> HIDE DEF b
    <2>2. /\ branch' = Set(m, b) /\ branch[m].link = "pending"
          /\ UNCHANGED <<conf, dns, size, num, ct, ist, canceled, drop, blacklist, dropped, raised>>
        BY <1>6 DEF BranchLinkUp, b
    <2>3. branch[m].state # "none" /\ (branch[m].state = "accepted" => ~branch[m].expiry)
        BY <1>0, <1>b, <2>2 DEF BranchesMatchTargets
    <2>4. Ordered => m = num
        BY <1>0, <2>2 DEF OnlyCurrentBranch
    <2>5. QED
        BY <1>0, <2>1, <2>2, <2>3, <2>4, BranchStep DEF TypeOK, CallerLookedAfter
<1>c. ASSUME NEW m \in Target, branch[m].state # "none", NEW branches, TargetFailed(branches)
      PROVE  \E listed : TryNextTarget(size, branches, listed) /\ blacklist' \in SUBSET Target
    <2>1. num \in Target
        <3>1. m <= num
            BY <1>0, <1>c, NewBranchFacts DEF BranchesMatchTargets, TypeOK, Target
        <3>2. QED
            BY <1>0, <3>1 DEF TypeOK, Target
    <2>2. QED
        BY <1>0, <1>c, <2>1 DEF TargetFailed, TypeOK
<1>7. ASSUME NEW m \in Target, BranchTimerB(m) PROVE IInv'
    <2> DEFINE b == [branch[m] EXCEPT !.state = "terminated", !.expiry = FALSE]
    <2>1. b \in ClientTransaction /\ b.state = "terminated" /\ b.link = branch[m].link
          /\ b.expiry = FALSE
        BY <1>a DEF ClientTransaction
    <2> HIDE DEF b
    <2>2. /\ branch[m].state = "calling" /\ (Ordered => branch[m].link # "pending")
          /\ TargetFailed(Set(m, b))
          /\ UNCHANGED <<conf, dns, canceled>>
        BY <1>7 DEF BranchTimerB, b
    <2>3. PICK listed : TryNextTarget(size, Set(m, b), listed) /\ blacklist' \in SUBSET Target
        BY <1>c, <2>2
    <2>4. Ordered => m = num /\ ist \notin {"completed", "accepted"}
        BY <1>0, <2>2 DEF OnlyCurrentBranch
    <2>5. QED
        BY <2>1, <2>2, <2>3, <2>4, FailoverStep
<1>8. ASSUME NEW m \in Target, BranchLinkFailed(m) PROVE IInv'
    <2>1. /\ branch[m].link = "pending" /\ branch[m].state # "none"
          /\ (Ordered => branch[m].state = "calling")
          /\ UNCHANGED <<conf, dns, canceled>>
        BY <1>8, <1>b DEF BranchLinkFailed
    <2>2. Ordered => m = num /\ ist \notin {"completed", "accepted"}
        BY <1>0, <2>1 DEF OnlyCurrentBranch
    <2>3. CASE branch[m].state = "calling" \/ ~branch[m].cancel
        <3> DEFINE b == [branch[m] EXCEPT !.state = "terminated", !.link = "down", !.expiry = FALSE]
        <3>1. b \in ClientTransaction /\ b.state = "terminated" /\ b.link = "down"
              /\ b.expiry = FALSE
            BY <1>a DEF ClientTransaction
        <3> HIDE DEF b
        <3>2. TargetFailed(Set(m, b))
            BY <1>8, <2>3 DEF BranchLinkFailed, b
        <3>3. PICK listed : TryNextTarget(size, Set(m, b), listed) /\ blacklist' \in SUBSET Target
            BY <1>c, <2>1, <3>2
        <3>4. QED
            BY <2>1, <2>2, <3>1, <3>3, FailoverStep
    <2>4. CASE ~(branch[m].state = "calling" \/ ~branch[m].cancel)
        <3> DEFINE b == [branch[m] EXCEPT !.link = "down"]
        <3>1. b \in ClientTransaction /\ b.state = branch[m].state /\ b.link = "down"
              /\ b.expiry = branch[m].expiry
            BY <1>a DEF ClientTransaction
        <3> HIDE DEF b
        <3>2. branch' = Set(m, b) /\ UNCHANGED <<size, num, ct, ist, drop, blacklist, dropped, raised>>
            BY <1>8, <2>4 DEF BranchLinkFailed, b
        <3>3. /\ ist' \in {"proceeding", "completed", "accepted", "terminated"}
              /\ drop' \in BOOLEAN /\ dropped' \in BOOLEAN /\ canceled' \in BOOLEAN
              /\ drop' => ist' # "proceeding" \/ dropped'
              /\ branch[m].state = "accepted" => ~branch[m].expiry
            BY <1>0, <2>1, <3>2 DEF TypeOK, CallerLookedAfter, BranchesMatchTargets
        <3>4. QED
            BY <2>1, <2>2, <3>1, <3>2, <3>3, BranchStep
    <2>5. QED
        BY <2>3, <2>4
<1>9. ASSUME NEW m \in Target, BranchTimerC(m) PROVE IInv'
    <2> DEFINE b == [branch[m] EXCEPT !.cancel = TRUE, !.expiry = FALSE]
    <2>1. b \in ClientTransaction /\ b.state = branch[m].state /\ b.link = branch[m].link
          /\ b.expiry = FALSE
        BY <1>a DEF ClientTransaction
    <2> HIDE DEF b
    <2>2. /\ branch' = Set(m, b) /\ branch[m].expiry /\ (Ordered => branch[m].state # "calling")
          /\ UNCHANGED <<conf, dns, size, num, ct, canceled, blacklist, raised>>
        BY <1>9 DEF BranchTimerC, b
    <2>3. branch[m].state # "none" /\ (Ordered => m = num)
        BY <1>0, <1>b, <2>2 DEF OnlyCurrentBranch
    <2>4. /\ ist' \in {"proceeding", "completed", "accepted", "terminated"}
          /\ drop' \in BOOLEAN /\ dropped' \in BOOLEAN /\ canceled' \in BOOLEAN
          /\ ist' # "proceeding" \/ dropped'
          /\ ist' = "proceeding" => ist = "proceeding"
          /\ dropped => dropped'
        BY <1>0, <1>9, <2>2 DEF BranchTimerC, ReplyFailure, TypeOK, CallerLookedAfter
    <2>5. Ordered => (branch[m].link = "pending" => branch[m].state = "calling")
        BY <1>0 DEF OnlyCurrentBranch
    <2>6. QED
        BY <2>1, <2>2, <2>3, <2>4, <2>5, BranchStep
<1>10. ASSUME NEW m \in Target, BranchEnd(m) PROVE IInv'
    <2> DEFINE b == [branch[m] EXCEPT !.state = "terminated"]
    <2>1. b \in ClientTransaction /\ b.state = "terminated" /\ b.link = branch[m].link
          /\ b.expiry = branch[m].expiry
        BY <1>a DEF ClientTransaction
    <2> HIDE DEF b
    <2>2. /\ branch' = Set(m, b) /\ branch[m].state \in {"completed", "accepted", "proceeding"}
          /\ UNCHANGED <<conf, dns, size, num, ct, ist, canceled, drop, blacklist, dropped, raised>>
        BY <1>10 DEF BranchEnd, b
    <2>3. /\ ist' \in {"proceeding", "completed", "accepted", "terminated"}
          /\ drop' \in BOOLEAN /\ dropped' \in BOOLEAN /\ canceled' \in BOOLEAN
          /\ drop' => ist' # "proceeding" \/ dropped'
        BY <1>0, <2>2 DEF TypeOK, CallerLookedAfter
    <2>4. Ordered => (branch[m].expiry => m = num) /\ branch[m].link # "pending"
        BY <1>0, <2>2 DEF OnlyCurrentBranch
    <2>5. QED
        BY <2>1, <2>2, <2>3, <2>4, BranchStep
<1>11. CASE ReceiveCancel
    <2>1. /\ ist = "proceeding" /\ canceled' = TRUE
          /\ UNCHANGED <<conf, dns, size, num, ct, ist, drop, blacklist, dropped, raised>>
        BY <1>11 DEF ReceiveCancel
    <2>2. CASE ct = 0
        <3>1. branch' = branch
            BY <1>11, <2>2 DEF ReceiveCancel
        <3>2. canceled' \in BOOLEAN
            BY <2>1
        <3>3. TypeOK'
            BY <1>0, <2>1, <3>1, <3>2 DEF TypeOK
        <3>4. QED
            BY <1>0, <2>1, <3>1, <3>3
               DEF IInv, BranchesMatchTargets, CallerLookedAfter, OnlyCurrentBranch
    <2>3. CASE ct # 0
        <3>1. ct \in Target /\ branch[ct].state # "none"
            BY <1>0, <2>3 DEF TypeOK, Target, BranchesMatchTargets
        <3> DEFINE b == [branch[ct] EXCEPT !.cancel = TRUE]
        <3>2. b \in ClientTransaction /\ b.state = branch[ct].state /\ b.link = branch[ct].link
              /\ b.expiry = branch[ct].expiry
            BY <1>a, <3>1 DEF ClientTransaction
        <3> HIDE DEF b
        <3>3. branch' = Set(ct, b)
            BY <1>11, <2>3 DEF ReceiveCancel, b
        <3>4. /\ ist' \in {"proceeding", "completed", "accepted", "terminated"}
              /\ drop' \in BOOLEAN /\ dropped' \in BOOLEAN /\ canceled' \in BOOLEAN
              /\ drop' => ist' # "proceeding" \/ dropped'
              /\ branch[ct].state = "accepted" => ~branch[ct].expiry
            BY <1>0, <2>1, <3>1 DEF TypeOK, CallerLookedAfter, BranchesMatchTargets
        <3>5. Ordered =>
                /\ b.state \in {"calling", "proceeding", "accepted"} \/ b.expiry => ct = num
                /\ b.link = "pending" => b.state = "calling"
            BY <1>0, <3>1, <3>2 DEF OnlyCurrentBranch
        <3>6. QED
            BY <2>1, <3>1, <3>2, <3>3, <3>4, <3>5, BranchStep
    <2>4. QED
        BY <2>2, <2>3
<1>12. CASE ServerTransactionEnds
    BY <1>0, <1>12 DEF ServerTransactionEnds, IInv, TypeOK, BranchesMatchTargets,
       CallerLookedAfter, OnlyCurrentBranch
<1>13. ASSUME NEW t \in Target, BlacklistExpires(t) PROVE IInv'
    BY <1>0, <1>13 DEF BlacklistExpires, IInv, TypeOK, BranchesMatchTargets,
       CallerLookedAfter, OnlyCurrentBranch
<1>14. CASE UNCHANGED vars
    BY <1>0, <1>14 DEF vars, IInv, TypeOK, BranchesMatchTargets,
       CallerLookedAfter, OnlyCurrentBranch
<1>15. QED
    BY <1>1, <1>2, <1>d, <1>e, <1>3, <1>4, <1>5, <1>6, <1>7, <1>8, <1>9, <1>10, <1>11,
       <1>12, <1>13, <1>14 DEF Next, Dns, BranchTimers

-----------------------------------------------------------------------------
\* The inductive invariant holds in every reachable state.
THEOREM Invariance == Spec => []IInv
<1>1. Init => IInv
    BY InitIInv
<1>2. IInv /\ [Next]_vars => IInv'
    BY StepIInv
<1>3. QED
    BY <1>1, <1>2, PTL DEF Spec

\* Type correctness of the core, its branches and its server transaction.
THEOREM TypeCorrect == Spec => []TypeOK
<1>1. IInv => TypeOK
    BY DEF IInv
<1>2. QED
    BY <1>1, Invariance, PTL

\* no_more_targets, timer C and a forwarded response between them answer every
\* caller the script did not ask to leave alone, whatever order the timers have,
\* except where the DNS result holds no usable target and the handler raises.
THEOREM NobodyForgotten == Spec => []CallerNotForgotten
<1>1. IInv => CallerNotForgotten
    BY DEF IInv, CallerLookedAfter, CallerNotForgotten
<1>2. QED
    BY <1>1, Invariance, PTL

\* With the timers in their default order, try_next_target never starts a
\* second branch beside one that is still waiting.
THEOREM NoForking ==
    ASSUME Ordered PROVE Spec => []OneWaitingBranch
<1>1. ASSUME IInv PROVE OneWaitingBranch
    <2>1. Waiting \subseteq {num}
        BY <1>1 DEF IInv, OnlyCurrentBranch, Waiting
    <2>2. IsFiniteSet({num}) /\ Cardinality({num}) = 1
        BY FS_Singleton
    <2>3. Cardinality(Waiting) <= Cardinality({num})
        BY <2>1, <2>2, FS_Subset
    <2>4. QED
        BY <2>2, <2>3 DEF OneWaitingBranch
<1>2. QED
    BY <1>1, Invariance, PTL

\* With the timers in their default order, use_target creates no client
\* transaction for a caller that has got a final response.
THEOREM NoLateTarget ==
    ASSUME Ordered PROVE Spec => NoTargetAfterAnswer
<1>1. ASSUME IInv, [Next]_vars
      PROVE  [ct' # ct => ist \notin {"completed", "accepted"}]_vars
    <2> SUFFICES ASSUME Next, ct' # ct, ist \in {"completed", "accepted"} PROVE FALSE
        BY <1>1
    <2>1. /\ \A m \in Target : branch[m].state # "calling"
          /\ \A m \in Target : branch[m].link # "pending"
          /\ dns # "pending"
        BY <1>1 DEF IInv, OnlyCurrentBranch, BranchesMatchTargets
    <2>2. ASSUME NEW m \in Target, NEW code, BranchFailure(m, code) PROVE FALSE
        BY <2>2 DEF BranchFailure
    <2>3. QED
        BY <2>1, <2>2 DEF Next, Dns, DnsSucceeded, DnsFailed, DnsWithoutTargets,
           DnsSucceededAgain, UnusableTarget, NoMoreTargets, BranchProvisional,
           BranchSuccess, BranchLinkUp, BranchTimers, BranchTimerB, BranchTimerC,
           BranchEnd, BranchLinkFailed, ReceiveCancel, ServerTransactionEnds,
           BlacklistExpires
<1>2. QED
    BY <1>1, Invariance, PTL DEF Spec, NoTargetAfterAnswer

-----------------------------------------------------------------------------
\* try_next_target starts the client transaction of at most one target, which
\* had none, and leaves the others as they are.
LEMMA StartOrKeep ==
    ASSUME IInv, NEW n \in num..MaxTargets, NEW branches \in [Target -> ClientTransaction],
           NEW listed, TryNextTarget(n, branches, listed), NEW o \in Target
    PROVE  branch'[o] = branches[o] \/ Branch(o)!Start
<1> USE ProxyConstants
<1>0. TypeOK /\ num \in Nat /\ n \in Nat /\ n <= MaxTargets
    BY DEF IInv, TypeOK
<1>1. CASE \E next \in (num + 1)..n, link \in {"up", "pending"} :
              branch' = [branches EXCEPT ![next] = Started(link)]
    <2>1. PICK next \in (num + 1)..n, link \in {"up", "pending"} :
              branch' = [branches EXCEPT ![next] = Started(link)]
        BY <1>1
    <2>2. CASE o # next
        BY <2>1, <2>2
    <2>3. CASE o = next
        <3>1. branch[o] = NoBranch
            BY <1>0, <2>3 DEF IInv, BranchesMatchTargets, Target
        <3>2. branch'[o] = Started(link)
            BY <2>1, <2>3
        <3>3. QED
            BY <3>1, <3>2, NewBranchFacts DEF Branch!Start
    <2>4. QED
        BY <2>2, <2>3
<1>2. CASE branch' = branches
    BY <1>2
<1>3. QED
    BY <1>0, <1>1, <1>2, TryNextFacts

\* Every step of the core makes of each branch what an INVITE client
\* transaction can do, whatever order the timers have.
THEOREM Conformance == Spec => BranchesConform
<1>1. ASSUME IInv, [Next]_vars
      PROVE  [ConformingStep]_vars
    <2> SUFFICES ASSUME Next, NEW o \in Target, branch'[o] # branch[o]
                 PROVE  Branch(o)!BNext
        BY <1>1 DEF ConformingStep
    <2> USE ProxyConstants
    <2>0. TypeOK /\ BranchesMatchTargets /\ size \in num..MaxTargets /\ num \in Nat
        BY <1>1 DEF IInv, TypeOK
    <2>a. \A m \in Target : branch[m] \in ClientTransaction
        BY <2>0 DEF TypeOK
    <2>b. \A m \in Target, b \in ClientTransaction :
              /\ Set(m, b) \in [Target -> ClientTransaction]
              /\ Set(m, b)[o] = IF o = m THEN b ELSE branch[o]
        BY <2>0 DEF TypeOK, Set
    <2>1. ASSUME NEW n \in Target, DnsSucceeded(n) PROVE Branch(o)!BNext
        <3>1. n \in num..MaxTargets /\ branch \in [Target -> ClientTransaction]
              /\ TryNextTarget(n, branch, blacklist)
            BY <2>0, <2>1 DEF DnsSucceeded, BranchesMatchTargets, Target, TypeOK
        <3>2. QED
            BY <1>1, <3>1, StartOrKeep DEF Branch!BNext
    <2>2. CASE DnsFailed \/ DnsWithoutTargets \/ \E n \in Target : DnsSucceededAgain(n)
        BY <2>2 DEF DnsFailed, DnsWithoutTargets, DnsSucceededAgain, UnusableTarget, NoMoreTargets
    <2>3. ASSUME NEW m \in Target, BranchProvisional(m) PROVE Branch(o)!BNext
        <3> DEFINE b == [branch[m] EXCEPT !.state = "proceeding"]
        <3>1. b \in ClientTransaction /\ b.state = "proceeding" /\ b.link = branch[m].link
              /\ b.cancel = branch[m].cancel /\ b.expiry = branch[m].expiry
              /\ (branch[m].state = "proceeding" => b = branch[m])
            BY <2>a DEF ClientTransaction
        <3> HIDE DEF b
        <3>2. branch' = Set(m, b) /\ branch[m].link = "up"
              /\ branch[m].state \in {"calling", "proceeding"}
            BY <2>3 DEF BranchProvisional, b
        <3>3. o = m /\ branch'[o] = b /\ branch[o].state = "calling"
            BY <2>b, <3>1, <3>2
        <3>4. QED
            BY <3>1, <3>2, <3>3 DEF Branch!BNext, Branch!Provisional
    <2>4. ASSUME NEW m \in Target, NEW code, BranchFailure(m, code) PROVE Branch(o)!BNext
        <3>1. PICK ended \in {"completed", "terminated"} :
                LET branches == Set(m, [branch[m] EXCEPT !.state = ended, !.expiry = FALSE])
                IN TryNextTarget(size, branches, blacklist) \/ branch' = branches
            BY <2>4 DEF BranchFailure
        <3> DEFINE b == [branch[m] EXCEPT !.state = ended, !.expiry = FALSE]
        <3>2. b \in ClientTransaction /\ b.state = ended /\ b.link = branch[m].link
              /\ b.cancel = branch[m].cancel /\ b.expiry = FALSE
            BY <2>a DEF ClientTransaction
        <3>3. TryNextTarget(size, Set(m, b), blacklist) \/ branch' = Set(m, b)
            BY <3>1
        <3> HIDE DEF b
        <3>4. branch'[o] = Set(m, b)[o] \/ Branch(o)!Start
            BY <1>1, <2>0, <2>b, <3>2, <3>3, StartOrKeep
        <3>5. CASE branch'[o] = Set(m, b)[o]
            <4>1. o = m /\ branch'[o] = b
                BY <2>b, <3>2, <3>5
            <4>2. QED
                BY <2>4, <3>2, <4>1
                   DEF BranchFailure, Branch!BNext, Branch!Failure, Branch!Waiting
        <3>6. QED
            BY <3>4, <3>5 DEF Branch!BNext
    <2>5. ASSUME NEW m \in Target, BranchSuccess(m) PROVE Branch(o)!BNext
        <3> DEFINE b == [branch[m] EXCEPT !.state = "accepted", !.expiry = FALSE]
        <3>1. b \in ClientTransaction /\ b.state = "accepted" /\ b.link = branch[m].link
              /\ b.cancel = branch[m].cancel /\ b.expiry = FALSE
              /\ (branch[m].state = "accepted" /\ branch[m].expiry = FALSE => b = branch[m])
            BY <2>a DEF ClientTransaction
        <3> HIDE DEF b
        <3>2. branch' = Set(m, b) /\ branch[m].link = "up"
              /\ branch[m].state \in {"calling", "proceeding", "accepted"}
            BY <2>5 DEF BranchSuccess, b
        <3>3. o = m /\ branch'[o] = b
            BY <2>b, <3>1, <3>2
        <3>4. branch[o].state = "accepted" => branch[o].expiry = FALSE
            BY <2>0, <2>a DEF BranchesMatchTargets, ClientTransaction
        <3>5. branch[o].state \in {"calling", "proceeding"}
            BY <3>1, <3>2, <3>3, <3>4
        <3>6. QED
            BY <3>1, <3>2, <3>3, <3>5 DEF Branch!BNext, Branch!Success, Branch!Waiting
    <2>6. ASSUME NEW m \in Target, BranchLinkUp(m) PROVE Branch(o)!BNext
        <3> DEFINE b == [branch[m] EXCEPT !.link = "up"]
        <3>1. b \in ClientTransaction /\ b.state = branch[m].state /\ b.link = "up"
              /\ b.cancel = branch[m].cancel /\ b.expiry = branch[m].expiry
            BY <2>a DEF ClientTransaction
        <3> HIDE DEF b
        <3>2. branch' = Set(m, b) /\ branch[m].link = "pending"
            BY <2>6 DEF BranchLinkUp, b
        <3>3. o = m /\ branch'[o] = b
            BY <2>b, <3>1, <3>2
        <3>4. QED
            BY <3>1, <3>2, <3>3 DEF Branch!BNext, Branch!LinkUp
    <2>7. ASSUME NEW m \in Target, BranchTimerB(m) PROVE Branch(o)!BNext
        <3> DEFINE b == [branch[m] EXCEPT !.state = "terminated", !.expiry = FALSE]
        <3>1. b \in ClientTransaction /\ b.state = "terminated" /\ b.link = branch[m].link
              /\ b.cancel = branch[m].cancel /\ b.expiry = FALSE
            BY <2>a DEF ClientTransaction
        <3> HIDE DEF b
        <3>2. \E listed : TryNextTarget(size, Set(m, b), listed)
            BY <2>7 DEF BranchTimerB, TargetFailed, b
        <3>3. branch'[o] = Set(m, b)[o] \/ Branch(o)!Start
            BY <1>1, <2>0, <2>b, <3>1, <3>2, StartOrKeep
        <3>4. CASE branch'[o] = Set(m, b)[o]
            <4>1. o = m /\ branch'[o] = b
                BY <2>b, <3>1, <3>4
            <4>2. QED
                BY <2>7, <3>1, <4>1 DEF BranchTimerB, Branch!BNext, Branch!TimerB
        <3>5. QED
            BY <3>3, <3>4 DEF Branch!BNext
    <2>8. ASSUME NEW m \in Target, BranchLinkFailed(m) PROVE Branch(o)!BNext
        <3>1. branch[m].link = "pending" /\ (Ordered => branch[m].state = "calling")
            BY <2>8 DEF BranchLinkFailed
        <3>2. CASE branch[m].state = "calling" \/ ~branch[m].cancel
            <4> DEFINE b == [branch[m] EXCEPT !.state = "terminated", !.link = "down",
                                              !.expiry = FALSE]
            <4>1. b \in ClientTransaction /\ b.state = "terminated" /\ b.link = "down"
                  /\ b.cancel = branch[m].cancel /\ b.expiry = FALSE
                BY <2>a DEF ClientTransaction
            <4> HIDE DEF b
            <4>2. \E listed : TryNextTarget(size, Set(m, b), listed)
                BY <2>8, <3>2 DEF BranchLinkFailed, TargetFailed, b
            <4>3. branch'[o] = Set(m, b)[o] \/ Branch(o)!Start
                BY <1>1, <2>0, <2>b, <4>1, <4>2, StartOrKeep
            <4>4. CASE branch'[o] = Set(m, b)[o]
                <5>1. o = m /\ branch'[o] = b
                    BY <2>b, <4>1, <4>4
                <5>2. QED
                    BY <3>1, <3>2, <4>1, <5>1 DEF Branch!BNext, Branch!LinkFailed
            <4>5. QED
                BY <4>3, <4>4 DEF Branch!BNext
        <3>3. CASE ~(branch[m].state = "calling" \/ ~branch[m].cancel)
            <4> DEFINE b == [branch[m] EXCEPT !.link = "down"]
            <4>1. b \in ClientTransaction /\ b.state = branch[m].state /\ b.link = "down"
                  /\ b.cancel = branch[m].cancel /\ b.expiry = branch[m].expiry
                BY <2>a DEF ClientTransaction
            <4> HIDE DEF b
            <4>2. branch' = Set(m, b)
                BY <2>8, <3>3 DEF BranchLinkFailed, b
            <4>3. o = m /\ branch'[o] = b
                BY <2>b, <4>1, <4>2
            <4>4. QED
                BY <3>1, <3>3, <4>1, <4>3 DEF Branch!BNext, Branch!LinkFailed
        <3>4. QED
            BY <3>2, <3>3
    <2>9. ASSUME NEW m \in Target, BranchTimerC(m) PROVE Branch(o)!BNext
        <3> DEFINE b == [branch[m] EXCEPT !.cancel = TRUE, !.expiry = FALSE]
        <3>1. b \in ClientTransaction /\ b.state = branch[m].state /\ b.link = branch[m].link
              /\ b.cancel = TRUE /\ b.expiry = FALSE
            BY <2>a DEF ClientTransaction
        <3> HIDE DEF b
        <3>2. branch' = Set(m, b)
            BY <2>9 DEF BranchTimerC, b
        <3>3. o = m /\ branch'[o] = b
            BY <2>b, <3>1, <3>2
        <3>4. QED
            BY <2>9, <3>1, <3>3 DEF BranchTimerC, Branch!BNext, Branch!TimerC
    <2>10. ASSUME NEW m \in Target, BranchEnd(m) PROVE Branch(o)!BNext
        <3> DEFINE b == [branch[m] EXCEPT !.state = "terminated"]
        <3>1. b \in ClientTransaction /\ b.state = "terminated" /\ b.link = branch[m].link
              /\ b.cancel = branch[m].cancel /\ b.expiry = branch[m].expiry
            BY <2>a DEF ClientTransaction
        <3> HIDE DEF b
        <3>2. branch' = Set(m, b)
            BY <2>10 DEF BranchEnd, b
        <3>3. o = m /\ branch'[o] = b
            BY <2>b, <3>1, <3>2
        <3>4. QED
            BY <2>10, <3>1, <3>3 DEF BranchEnd, Branch!BNext, Branch!End
    <2>11. CASE ReceiveCancel
        <3>1. ct # 0 /\ branch' = Set(ct, [branch[ct] EXCEPT !.cancel = TRUE])
            BY <2>11 DEF ReceiveCancel
        <3>2. ct \in Target /\ branch[ct].state # "none"
            BY <2>0, <3>1 DEF TypeOK, Target, BranchesMatchTargets
        <3> DEFINE b == [branch[ct] EXCEPT !.cancel = TRUE]
        <3>3. b \in ClientTransaction /\ b.state = branch[ct].state /\ b.link = branch[ct].link
              /\ b.cancel = TRUE /\ b.expiry = branch[ct].expiry
            BY <2>a, <3>2 DEF ClientTransaction
        <3>4. o = ct /\ branch'[o] = b
            BY <2>b, <3>1, <3>2, <3>3
        <3> HIDE DEF b
        <3>5. QED
            BY <3>2, <3>3, <3>4 DEF Branch!BNext, Branch!DoCancel
    <2>12. CASE ServerTransactionEnds \/ \E t \in Target : BlacklistExpires(t)
        BY <2>12 DEF ServerTransactionEnds, BlacklistExpires
    <2>13. QED
        BY <2>1, <2>2, <2>3, <2>4, <2>5, <2>6, <2>7, <2>8, <2>9, <2>10, <2>11, <2>12
           DEF Next, Dns, BranchTimers
<1>2. QED
    BY <1>1, Invariance, PTL DEF Spec, BranchesConform
=============================================================================
