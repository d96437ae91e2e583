-------------------------- MODULE GvtEpochsProofs --------------------------
(***************************************************************************)
(* Proofs about GvtEpochs for any finite set of ranks, any clock width and *)
(* any bounds: IInv is inductive, and GvtSafe, TagInWindow,                *)
(* QuiescedMeansReceived and GvtMonotone follow from it.  GvtEpochs also   *)
(* implements the contract GvtService: IInv says what a concluded          *)
(* collective may promise; one more fact is needed, about the ranks'       *)
(* copies of the GVT.                                                      *)
(***************************************************************************)
EXTENDS GvtContract, FiniteSetTheorems, TLAPS

(* Counting a set of messages that grows by fresh ones adds the counts.    *)
LEMMA CardDisjoint ==
  ASSUME NEW S, NEW T, IsFiniteSet(S), IsFiniteSet(T), S \cap T = {}
  PROVE  /\ IsFiniteSet(S \cup T)
         /\ Cardinality(S \cup T) = Cardinality(S) + Cardinality(T)
         /\ Cardinality(T) \in Nat
<1>1. Cardinality(S \cap T) = 0
  BY FS_EmptySet
<1>2. Cardinality(S) \in Nat /\ Cardinality(T) \in Nat
  BY FS_CardinalityType
<1>3. /\ IsFiniteSet(S \cup T)
      /\ Cardinality(S \cup T)
           = Cardinality(S) + Cardinality(T) - Cardinality(S \cap T)
  BY FS_Union
<1>4. QED
  BY <1>1, <1>2, <1>3

(* The subsets of the sent messages that are counted are finite.           *)
LEMMA CountType ==
  ASSUME IsFiniteSet(sent), NEW S, S \subseteq sent
  PROVE  IsFiniteSet(S) /\ Cardinality(S) \in Nat
BY FS_Subset, FS_CardinalityType

-----------------------------------------------------------------------------
(* The initial states satisfy the invariant.                               *)
LEMMA InitInv == Init => IInv
<1> SUFFICES ASSUME Init PROVE IInv
  OBVIOUS
<1> USE ConstantsAssumption DEF Init
<1>1. TypeOK
  <2>1. pending \in [Ranks -> SUBSET EventTime]
    OBVIOUS
  <2>2. sent \subseteq Message /\ rcvd \subseteq sent /\ counted \subseteq rcvd
    OBVIOUS
  <2>3. Inf \in Time /\ Gvt0 \in Time
    BY DEF Time
  <2>4. QED
    BY <2>1, <2>2, <2>3 DEF TypeOK, Status
<1>2. CollInv
  BY DEF CollInv, Verdict
<1>3. MsgInv
  BY FS_EmptySet DEF MsgInv, InFlight
<1>4. CountInv
  <2>1. /\ \A r \in Ranks, e \in Nat : SentBy(r, e) = {} /\ RcvdBy(r, e) = {}
        /\ {m \in sent : m.tag = cepoch /\ m.src \in contrib} = {}
    BY DEF SentBy, RcvdBy
  <2>2. Cardinality({}) = 0
    BY FS_EmptySet
  <2>3. \A r \in Ranks : epoch[r] \in Nat /\ epoch[r]+1 \in Nat /\ epoch[r]+2 \in Nat
    OBVIOUS
  <2>4. \A r \in Ranks :
       /\ lsend0[r] = Cardinality(SentBy(r, epoch[r]))
       /\ lsend1[r] = Cardinality(SentBy(r, epoch[r] + 1))
       /\ lrecv0[r] = Cardinality(RcvdBy(r, epoch[r]))
       /\ lrecv1[r] = Cardinality(RcvdBy(r, epoch[r] + 1))
       /\ lrecv2[r] = Cardinality(RcvdBy(r, epoch[r] + 2))
    BY <2>1, <2>2, <2>3
  <2>5. QED
    BY <2>1, <2>2, <2>4 DEF CountInv
<1>5. CoverInv
  BY DEF CoverInv, Covered, Low, InFlight, EventTime, Time
<1>6. BoundInv
  BY DEF BoundInv, InFlight, EventTime, Time
<1>7. QED
  BY <1>1, <1>2, <1>3, <1>4, <1>5, <1>6 DEF IInv

-----------------------------------------------------------------------------
(* Ranks are in the epoch being counted or in the one before it.           *)
LEMMA EpochRange ==
  ASSUME IInv, NEW r \in Ranks
  PROVE  /\ epoch[r] \in Nat /\ cepoch \in Nat
         /\ epoch[r] = cepoch \/ (quiesced /\ epoch[r] = cepoch - 1)
BY DEF IInv, TypeOK, CollInv

(* Messages have the fields their type says.                               *)
LEMMA MessageType ==
  ASSUME IInv, NEW m \in sent
  PROVE  /\ m.id \in Nat /\ m.src \in Ranks /\ m.dst \in Ranks
         /\ m.tag \in Nat /\ m.t \in EventTime /\ m.t \in Time /\ m.t \in Int
BY ConstantsAssumption DEF IInv, TypeOK, Message, EventTime, Time

LEMMA Window == IInv => TagInWindow
<1> SUFFICES ASSUME IInv, NEW m \in InFlight
             PROVE  m.tag - epoch[m.dst] \in 0 .. 2
  BY DEF TagInWindow
<1>1. m \in sent
  BY DEF InFlight
<1>2. m.tag >= cepoch /\ m.tag <= epoch[m.src] + 1
  BY <1>1 DEF IInv, MsgInv
<1>3. QED
  BY <1>1, <1>2, MessageType, EpochRange

-----------------------------------------------------------------------------
(* A send counts fresh messages under the next epoch's tag.                *)
LEMMA SendInv ==
  ASSUME IInv, NEW r \in Ranks, NEW D \in SUBSET Ranks, NEW t \in EventTime,
         Send(r, D, t)
  PROVE  IInv'
<1> DEFINE new == {[id |-> nextId, src |-> r, dst |-> d, tag |-> epoch[r] + 1,
                    t |-> t] : d \in D}
<1>0. /\ lsend1' = [lsend1 EXCEPT ![r] = @ + Cardinality(new)]
      /\ lvt1' = [lvt1 EXCEPT ![r] = Least(@, t)]
      /\ sent' = sent \cup new
      /\ nextId' = nextId + 1
      /\ \E p \in pending[r] : p <= t
      /\ UNCHANGED <<rankVars, lvt0, lsend0, lrecv0, lrecv1, lrecv2, collVars,
                     pending, rcvd>>
  BY DEF Send
<1>a. TypeOK /\ CollInv /\ MsgInv /\ CountInv /\ CoverInv /\ BoundInv
  BY DEF IInv
<1>b. PICK p \in pending[r] : p <= t
  BY <1>0
<1>t. /\ t \in Nat /\ t \in Int /\ p \in Int /\ t \in Time /\ p \in EventTime
      /\ \A s \in Ranks : lvt0[s] \in Int /\ lvt1[s] \in Int /\ gvt1[s] \in Int
      /\ gvt \in Int /\ epoch[r] \in Nat /\ nextId \in Nat /\ cepoch \in Nat
  BY <1>a, ConstantsAssumption DEF TypeOK, EventTime, Time
<1>n. /\ \A m \in new : /\ m.id = nextId /\ m.src = r /\ m.tag = epoch[r] + 1
                        /\ m.t = t
      /\ new \subseteq Message
  BY <1>t DEF Message
<1>f. IsFiniteSet(new)
  <2> DEFINE g == [d \in D |-> [id |-> nextId, src |-> r, dst |-> d,
                                tag |-> epoch[r] + 1, t |-> t]]
  <2>1. g \in Surjection(D, new)
    BY DEF Surjection
  <2>2. IsFiniteSet(D)
    BY ConstantsAssumption, FS_Subset
  <2>3. QED
    BY <2>1, <2>2, FS_Surjection
<1>d. new \cap sent = {}
  BY <1>a, <1>n, <1>t, MessageType DEF MsgInv
<1> HIDE DEF new
<1>r. new \cap rcvd = {}
  BY <1>a, <1>d DEF TypeOK
<1>i. InFlight' = InFlight \cup new
  BY <1>0, <1>r DEF InFlight
<1>c. IsFiniteSet(sent) /\ Cardinality(new) \in Nat
  BY <1>a, <1>f, FS_CardinalityType DEF MsgInv
<1>l. /\ \A s \in Ranks : lvt1'[s] \in Time /\ lvt1'[s] <= lvt1[s]
      /\ lvt1'[r] <= t
      /\ \A s \in Ranks : lvt1'[s] = lvt1[s] \/ (s = r /\ lvt1'[s] = t)
  BY <1>0, <1>a, <1>t DEF TypeOK, Least
<1>1. TypeOK'
  <2>1. lvt1' \in [Ranks -> Time]
    BY <1>0, <1>a, <1>t DEF TypeOK, Least
  <2>2. lsend1' \in [Ranks -> Nat]
    BY <1>0, <1>a, <1>c DEF TypeOK
  <2>3. sent' \subseteq Message /\ rcvd' \subseteq sent' /\ nextId' \in Nat
    BY <1>0, <1>a, <1>n, <1>t DEF TypeOK
  <2>4. QED
    BY <1>0, <1>a, <2>1, <2>2, <2>3
       DEF TypeOK, rankVars, collVars
<1>2. CollInv'
  BY <1>0, <1>a DEF CollInv, rankVars, collVars
<1>3. MsgInv'
  <2>1. IsFiniteSet(sent')
    BY <1>0, <1>c, <1>f, FS_Union
  <2>2. \A m \in sent' : m.id < nextId' /\ m.tag <= epoch'[m.src] + 1
    BY <1>0, <1>a, <1>n, <1>t, MessageType DEF MsgInv, rankVars
  <2>3. epoch[r] + 1 >= cepoch
    BY <1>t, EpochRange
  <2>4. \A m \in InFlight' : m.tag >= cepoch'
    BY <1>0, <1>a, <1>n, <1>i, <2>3 DEF MsgInv, collVars
  <2>5. QED
    BY <2>1, <2>2, <2>4 DEF MsgInv
<1>4. CountInv'
  <2>1. \A s \in Ranks, e \in Nat :
          SentBy(s, e)' = IF s = r /\ e = epoch[r] + 1
                          THEN SentBy(s, e) \cup new ELSE SentBy(s, e)
    BY <1>0, <1>n DEF SentBy
  <2>2. \A s \in Ranks, e \in Nat : RcvdBy(s, e)' = RcvdBy(s, e)
    BY <1>0 DEF RcvdBy
  <2>3. Cardinality(SentBy(r, epoch[r] + 1) \cup new)
          = Cardinality(SentBy(r, epoch[r] + 1)) + Cardinality(new)
    <3>1. /\ IsFiniteSet(SentBy(r, epoch[r] + 1))
          /\ SentBy(r, epoch[r] + 1) \cap new = {}
      BY <1>c, <1>d, FS_Subset DEF SentBy
    <3>2. QED
      BY <3>1, <1>f, CardDisjoint
  <2>4. {m \in sent : m.tag = cepoch /\ m.src \in contrib}'
          = {m \in sent : m.tag = cepoch /\ m.src \in contrib}
    BY <1>0, <1>a, <1>n, <1>t DEF CollInv, collVars
  <2>5. \A s \in Ranks : epoch[s] \in Nat /\ epoch[s] + 1 \in Nat /\ epoch[s] + 2 \in Nat
                         /\ epoch[s] # epoch[s] + 1 /\ lsend1[s] \in Nat
    BY <1>a DEF TypeOK
  <2>6. \A s \in Ranks : /\ lsend0'[s] = Cardinality(SentBy(s, epoch[s])')
                         /\ lsend1'[s] = Cardinality(SentBy(s, epoch[s] + 1)')
    <3> SUFFICES ASSUME NEW s \in Ranks
                 PROVE  /\ lsend0'[s] = Cardinality(SentBy(s, epoch[s])')
                        /\ lsend1'[s] = Cardinality(SentBy(s, epoch[s] + 1)')
      OBVIOUS
    <3>1. /\ lsend0[s] = Cardinality(SentBy(s, epoch[s]))
          /\ lsend1[s] = Cardinality(SentBy(s, epoch[s] + 1))
      BY <1>a DEF CountInv
    <3>2. lsend0'[s] = Cardinality(SentBy(s, epoch[s])')
      BY <1>0, <2>1, <2>5, <3>1 DEF rankVars
    <3>3. CASE s = r
      BY <1>0, <1>a, <2>1, <2>3, <2>5, <3>1, <3>2, <3>3 DEF TypeOK, rankVars
    <3>4. CASE s # r
      BY <1>0, <1>a, <2>1, <2>5, <3>1, <3>2, <3>4 DEF TypeOK, rankVars
    <3>5. QED
      BY <3>3, <3>4
  <2>7. QED
    BY <1>0, <1>a, <2>2, <2>4, <2>5, <2>6 DEF CountInv, rankVars, collVars
<1>5. CoverInv'
  <2>1. \A x \in Int : Covered(x) => Covered(x)'
    BY <1>0, <1>a, <1>l, <1>t DEF Covered, Low, TypeOK, rankVars, collVars, Time
  <2>2. \A m \in sent' : /\ m.tag = epoch'[m.src] => lvt0'[m.src] <= m.t
                         /\ m.tag = epoch'[m.src] + 1 => lvt1'[m.src] <= m.t
    <3>1. \A m \in sent : /\ m.tag = epoch'[m.src] => lvt0'[m.src] <= m.t
                          /\ m.tag = epoch'[m.src] + 1 => lvt1'[m.src] <= m.t
      BY <1>0, <1>a, <1>l, <1>t, MessageType DEF CoverInv, rankVars, Time
    <3>2. QED
      BY <3>1, <1>0, <1>l, <1>n, <1>t DEF rankVars
  <2>3. Covered(t)'
    <3>1. CASE epoch[r] = cepoch
      <4>1. PICK s \in Ranks : Low(s) <= p
        BY <1>a, <3>1 DEF CoverInv, Covered
      <4>2. Low(s) <= t
        BY <4>1, <1>b, <1>t DEF Low
      <4>3. QED
        BY <4>2, <2>1, <1>t DEF Covered
    <3>2. CASE epoch[r] # cepoch
      BY <1>0, <1>l, <3>2 DEF Covered, Low, rankVars, collVars
    <3>3. QED
      BY <3>1, <3>2
  <2>4. \A m \in InFlight' : Covered(m.t)'
    <3>1. \A m \in InFlight : Covered(m.t)'
      BY <1>a, <2>1, MessageType DEF CoverInv, InFlight
    <3>2. \A m \in new : Covered(m.t)'
      BY <1>n, <2>3
    <3>3. QED
      BY <1>i, <3>1, <3>2
  <2>5. ASSUME NEW s \in Ranks, epoch'[s] = cepoch'
        PROVE  (\A q \in pending'[s] : Covered(q)') /\ Covered(lvt1[s])'
    <3>1. epoch[s] = cepoch
      BY <1>0, <2>5 DEF rankVars, collVars
    <3>2. (\A q \in pending[s] : Covered(q) /\ q \in Int) /\ Covered(lvt1[s])
      BY <1>a, <3>1, ConstantsAssumption DEF CoverInv, TypeOK, EventTime, Time
    <3>3. \A q \in pending'[s] : Covered(q)'
      BY <1>0, <2>1, <3>2
    <3>4. Covered(lvt1[s])'
      BY <1>l, <1>t, <2>1, <2>3, <3>2 DEF Covered
    <3>5. QED
      BY <3>3, <3>4
  <2>6. QED
    BY <2>2, <2>4, <2>5 DEF CoverInv
<1>6. BoundInv'
  <2>1. gvt <= p
    BY <1>a DEF BoundInv
  <2>2. gvt <= t
    BY <1>b, <1>t, <2>1
  <2>3. \A s \in Ranks : gvt <= lvt1'[s]
    BY <1>a, <1>l, <2>2 DEF BoundInv
  <2>4. QED
    BY <1>0, <1>a, <1>i, <1>n, <2>2, <2>3 DEF BoundInv, rankVars, collVars
<1>7. QED
  BY <1>1, <1>2, <1>3, <1>4, <1>5, <1>6 DEF IInv

-----------------------------------------------------------------------------
(* A message counts itself under its own tag at its destination.           *)
LEMMA ReceiveInv ==
  ASSUME IInv, NEW m \in InFlight, Receive(m)
  PROVE  IInv'
<1> DEFINE d == m.dst
           i == m.tag - epoch[d]
<1>a. TypeOK /\ CollInv /\ MsgInv /\ CountInv /\ CoverInv /\ BoundInv
  BY DEF IInv
<1>m. /\ m \in sent /\ m \notin rcvd /\ d \in Ranks /\ m.t \in EventTime
      /\ m.tag \in Nat /\ epoch[d] \in Nat
  BY <1>a, MessageType DEF InFlight, TypeOK
<1>w. i \in 0 .. 2
  BY Window DEF TagInWindow
<1>0. /\ rcvd' = rcvd \cup {m}
      /\ lrecv0' = IF i = 0 THEN [lrecv0 EXCEPT ![d] = @ + 1] ELSE lrecv0
      /\ lrecv1' = IF i = 1 THEN [lrecv1 EXCEPT ![d] = @ + 1] ELSE lrecv1
      /\ lrecv2' = IF i = 2 THEN [lrecv2 EXCEPT ![d] = @ + 1] ELSE lrecv2
      /\ pending' = [pending EXCEPT ![d] = @ \cup {m.t}]
      /\ UNCHANGED <<rankVars, lvt0, lvt1, lsend0, lsend1, collVars, sent,
                     nextId>>
  BY DEF Receive
<1>i. InFlight' = InFlight \ {m}
  BY <1>0 DEF InFlight
<1>1. TypeOK'
  <2>1. \A f \in [Ranks -> Nat], k \in Ranks :
          [f EXCEPT ![k] = @ + 1] \in [Ranks -> Nat]
    OBVIOUS
  <2>2. /\ lrecv0' \in [Ranks -> Nat] /\ lrecv1' \in [Ranks -> Nat]
        /\ lrecv2' \in [Ranks -> Nat]
    BY <1>0, <1>a, <1>m, <2>1 DEF TypeOK
  <2>3. pending' \in [Ranks -> SUBSET EventTime]
    BY <1>0, <1>a, <1>m DEF TypeOK
  <2>4. QED
    BY <1>0, <1>a, <1>m, <2>2, <2>3 DEF TypeOK, rankVars, collVars
<1>2. CollInv'
  BY <1>0, <1>a DEF CollInv, rankVars, collVars
<1>3. MsgInv'
  BY <1>0, <1>a, <1>i DEF MsgInv, rankVars, collVars
<1>4. CountInv'
  <2>1. \A s \in Ranks, e \in Nat :
          RcvdBy(s, e)' = IF s = d /\ e = m.tag
                          THEN RcvdBy(s, e) \cup {m} ELSE RcvdBy(s, e)
    BY <1>0 DEF RcvdBy
  <2>2. \A s \in Ranks, e \in Nat : SentBy(s, e)' = SentBy(s, e)
    BY <1>0 DEF SentBy
  <2>3. \A s \in Ranks, e \in Nat : RcvdBy(s, e) \subseteq sent
    BY <1>a DEF RcvdBy, TypeOK
  <2>4. Cardinality(RcvdBy(d, m.tag) \cup {m}) = Cardinality(RcvdBy(d, m.tag)) + 1
    <3>1. IsFiniteSet(RcvdBy(d, m.tag))
      BY <1>a, <1>m, <2>3, FS_Subset DEF MsgInv
    <3>2. m \notin RcvdBy(d, m.tag)
      BY <1>m DEF RcvdBy
    <3>3. QED
      BY <3>1, <3>2, FS_AddElement
  <2>5. \A s \in Ranks : epoch[s] \in Nat /\ epoch[s] + 1 \in Nat /\ epoch[s] + 2 \in Nat
    BY <1>a DEF TypeOK
  <2>6. \A s \in Ranks : /\ lrecv0'[s] = Cardinality(RcvdBy(s, epoch[s])')
                         /\ lrecv1'[s] = Cardinality(RcvdBy(s, epoch[s] + 1)')
                         /\ lrecv2'[s] = Cardinality(RcvdBy(s, epoch[s] + 2)')
    <3> SUFFICES ASSUME NEW s \in Ranks
                 PROVE  /\ lrecv0'[s] = Cardinality(RcvdBy(s, epoch[s])')
                        /\ lrecv1'[s] = Cardinality(RcvdBy(s, epoch[s] + 1)')
                        /\ lrecv2'[s] = Cardinality(RcvdBy(s, epoch[s] + 2)')
      OBVIOUS
    <3>1. /\ lrecv0[s] = Cardinality(RcvdBy(s, epoch[s]))
          /\ lrecv1[s] = Cardinality(RcvdBy(s, epoch[s] + 1))
          /\ lrecv2[s] = Cardinality(RcvdBy(s, epoch[s] + 2))
      BY <1>a DEF CountInv
    <3>2. CASE s # d
      BY <1>0, <1>a, <1>m, <2>1, <2>5, <3>1, <3>2 DEF TypeOK, rankVars
    <3>3. CASE s = d
      <4>1. epoch'[d] = epoch[d]
        BY <1>0 DEF rankVars
      <4>2. CASE i = 0
        <5>1. m.tag = epoch[d] /\ lrecv0'[d] = lrecv0[d] + 1
              /\ lrecv1' = lrecv1 /\ lrecv2' = lrecv2
          BY <4>2, <1>0, <1>a, <1>m DEF TypeOK
        <5>2. /\ RcvdBy(d, epoch[d])' = RcvdBy(d, m.tag) \cup {m}
              /\ RcvdBy(d, epoch[d] + 1)' = RcvdBy(d, epoch[d] + 1)
              /\ RcvdBy(d, epoch[d] + 2)' = RcvdBy(d, epoch[d] + 2)
          BY <5>1, <4>1, <1>m, <2>1, <2>5
        <5>3. QED
          BY <5>1, <5>2, <4>1, <2>4, <3>1, <3>3
      <4>3. CASE i = 1
        <5>1. m.tag = epoch[d] + 1 /\ lrecv1'[d] = lrecv1[d] + 1
              /\ lrecv0' = lrecv0 /\ lrecv2' = lrecv2
          BY <4>3, <1>0, <1>a, <1>m DEF TypeOK
        <5>2. /\ RcvdBy(d, epoch[d])' = RcvdBy(d, epoch[d])
              /\ RcvdBy(d, epoch[d] + 1)' = RcvdBy(d, m.tag) \cup {m}
              /\ RcvdBy(d, epoch[d] + 2)' = RcvdBy(d, epoch[d] + 2)
          BY <5>1, <4>1, <1>m, <2>1, <2>5
        <5>3. QED
          BY <5>1, <5>2, <4>1, <2>4, <3>1, <3>3
      <4>4. CASE i = 2
        <5>1. m.tag = epoch[d] + 2 /\ lrecv2'[d] = lrecv2[d] + 1
              /\ lrecv0' = lrecv0 /\ lrecv1' = lrecv1
          BY <4>4, <1>0, <1>a, <1>m DEF TypeOK
        <5>2. /\ RcvdBy(d, epoch[d])' = RcvdBy(d, epoch[d])
              /\ RcvdBy(d, epoch[d] + 1)' = RcvdBy(d, epoch[d] + 1)
              /\ RcvdBy(d, epoch[d] + 2)' = RcvdBy(d, m.tag) \cup {m}
          BY <5>1, <4>1, <1>m, <2>1, <2>5
        <5>3. QED
          BY <5>1, <5>2, <4>1, <2>4, <3>1, <3>3
      <4>5. QED
        BY <1>w, <4>2, <4>3, <4>4
    <3>4. QED
      BY <3>2, <3>3
  <2>7. \A s \in Ranks : /\ lsend0'[s] = Cardinality(SentBy(s, epoch[s])')
                         /\ lsend1'[s] = Cardinality(SentBy(s, epoch[s] + 1)')
    BY <1>0, <1>a, <2>2, <2>5 DEF CountInv, rankVars
  <2>8. {x \in sent : x.tag = cepoch /\ x.src \in contrib}'
          = {x \in sent : x.tag = cepoch /\ x.src \in contrib}
    BY <1>0 DEF collVars
  <2>9. QED
    BY <1>0, <1>a, <2>6, <2>7, <2>8 DEF CountInv, collVars
<1>5. CoverInv'
  <2>1. \A x : Covered(x) <=> Covered(x)'
    BY <1>0 DEF Covered, Low, rankVars, collVars
  <2>2. Covered(m.t)'
    BY <1>a, <2>1 DEF CoverInv
  <2>3. ASSUME NEW s \in Ranks, epoch'[s] = cepoch'
        PROVE  (\A q \in pending[s] : Covered(q))' /\ Covered(lvt1[s])'
    <3>1. epoch[s] = cepoch /\ lvt1'[s] = lvt1[s]
      BY <1>0, <2>3 DEF rankVars, collVars
    <3>2. (\A q \in pending[s] : Covered(q)) /\ Covered(lvt1[s])
      BY <1>a, <3>1 DEF CoverInv
    <3>3. \A q \in pending'[s] : q \in pending[s] \/ q = m.t
      BY <1>0, <1>a DEF TypeOK
    <3>4. \A q \in pending'[s] : Covered(q)'
      BY <2>1, <2>2, <3>2, <3>3
    <3>5. Covered(lvt1[s])'
      BY <2>1, <3>1, <3>2 DEF Covered
    <3>6. QED
      BY <3>4, <3>5
  <2>4. \A x \in InFlight' : Covered(x.t)'
    BY <1>a, <1>i, <2>1 DEF CoverInv
  <2>5. \A x \in sent' : /\ x.tag = epoch'[x.src] => lvt0'[x.src] <= x.t
                         /\ x.tag = epoch'[x.src] + 1 => lvt1'[x.src] <= x.t
    BY <1>0, <1>a DEF CoverInv, rankVars
  <2>6. QED
    BY <2>3, <2>4, <2>5 DEF CoverInv
<1>6. BoundInv'
  <2>1. gvt <= m.t
    BY <1>a DEF BoundInv
  <2>2. \A s \in Ranks : \A q \in pending'[s] : gvt <= q
    BY <1>0, <1>a, <2>1 DEF BoundInv, TypeOK
  <2>3. QED
    BY <1>0, <1>a, <1>i, <2>2 DEF BoundInv, rankVars, collVars
<1>7. QED
  BY <1>1, <1>2, <1>3, <1>4, <1>5, <1>6 DEF IInv

-----------------------------------------------------------------------------
(* The client's own steps only move pending events forward in time.        *)
LEMMA LocalInv ==
  ASSUME IInv, NEW r \in Ranks, NEW p \in EventTime,
         Spawn(r, p) \/ Finish(r, p)
  PROVE  IInv'
<1>a. TypeOK /\ CollInv /\ MsgInv /\ CountInv /\ CoverInv /\ BoundInv
  BY DEF IInv
<1>0. UNCHANGED <<rankVars, countVars, collVars, sent, rcvd, nextId>>
  BY DEF Spawn, Finish
<1>t. /\ p \in Int
      /\ \A s \in Ranks : \A q \in pending[s] : q \in Int
      /\ \A s \in Ranks : lvt0[s] \in Int /\ lvt1[s] \in Int
      /\ gvt \in Int
  BY <1>a, ConstantsAssumption DEF TypeOK, EventTime, Time
<1>p. /\ pending' \in [Ranks -> SUBSET EventTime]
      /\ \A s \in Ranks : \A q \in pending'[s] :
           q \in Int /\ \E o \in pending[s] : o <= q
  <2>1. CASE Spawn(r, p)
    BY <1>a, <1>t, <2>1 DEF TypeOK, Spawn
  <2>2. CASE Finish(r, p)
    BY <1>a, <1>t, <2>2 DEF TypeOK, Finish
  <2>3. QED
    BY <2>1, <2>2
<1>u. InFlight' = InFlight
  BY <1>0 DEF InFlight
<1>1. TypeOK'
  BY <1>0, <1>a, <1>p DEF TypeOK, rankVars, countVars, collVars
<1>2. CollInv'
  BY <1>0, <1>a DEF CollInv, rankVars, collVars
<1>3. MsgInv'
  BY <1>0, <1>a, <1>u DEF MsgInv, rankVars, collVars
<1>4. CountInv'
  BY SMTT(30), <1>0, <1>a DEF CountInv, SentBy, RcvdBy, rankVars, countVars, collVars
<1>5. CoverInv'
  <2>1. \A x : Covered(x) <=> Covered(x)'
    BY <1>0 DEF Covered, Low, rankVars, countVars, collVars
  <2>2. ASSUME NEW s \in Ranks, epoch[s] = cepoch, NEW q \in pending'[s]
        PROVE  Covered(q)
    <3>1. PICK o \in pending[s] : o <= q
      BY <1>p
    <3>2. Covered(o)
      BY <1>a, <2>2 DEF CoverInv
    <3>3. PICK w \in Ranks : Low(w) <= o
      BY <3>2 DEF Covered
    <3>4. Low(w) <= q
      BY <3>1, <3>3, <1>t, <1>p DEF Low
    <3>5. QED
      BY <3>4 DEF Covered
  <2>3. \A s \in Ranks : epoch'[s] = cepoch' =>
          (\A q \in pending[s] : Covered(q))' /\ Covered(lvt1[s])'
    <3>1. \A s \in Ranks : epoch'[s] = cepoch' => Covered(lvt1[s])'
      BY <1>0, <1>a DEF CoverInv, Covered, Low, rankVars, countVars, collVars
    <3>2. QED
      BY <1>0, <2>1, <2>2, <3>1 DEF rankVars, collVars
  <2>4. \A x \in InFlight' : Covered(x.t)'
    BY <1>a, <1>u, <2>1 DEF CoverInv
  <2>5. QED
    BY <1>0, <1>a, <2>3, <2>4 DEF CoverInv, rankVars, countVars
<1>6. BoundInv'
  <2>1. \A s \in Ranks : \A q \in pending'[s] : gvt <= q
    BY <1>a, <1>p, <1>t DEF BoundInv
  <2>2. QED
    BY <1>0, <1>a, <1>u, <2>1 DEF BoundInv, rankVars, countVars, collVars
<1>7. QED
  BY <1>1, <1>2, <1>3, <1>4, <1>5, <1>6 DEF IInv

-----------------------------------------------------------------------------
(* advance() shows the client what it already had.                         *)
LEMMA AdvanceInv ==
  ASSUME IInv, NEW r \in Ranks, Advance(r)
  PROVE  IInv'
<1>a. TypeOK /\ CollInv /\ MsgInv /\ CountInv /\ CoverInv /\ BoundInv
  BY DEF IInv
<1>0. /\ status0' = [status0 EXCEPT ![r] = status1[r]]
      /\ gvt0' = [gvt0 EXCEPT ![r] = gvt1[r]]
      /\ UNCHANGED <<status1, gvt1, epoch, countVars, collVars, clientVars>>
  BY DEF Advance
<1>1. TypeOK'
  <2>1. status0' \in [Ranks -> Status] /\ gvt0' \in [Ranks -> Time]
    BY <1>0, <1>a DEF TypeOK
  <2>2. QED
    BY <1>0, <1>a, <2>1 DEF TypeOK, countVars, collVars, clientVars
<1>2. CollInv'
  BY <1>0, <1>a DEF CollInv, TypeOK, collVars, Verdict
<1>3. MsgInv'
  BY <1>0, <1>a DEF MsgInv, InFlight, collVars, clientVars
<1>4. CountInv'
  <2>1. \A s \in Ranks : \A e : SentBy(s, e)' = SentBy(s, e) /\ RcvdBy(s, e)' = RcvdBy(s, e)
    BY <1>0 DEF SentBy, RcvdBy, clientVars
  <2>2. {m \in sent : m.tag = cepoch /\ m.src \in contrib}'
          = {m \in sent : m.tag = cepoch /\ m.src \in contrib}
    BY <1>0 DEF collVars, clientVars
  <2>3. QED
    BY <1>0, <1>a, <2>1, <2>2 DEF CountInv, countVars, collVars
<1>5. CoverInv'
  BY <1>0, <1>a
     DEF CoverInv, Covered, Low, InFlight, countVars, collVars, clientVars
<1>6. BoundInv'
  <2>1. \A s \in Ranks : gvt0'[s] <= gvt1'[s]
    BY <1>0, <1>a, ConstantsAssumption DEF BoundInv, TypeOK, Time
  <2>2. QED
    BY <1>0, <1>a, <2>1 DEF BoundInv, InFlight, countVars, collVars, clientVars
<1>7. QED
  BY <1>1, <1>2, <1>3, <1>4, <1>5, <1>6 DEF IInv

(* rdxn_down brings a rank the result the root already has.                *)
LEMMA DeliverInv ==
  ASSUME IInv, NEW r \in Ranks, Deliver(r)
  PROVE  IInv'
<1>a. TypeOK /\ CollInv /\ MsgInv /\ CountInv /\ CoverInv /\ BoundInv
  BY DEF IInv
<1>0. /\ r \in undelivered
      /\ undelivered' = undelivered \ {r}
      /\ status1' = [status1 EXCEPT ![r] = Verdict(quiesced)]
      /\ gvt1' = IF quiesced THEN [gvt1 EXCEPT ![r] = gvt] ELSE gvt1
      /\ UNCHANGED <<status0, gvt0, epoch, countVars, contrib, accLvt, accSend,
                     accRecv, quiesced, gvt, cepoch, counted, clientVars>>
  BY DEF Deliver
<1>1. TypeOK'
  <2>1. status1' \in [Ranks -> Status]
    BY <1>0, <1>a DEF TypeOK, Status, Verdict
  <2>2. gvt1' \in [Ranks -> Time]
    BY <1>0, <1>a DEF TypeOK
  <2>3. QED
    BY <1>0, <1>a, <2>1, <2>2 DEF TypeOK, countVars, clientVars
<1>2. CollInv'
  BY <1>0, <1>a DEF CollInv, TypeOK, Verdict
<1>3. MsgInv'
  BY <1>0, <1>a DEF MsgInv, InFlight, clientVars
<1>4. CountInv'
  <2>1. \A s \in Ranks : \A e : SentBy(s, e)' = SentBy(s, e) /\ RcvdBy(s, e)' = RcvdBy(s, e)
    BY <1>0 DEF SentBy, RcvdBy, clientVars
  <2>2. {m \in sent : m.tag = cepoch /\ m.src \in contrib}'
          = {m \in sent : m.tag = cepoch /\ m.src \in contrib}
    BY <1>0 DEF clientVars
  <2>3. QED
    BY <1>0, <1>a, <2>1, <2>2 DEF CountInv, countVars
<1>5. CoverInv'
  BY <1>0, <1>a DEF CoverInv, Covered, Low, InFlight, countVars, clientVars
<1>6. BoundInv'
  <2>1. \A s \in Ranks : /\ gvt0[s] \in Int /\ gvt1[s] \in Int /\ gvt \in Int
                         /\ gvt0[s] <= gvt1[s] /\ gvt1[s] <= gvt
    BY <1>a, ConstantsAssumption DEF BoundInv, TypeOK, Time
  <2>2. \A s \in Ranks : gvt1'[s] = gvt1[s] \/ gvt1'[s] = gvt
    BY <1>0, <1>a DEF TypeOK
  <2>3. \A s \in Ranks : gvt0[s] <= gvt1'[s] /\ gvt1'[s] <= gvt
    BY <2>1, <2>2
  <2>4. QED
    BY <1>0, <1>a, <2>3 DEF BoundInv, InFlight, countVars, clientVars
<1>7. QED
  BY <1>1, <1>2, <1>3, <1>4, <1>5, <1>6 DEF IInv

-----------------------------------------------------------------------------
(* What a rank answers for after it has begun a collective, in terms of    *)
(* the epoch the collective counts.                                        *)
Low2(s) == IF epoch'[s] = cepoch THEN lvt0'[s] ELSE lvt1'[s]

(* The first half of coll_begin: the rank is in the epoch being counted,   *)
(* its counters have moved with it, and what was covered still is.         *)
LEMMA Enter ==
  ASSUME IInv, NEW r \in Ranks, NEW lvt \in Time,
         status0[r] # "reducing", status0[r] = status1[r],
         IsLvt(r, lvt), EnterEpoch(r, lvt), UNCHANGED <<sent, rcvd, pending>>
  PROVE  /\ r \notin contrib /\ r \notin undelivered
         /\ epoch' = [epoch EXCEPT ![r] = cepoch]
         /\ \A s \in Ranks : Low2(s) <= Low(s) /\ Low2(s) \in Int /\ Low(s) \in Int
         /\ \A s \in Ranks : gvt <= lvt0'[s] /\ gvt <= lvt1'[s]
         /\ \A s \in Ranks : s # r => lvt0'[s] = lvt0[s] /\ lvt1'[s] = lvt1[s]
         /\ lvt0' \in [Ranks -> Time] /\ lvt1' \in [Ranks -> Time]
         /\ lsend0' \in [Ranks -> Nat] /\ lsend1' \in [Ranks -> Nat]
         /\ lrecv0' \in [Ranks -> Nat] /\ lrecv1' \in [Ranks -> Nat]
         /\ lrecv2' \in [Ranks -> Nat]
         /\ \A m \in sent :
              /\ m.tag <= epoch'[m.src] + 1
              /\ m.tag = epoch'[m.src] => lvt0'[m.src] <= m.t
              /\ m.tag = epoch'[m.src] + 1 => lvt1'[m.src] <= m.t
         /\ epoch[r] # cepoch => \A p \in pending[r] : lvt0'[r] <= p
         /\ lvt1'[r] = lvt1[r] \/ lvt1'[r] = Inf
         /\ epoch[r] # cepoch => lvt1'[r] = Inf
<1>a. TypeOK /\ CollInv /\ MsgInv /\ CountInv /\ CoverInv /\ BoundInv
  BY DEF IInv
<1>t. /\ \A s \in Ranks : /\ lvt0[s] \in Time /\ lvt1[s] \in Time
                          /\ lvt0[s] \in Int /\ lvt1[s] \in Int
                          /\ lvt0[s] <= Inf /\ lvt1[s] <= Inf
      /\ gvt \in Int /\ lvt \in Int /\ Inf \in Int /\ Inf \in Time /\ gvt <= Inf
      /\ \A p \in pending[r] : p \in Int
      /\ \A s \in Ranks : epoch[s] \in Nat
      /\ cepoch \in Nat
  BY <1>a, ConstantsAssumption DEF TypeOK, Time, EventTime
<1>1. /\ r \notin contrib /\ r \notin undelivered /\ status0[r] = Verdict(quiesced)
      /\ epoch[r] = IF quiesced THEN cepoch - 1 ELSE cepoch
  BY <1>a DEF CollInv
<1>g. gvt <= lvt
  BY <1>a, <1>t DEF BoundInv, IsLvt
<1>2. CASE status0[r] = "quiesced"
  <2>1. quiesced /\ epoch[r] = cepoch - 1 /\ epoch[r] # cepoch
    BY <1>1, <1>2, <1>t DEF Verdict
  <2>2. /\ epoch' = [epoch EXCEPT ![r] = @ + 1]
        /\ lvt0' = [lvt0 EXCEPT ![r] = Least(lvt, lvt1[r])]
        /\ lvt1' = [lvt1 EXCEPT ![r] = Inf]
        /\ lsend0' = [lsend0 EXCEPT ![r] = lsend1[r]]
        /\ lsend1' = [lsend1 EXCEPT ![r] = 0]
        /\ lrecv0' = [lrecv0 EXCEPT ![r] = lrecv1[r]]
        /\ lrecv1' = [lrecv1 EXCEPT ![r] = lrecv2[r]]
        /\ lrecv2' = [lrecv2 EXCEPT ![r] = 0]
    BY <1>2 DEF EnterEpoch
  <2>3. epoch' = [epoch EXCEPT ![r] = cepoch] /\ epoch'[r] = cepoch
    BY <2>1, <2>2, <1>a, <1>t DEF TypeOK
  <2>4. /\ lvt0'[r] <= lvt /\ lvt0'[r] <= lvt1[r] /\ lvt0'[r] \in Time
        /\ lvt0'[r] \in Int /\ lvt1'[r] = Inf
        /\ gvt <= lvt0'[r]
    BY <2>2, <1>a, <1>g, <1>t DEF TypeOK, Least, BoundInv
  <2>5. \A s \in Ranks : s # r => /\ lvt0'[s] = lvt0[s] /\ lvt1'[s] = lvt1[s]
                                  /\ epoch'[s] = epoch[s]
    BY <2>2, <1>a DEF TypeOK
  <2>6. \A s \in Ranks : Low2(s) <= Low(s) /\ Low2(s) \in Int /\ Low(s) \in Int
    BY <2>1, <2>3, <2>4, <2>5, <1>t DEF Low, Low2
  <2>7. \A s \in Ranks : gvt <= lvt0'[s] /\ gvt <= lvt1'[s]
    BY <2>4, <2>5, <1>a, <1>t DEF BoundInv
  <2>8. /\ lvt0' \in [Ranks -> Time] /\ lvt1' \in [Ranks -> Time]
    BY <2>2, <2>4, <1>a, <1>t DEF TypeOK
  <2>9. /\ lsend0' \in [Ranks -> Nat] /\ lsend1' \in [Ranks -> Nat]
        /\ lrecv0' \in [Ranks -> Nat] /\ lrecv1' \in [Ranks -> Nat]
        /\ lrecv2' \in [Ranks -> Nat]
    BY <2>2, <1>a DEF TypeOK
  <2>10. ASSUME NEW m \in sent
         PROVE  /\ m.tag <= epoch'[m.src] + 1
                /\ m.tag = epoch'[m.src] => lvt0'[m.src] <= m.t
                /\ m.tag = epoch'[m.src] + 1 => lvt1'[m.src] <= m.t
    <3>1. /\ m.src \in Ranks /\ m.tag \in Nat /\ m.t \in Int
          /\ m.tag <= epoch[m.src] + 1
          /\ m.tag = epoch[m.src] => lvt0[m.src] <= m.t
          /\ m.tag = epoch[m.src] + 1 => lvt1[m.src] <= m.t
      BY <1>a, MessageType DEF MsgInv, CoverInv
    <3>2. CASE m.src = r
      BY <3>1, <3>2, <2>1, <2>3, <2>4, <1>t
    <3>3. CASE m.src # r
      BY <3>1, <3>3, <2>5
    <3>4. QED
      BY <3>2, <3>3
  <2>11. \A p \in pending[r] : lvt0'[r] <= p
    BY <2>4, <1>t DEF IsLvt
  <2>12. QED
    BY <1>1, <2>3, <2>4, <2>5, <2>6, <2>7, <2>8, <2>9, <2>10, <2>11
<1>3. CASE status0[r] # "quiesced"
  <2>1. ~quiesced /\ epoch[r] = cepoch
    BY <1>1, <1>3 DEF Verdict
  <2>2. UNCHANGED <<epoch, countVars>>
    BY <1>3 DEF EnterEpoch
  <2>3. epoch' = [epoch EXCEPT ![r] = cepoch]
    BY <2>1, <2>2, <1>a DEF TypeOK
  <2>4. \A s \in Ranks : Low2(s) <= Low(s) /\ Low2(s) \in Int /\ Low(s) \in Int
    BY <2>2, <1>t DEF Low, Low2, countVars
  <2>5. QED
    BY <1>1, <1>a, <2>1, <2>2, <2>3, <2>4, MessageType
       DEF TypeOK, BoundInv, MsgInv, CoverInv, countVars
<1>4. QED
  BY <1>2, <1>3

(* The counters still count what their names say after the shift.          *)
LEMMA EnterCount ==
  ASSUME IInv, NEW r \in Ranks, NEW lvt \in Time,
         status0[r] # "reducing", status0[r] = status1[r],
         IsLvt(r, lvt), EnterEpoch(r, lvt), UNCHANGED <<sent, rcvd, pending>>
  PROVE  \A s \in Ranks :
           /\ lsend0'[s] = Cardinality(SentBy(s, epoch'[s]))
           /\ lsend1'[s] = Cardinality(SentBy(s, epoch'[s] + 1))
           /\ lrecv0'[s] = Cardinality(RcvdBy(s, epoch'[s]))
           /\ lrecv1'[s] = Cardinality(RcvdBy(s, epoch'[s] + 1))
           /\ lrecv2'[s] = Cardinality(RcvdBy(s, epoch'[s] + 2))
<1>a. TypeOK /\ CollInv /\ MsgInv /\ CountInv
  BY DEF IInv
<1>1. CASE status0[r] = "quiesced"
  <2> DEFINE e == epoch[r]
  <2>1. /\ epoch' = [epoch EXCEPT ![r] = @ + 1]
        /\ lsend0' = [lsend0 EXCEPT ![r] = lsend1[r]]
        /\ lsend1' = [lsend1 EXCEPT ![r] = 0]
        /\ lrecv0' = [lrecv0 EXCEPT ![r] = lrecv1[r]]
        /\ lrecv1' = [lrecv1 EXCEPT ![r] = lrecv2[r]]
        /\ lrecv2' = [lrecv2 EXCEPT ![r] = 0]
    BY <1>1 DEF EnterEpoch
  <2>2. /\ e \in Nat /\ epoch'[r] = e + 1 /\ epoch'[r] + 1 = e + 2
        /\ epoch'[r] + 2 = e + 3
    BY <2>1, <1>a DEF TypeOK
  <2>3. cepoch = e + 1
    BY <1>a, <1>1, EpochRange DEF CollInv, Verdict
  <2>4. SentBy(r, e + 2) = {}
    <3>1. \A m \in sent : m.src = r => m.tag <= e + 1 /\ m.tag \in Nat
      BY <1>a, MessageType DEF MsgInv
    <3>2. QED
      BY <3>1, <2>2 DEF SentBy
  <2>5. RcvdBy(r, e + 3) = {}
    <3>1. \A m \in sent : /\ m.tag <= epoch[m.src] + 1
                          /\ m.tag \in Nat /\ m.src \in Ranks
      BY <1>a, MessageType DEF MsgInv
    <3>2. \A s \in Ranks : epoch[s] \in Nat /\ epoch[s] <= e + 1
      BY <2>2, <2>3, EpochRange
    <3>3. \A m \in rcvd : m.tag # e + 3
      BY <3>1, <3>2, <2>2, <1>a DEF TypeOK
    <3>4. QED
      BY <3>3 DEF RcvdBy
  <2>6. Cardinality({}) = 0
    BY FS_EmptySet
  <2>7. /\ lsend1[r] = Cardinality(SentBy(r, e + 1))
        /\ lrecv1[r] = Cardinality(RcvdBy(r, e + 1))
        /\ lrecv2[r] = Cardinality(RcvdBy(r, e + 2))
    BY <1>a DEF CountInv
  <2>8. /\ lsend0'[r] = Cardinality(SentBy(r, epoch'[r]))
        /\ lsend1'[r] = Cardinality(SentBy(r, epoch'[r] + 1))
        /\ lrecv0'[r] = Cardinality(RcvdBy(r, epoch'[r]))
        /\ lrecv1'[r] = Cardinality(RcvdBy(r, epoch'[r] + 1))
        /\ lrecv2'[r] = Cardinality(RcvdBy(r, epoch'[r] + 2))
    BY <1>a, <2>1, <2>2, <2>4, <2>5, <2>6, <2>7 DEF TypeOK
  <2>9. \A s \in Ranks : s # r =>
          /\ lsend0'[s] = lsend0[s] /\ lsend1'[s] = lsend1[s]
          /\ lrecv0'[s] = lrecv0[s] /\ lrecv1'[s] = lrecv1[s]
          /\ lrecv2'[s] = lrecv2[s] /\ epoch'[s] = epoch[s]
    BY <1>a, <2>1 DEF TypeOK
  <2>10. QED
    BY <1>a, <2>8, <2>9 DEF CountInv
<1>2. CASE status0[r] # "quiesced"
  BY <1>a, <1>2 DEF EnterEpoch, CountInv, countVars
<1>3. QED
  BY <1>1, <1>2

-----------------------------------------------------------------------------
(* The covering argument across coll_begin, before any result is drawn.    *)
LEMMA EnterCover ==
  ASSUME IInv, NEW r \in Ranks, NEW lvt \in Time,
         status0[r] # "reducing", status0[r] = status1[r],
         IsLvt(r, lvt), EnterEpoch(r, lvt), UNCHANGED <<sent, rcvd, pending>>
  PROVE  /\ \A m \in InFlight : \E s \in Ranks : Low2(s) <= m.t
         /\ \A s \in Ranks : epoch'[s] = cepoch =>
              /\ \A p \in pending[s] : \E w \in Ranks : Low2(w) <= p
              /\ \E w \in Ranks : Low2(w) <= lvt1'[s]
<1>a. TypeOK /\ CoverInv
  BY DEF IInv
<1>t. /\ \A s \in Ranks : \A p \in pending[s] : p \in Int
      /\ \A m \in InFlight : m.t \in Int
      /\ \A s \in Ranks : lvt1[s] \in Int /\ lvt1'[s] \in Int /\ lvt0'[s] \in Int
      /\ \A s \in Ranks : lvt0'[s] <= Inf
      /\ Inf \in Int
      /\ \A s \in Ranks : epoch[s] \in Nat
      /\ cepoch \in Nat
  BY <1>a, ConstantsAssumption, Enter, MessageType
     DEF TypeOK, EventTime, Time, InFlight
<1>1. ASSUME NEW x \in Int, Covered(x)
      PROVE  \E s \in Ranks : Low2(s) <= x
  BY <1>1, Enter DEF Covered
<1>2. epoch'[r] = cepoch /\ Low2(r) = lvt0'[r]
  BY <1>a, Enter DEF TypeOK, Low2
<1>3. ASSUME NEW s \in Ranks, epoch'[s] = cepoch
      PROVE  /\ \A p \in pending[s] : \E w \in Ranks : Low2(w) <= p
             /\ \E w \in Ranks : Low2(w) <= lvt1'[s]
  <2>1. CASE epoch[s] = cepoch
    <3>1. (\A p \in pending[s] : Covered(p)) /\ Covered(lvt1[s])
      BY <1>a, <2>1 DEF CoverInv
    <3>2. \E w \in Ranks : Low2(w) <= lvt1[s]
      BY <1>1, <1>t, <3>1
    <3>3. lvt1'[s] = lvt1[s] \/ lvt1'[s] = Inf
      BY Enter
    <3>4. \E w \in Ranks : Low2(w) <= lvt1'[s]
      BY <1>2, <1>t, <3>2, <3>3
    <3>5. QED
      BY <1>1, <1>t, <3>1, <3>4
  <2>2. CASE epoch[s] # cepoch
    <3>1. s = r
      BY <1>3, <1>a, <2>2, Enter DEF TypeOK
    <3>2. (\A p \in pending[r] : lvt0'[r] <= p) /\ lvt1'[r] = Inf
      BY <2>2, <3>1, Enter
    <3>3. QED
      BY <1>2, <1>t, <3>1, <3>2
  <2>3. QED
    BY <2>1, <2>2
<1>4. \A m \in InFlight : \E s \in Ranks : Low2(s) <= m.t
  BY <1>1, <1>a, <1>t DEF CoverInv
<1>5. QED
  BY <1>3, <1>4

(* A contribution that leaves the collective open.                         *)
LEMMA CollBeginInv ==
  ASSUME IInv, NEW r \in Ranks, NEW lvt \in Time, CollBegin(r, lvt)
  PROVE  IInv'
<1>a. TypeOK /\ CollInv /\ MsgInv /\ CountInv /\ CoverInv /\ BoundInv
  BY DEF IInv
<1>0. /\ status0' = [status0 EXCEPT ![r] = "reducing"]
      /\ status1' = [status1 EXCEPT ![r] = "reducing"]
      /\ contrib' = contrib \cup {r}
      /\ accLvt' = Least(accLvt, lvt0'[r])
      /\ accSend' = accSend + lsend0'[r]
      /\ accRecv' = accRecv + lrecv0'[r]
      /\ counted' = counted \cup RcvdBy(r, epoch'[r])
      /\ UNCHANGED <<gvt0, gvt1, quiesced, gvt, undelivered, cepoch, clientVars>>
  BY DEF CollBegin
<1>b. /\ status0[r] # "reducing" /\ status0[r] = status1[r]
      /\ IsLvt(r, lvt) /\ EnterEpoch(r, lvt) /\ UNCHANGED <<sent, rcvd, pending>>
  BY DEF CollBegin, clientVars
<1>e. /\ r \notin contrib /\ r \notin undelivered
      /\ epoch' = [epoch EXCEPT ![r] = cepoch]
      /\ epoch'[r] = cepoch
      /\ \A s \in Ranks : s # r => epoch'[s] = epoch[s]
      /\ cepoch \in Nat
  BY <1>a, <1>b, Enter DEF TypeOK
<1>c. \A s \in Ranks :
        /\ lsend0'[s] = Cardinality(SentBy(s, epoch'[s]))
        /\ lsend1'[s] = Cardinality(SentBy(s, epoch'[s] + 1))
        /\ lrecv0'[s] = Cardinality(RcvdBy(s, epoch'[s]))
        /\ lrecv1'[s] = Cardinality(RcvdBy(s, epoch'[s] + 1))
        /\ lrecv2'[s] = Cardinality(RcvdBy(s, epoch'[s] + 2))
  BY <1>b, EnterCount
<1>l. /\ lvt0'[r] \in Time /\ lvt0'[r] \in Int /\ accLvt \in Int
      /\ \A s \in contrib : lvt0'[s] = lvt0[s] /\ lvt0[s] \in Int
      /\ gvt \in Int /\ gvt <= lvt0'[r]
  BY <1>a, <1>b, <1>e, ConstantsAssumption, Enter DEF TypeOK, Time
<1>s. InFlight' = InFlight
  BY <1>0 DEF InFlight, clientVars
<1>1. TypeOK'
  <2>1. /\ lvt0' \in [Ranks -> Time] /\ lvt1' \in [Ranks -> Time]
        /\ lsend0' \in [Ranks -> Nat] /\ lsend1' \in [Ranks -> Nat]
        /\ lrecv0' \in [Ranks -> Nat] /\ lrecv1' \in [Ranks -> Nat]
        /\ lrecv2' \in [Ranks -> Nat]
    BY <1>b, Enter
  <2>2. /\ status0' \in [Ranks -> Status] /\ status1' \in [Ranks -> Status]
        /\ epoch' \in [Ranks -> Nat]
    BY <1>0, <1>a, <1>e DEF TypeOK, Status
  <2>3. accLvt' \in Time /\ accSend' \in Nat /\ accRecv' \in Nat
    BY <1>0, <1>a, <1>l, <2>1 DEF TypeOK, Least
  <2>4. counted' \subseteq rcvd' /\ contrib' \subseteq Ranks
    BY <1>0, <1>a DEF TypeOK, RcvdBy, clientVars
  <2>5. QED
    BY <1>0, <1>a, <2>1, <2>2, <2>3, <2>4 DEF TypeOK, clientVars
<1>2. CollInv'
  BY <1>0, <1>a, <1>e DEF CollInv, TypeOK, Verdict
<1>3. MsgInv'
  BY <1>0, <1>a, <1>b, <1>s, Enter DEF MsgInv, clientVars
<1>4. CountInv'
  <2>1. \A s \in Ranks : \A e : SentBy(s, e)' = SentBy(s, e) /\ RcvdBy(s, e)' = RcvdBy(s, e)
    BY <1>0 DEF SentBy, RcvdBy, clientVars
  <2>2. accSend' = Cardinality({m \in sent' : m.tag = cepoch' /\ m.src \in contrib'})
    <3> DEFINE S == {m \in sent : m.tag = cepoch /\ m.src \in contrib}
    <3>1. {m \in sent' : m.tag = cepoch' /\ m.src \in contrib'} = S \cup SentBy(r, cepoch)
      BY <1>0 DEF SentBy, clientVars
    <3>2. S \cap SentBy(r, cepoch) = {}
      BY <1>e DEF SentBy
    <3>3. IsFiniteSet(S) /\ IsFiniteSet(SentBy(r, cepoch))
      BY <1>a, FS_Subset DEF MsgInv, SentBy
    <3>4. accSend = Cardinality(S) /\ lsend0'[r] = Cardinality(SentBy(r, cepoch))
      BY <1>a, <1>c, <1>e DEF CountInv
    <3>5. QED
      BY <1>0, <3>1, <3>2, <3>3, <3>4, CardDisjoint
  <2>3. accRecv' = Cardinality(counted')
    <3>1. counted \cap RcvdBy(r, cepoch) = {}
      BY <1>a, <1>e DEF CountInv, RcvdBy
    <3>2. IsFiniteSet(counted) /\ IsFiniteSet(RcvdBy(r, cepoch))
      BY <1>a, FS_Subset DEF MsgInv, RcvdBy, TypeOK
    <3>3. accRecv = Cardinality(counted) /\ lrecv0'[r] = Cardinality(RcvdBy(r, cepoch))
      BY <1>a, <1>c, <1>e DEF CountInv
    <3>4. QED
      BY <1>0, <1>e, <3>1, <3>2, <3>3, CardDisjoint
  <2>4. \A m \in counted' : m.tag = cepoch' /\ m.dst \in contrib'
    BY <1>0, <1>a, <1>e DEF CountInv, RcvdBy
  <2>5. QED
    BY <1>c, <2>1, <2>2, <2>3, <2>4 DEF CountInv
<1>5. CoverInv'
  <2>1. \A s \in Ranks : Low(s)' = Low2(s)
    BY <1>0 DEF Low, Low2
  <2>2. /\ \A m \in InFlight : \E s \in Ranks : Low2(s) <= m.t
        /\ \A s \in Ranks : epoch'[s] = cepoch =>
             /\ \A p \in pending[s] : \E w \in Ranks : Low2(w) <= p
             /\ \E w \in Ranks : Low2(w) <= lvt1'[s]
    BY <1>b, EnterCover
  <2>3. \A m \in InFlight' : Covered(m.t)'
    BY <1>s, <2>1, <2>2 DEF Covered
  <2>4. \A s \in Ranks : epoch'[s] = cepoch' =>
          (\A p \in pending[s] : Covered(p))' /\ Covered(lvt1[s])'
    BY <1>0, <2>1, <2>2 DEF Covered, clientVars
  <2>5. \A m \in sent' : /\ m.tag = epoch'[m.src] => lvt0'[m.src] <= m.t
                         /\ m.tag = epoch'[m.src] + 1 => lvt1'[m.src] <= m.t
    BY <1>0, <1>b, Enter DEF clientVars
  <2>6. QED
    BY <2>3, <2>4, <2>5 DEF CoverInv
<1>6. BoundInv'
  <2>1. gvt' <= accLvt' /\ \A s \in contrib' : accLvt' <= lvt0'[s]
    BY <1>0, <1>a, <1>l DEF BoundInv, Least
  <2>2. \A s \in Ranks : gvt <= lvt0'[s] /\ gvt <= lvt1'[s]
    BY <1>b, Enter
  <2>3. QED
    BY <1>0, <1>a, <1>s, <2>1, <2>2 DEF BoundInv, clientVars
<1>7. QED
  BY <1>1, <1>2, <1>3, <1>4, <1>5, <1>6 DEF IInv

-----------------------------------------------------------------------------
(* Equal counts mean equal sets: if as many messages of a tag were counted *)
(* as received as were sent, all of them have been received.               *)
LEMMA EqualCounts ==
  ASSUME IInv, NEW e \in Nat, NEW C, C \subseteq {m \in rcvd : m.tag = e},
         Cardinality(C) = Cardinality({m \in sent : m.tag = e})
  PROVE  \A m \in sent : m.tag = e => m \in rcvd
<1>1. IsFiniteSet(sent) /\ rcvd \subseteq sent
  BY DEF IInv, MsgInv, TypeOK
<1>2. IsFiniteSet({m \in sent : m.tag = e}) /\ C \in SUBSET {m \in sent : m.tag = e}
  BY <1>1, FS_Subset
<1>3. C = {m \in sent : m.tag = e}
  BY <1>2, FS_Subset
<1>4. QED
  BY <1>3

(* What holds in the step that closes a collective to which every rank     *)
(* contributed: aS and aL are the sum of the sends and the least time, C   *)
(* the messages counted as received.                                       *)
EveryoneEntered ==
  /\ epoch' \in [Ranks -> Nat] /\ \A s \in Ranks : epoch'[s] = cepoch
  /\ lvt0' \in [Ranks -> Time] /\ lvt1' \in [Ranks -> Time]
  /\ lsend0' \in [Ranks -> Nat] /\ lsend1' \in [Ranks -> Nat]
  /\ lrecv0' \in [Ranks -> Nat] /\ lrecv1' \in [Ranks -> Nat]
  /\ lrecv2' \in [Ranks -> Nat]

CountsEntered ==
  \A s \in Ranks :
    /\ lsend0'[s] = Cardinality(SentBy(s, epoch'[s]))
    /\ lsend1'[s] = Cardinality(SentBy(s, epoch'[s] + 1))
    /\ lrecv0'[s] = Cardinality(RcvdBy(s, epoch'[s]))
    /\ lrecv1'[s] = Cardinality(RcvdBy(s, epoch'[s] + 1))
    /\ lrecv2'[s] = Cardinality(RcvdBy(s, epoch'[s] + 2))

CoverEntered ==
  /\ \A m \in sent : /\ m.tag <= epoch'[m.src] + 1
                     /\ m.tag = epoch'[m.src] => lvt0'[m.src] <= m.t
                     /\ m.tag = epoch'[m.src] + 1 => lvt1'[m.src] <= m.t
  /\ \A m \in InFlight : \E s \in Ranks : lvt0'[s] <= m.t
  /\ \A s \in Ranks : /\ \A p \in pending[s] : \E w \in Ranks : lvt0'[w] <= p
                      /\ \E w \in Ranks : lvt0'[w] <= lvt1'[s]
                      /\ gvt <= lvt0'[s] /\ gvt <= lvt1'[s]

Gathered(aS, aL, C) ==
  /\ aS = Cardinality({m \in sent : m.tag = cepoch})
  /\ C \subseteq {m \in rcvd : m.tag = cepoch}
  /\ aL \in Time /\ gvt <= aL /\ \A s \in Ranks : aL <= lvt0'[s]

Concludes(q, aL) ==
  /\ Conclude(q, aL)
  /\ status0' = [s \in Ranks |-> "reducing"]
  /\ status1' = [s \in Ranks |-> IF s = Root THEN Verdict(q) ELSE "reducing"]
  /\ UNCHANGED <<gvt0, clientVars>>

(* The result of a collective keeps the invariant, whatever call it        *)
(* completes in.                                                           *)
LEMMA ConcludeInv ==
  ASSUME IInv, NEW aS, NEW aL, NEW C, NEW q \in BOOLEAN,
         q <=> (aS = Cardinality(C)),
         EveryoneEntered, CountsEntered, CoverEntered, Gathered(aS, aL, C),
         Concludes(q, aL)
  PROVE  IInv'
<1>a. TypeOK /\ CollInv /\ MsgInv /\ CountInv /\ CoverInv /\ BoundInv
  BY DEF IInv
<1>0. /\ quiesced' = q
      /\ gvt' = IF q THEN aL ELSE gvt
      /\ gvt1' = IF q THEN [gvt1 EXCEPT ![Root] = aL] ELSE gvt1
      /\ undelivered' = Ranks \ {Root}
      /\ cepoch' = IF q THEN cepoch + 1 ELSE cepoch
      /\ contrib' = {} /\ accLvt' = Inf /\ accSend' = 0 /\ accRecv' = 0
      /\ counted' = {}
  BY DEF Concludes, Conclude
<1>u. /\ sent' = sent /\ rcvd' = rcvd /\ pending' = pending /\ nextId' = nextId
      /\ InFlight' = InFlight /\ gvt0' = gvt0
  BY DEF Concludes, clientVars, InFlight
<1>t. /\ Inf \in Time /\ cepoch \in Nat /\ gvt \in Int /\ aL \in Int /\ Inf \in Int
      /\ aL <= Inf
      /\ \A s \in Ranks : /\ lvt0'[s] \in Int /\ lvt1'[s] \in Int /\ gvt1[s] \in Int
                          /\ gvt0[s] \in Int
                          /\ \A p \in pending[s] : p \in Int
      /\ \A m \in InFlight : m.t \in Int /\ m.src \in Ranks /\ m.tag \in Nat
  BY <1>a, ConstantsAssumption, MessageType
     DEF TypeOK, Time, EventTime, InFlight, EveryoneEntered, Gathered
<1>g. /\ aL \in Time /\ gvt <= aL /\ \A s \in Ranks : aL <= lvt0'[s]
      /\ \A s \in Ranks : gvt <= lvt0'[s] /\ gvt <= lvt1'[s]
  BY DEF Gathered, CoverEntered
<1>e. \A s \in Ranks : epoch'[s] = cepoch
  BY DEF EveryoneEntered
<1>1. TypeOK'
  <2>1. gvt1' \in [Ranks -> Time] /\ gvt' \in Time
    BY <1>0, <1>a, <1>g DEF TypeOK
  <2>2. status0' \in [Ranks -> Status] /\ status1' \in [Ranks -> Status]
    BY DEF Concludes, Status, Verdict
  <2>3. QED
    BY <1>0, <1>a, <1>u, <1>t, <2>1, <2>2 DEF TypeOK, EveryoneEntered
<1>2. CollInv'
  <2>1. /\ status0' = [s \in Ranks |-> "reducing"]
        /\ status1' = [s \in Ranks |-> IF s = Root THEN Verdict(q) ELSE "reducing"]
    BY DEF Concludes
  <2>2. Verdict(quiesced') = Verdict(q)
    BY <1>0
  <2>3. \A s \in Ranks :
          epoch'[s] = IF quiesced' THEN cepoch' - 1 ELSE cepoch'
    BY <1>0, <1>e, <1>t
  <2>4. QED
    BY <1>0, <2>1, <2>2, <2>3 DEF CollInv, Verdict
<1>3. MsgInv'
  <2>1. ASSUME q, NEW m \in InFlight
        PROVE  m.tag >= cepoch + 1
    <3>1. m \in sent /\ m \notin rcvd
      BY DEF InFlight
    <3>2. m.tag # cepoch
      BY <2>1, <3>1, <1>t, EqualCounts DEF Gathered
    <3>3. m.tag >= cepoch
      BY <1>a DEF MsgInv
    <3>4. m.tag \in Nat /\ cepoch \in Nat
      BY <1>t
    <3>5. QED
      BY <3>2, <3>3, <3>4
  <2>2. \A m \in InFlight' : m.tag >= cepoch'
    BY <1>0, <1>a, <1>u, <2>1 DEF MsgInv
  <2>3. QED
    BY <1>a, <1>u, <2>2 DEF MsgInv, CoverEntered
<1>4. CountInv'
  <2>1. \A s \in Ranks : \A e : SentBy(s, e)' = SentBy(s, e) /\ RcvdBy(s, e)' = RcvdBy(s, e)
    BY <1>u DEF SentBy, RcvdBy
  <2>2. {m \in sent' : m.tag = cepoch' /\ m.src \in contrib'} = {}
    BY <1>0
  <2>3. \A s \in Ranks :
          /\ lsend0'[s] = Cardinality(SentBy(s, epoch[s])')
          /\ lsend1'[s] = Cardinality(SentBy(s, epoch[s] + 1)')
          /\ lrecv0'[s] = Cardinality(RcvdBy(s, epoch[s])')
          /\ lrecv1'[s] = Cardinality(RcvdBy(s, epoch[s] + 1)')
          /\ lrecv2'[s] = Cardinality(RcvdBy(s, epoch[s] + 2)')
    BY <2>1 DEF CountsEntered
  <2>4. Cardinality({}) = 0
    BY FS_EmptySet
  <2>5. QED
    BY <1>0, <2>2, <2>3, <2>4 DEF CountInv
<1>5. CoverInv'
  <2>1. \A m \in sent' : /\ m.tag = epoch'[m.src] => lvt0'[m.src] <= m.t
                         /\ m.tag = epoch'[m.src] + 1 => lvt1'[m.src] <= m.t
    BY <1>u DEF CoverEntered
  <2>2. CASE q
    <3>1. \A s \in Ranks : epoch'[s] # cepoch' /\ Low(s)' = lvt1'[s]
        BY <1>0, <1>e, <1>t, <2>2 DEF Low
    <3>2. ASSUME NEW m \in InFlight PROVE lvt1'[m.src] <= m.t
      <4>1. m \in sent /\ m.tag <= cepoch + 1 /\ m.tag >= cepoch'
        BY <1>3, <1>e, <1>t, <1>u DEF MsgInv, InFlight, CoverEntered
      <4>2. m.tag = cepoch + 1
        BY <4>1, <1>0, <1>t, <2>2
      <4>3. QED
        BY <4>1, <4>2, <1>e, <1>t DEF CoverEntered
    <3>3. \A m \in InFlight' : Covered(m.t)'
      BY <1>t, <1>u, <3>1, <3>2 DEF Covered
    <3>4. QED
      BY <2>1, <3>1, <3>3 DEF CoverInv
  <2>3. CASE ~q
    <3>1. \A s \in Ranks : Low(s)' = lvt0'[s]
      BY <1>0, <1>e, <2>3 DEF Low
    <3>2. \A m \in InFlight' : Covered(m.t)'
      BY <1>u, <3>1 DEF Covered, CoverEntered
    <3>3. \A s \in Ranks : (\A p \in pending[s] : Covered(p))' /\ Covered(lvt1[s])'
      BY <1>u, <3>1 DEF Covered, CoverEntered
    <3>4. QED
      BY <2>1, <3>2, <3>3 DEF CoverInv
  <2>4. QED
    BY <2>2, <2>3
<1>6. BoundInv'
  <2>1. /\ gvt <= gvt' /\ gvt' <= Inf /\ gvt' \in Int
        /\ gvt' = gvt \/ gvt' = aL
    BY <1>0, <1>a, <1>g, <1>t, ConstantsAssumption DEF TypeOK, Time
  <2>2. \A s \in Ranks : gvt1'[s] = gvt1[s] \/ (gvt1'[s] = gvt' /\ gvt <= gvt1'[s])
    BY <1>0, <1>a, <1>g, <1>t DEF TypeOK
  <2>3. \A s \in Ranks : gvt0[s] <= gvt1[s] /\ gvt1[s] <= gvt
    BY <1>a DEF BoundInv
  <2>4. \A s \in Ranks : gvt0'[s] <= gvt1'[s] /\ gvt1'[s] <= gvt'
    BY <1>t, <1>u, <2>1, <2>2, <2>3
  <2>5. \A s \in Ranks : aL <= lvt0'[s] /\ aL <= lvt1'[s]
                         /\ \A p \in pending[s] : aL <= p
    BY <1>g, <1>t DEF CoverEntered
  <2>6. \A m \in InFlight : aL <= m.t
    BY <1>g, <1>t DEF CoverEntered
  <2>7. \A s \in Ranks : gvt' <= lvt0'[s] /\ gvt' <= lvt1'[s]
                         /\ \A p \in pending'[s] : gvt' <= p
    BY <1>a, <1>g, <1>u, <2>1, <2>5 DEF BoundInv
  <2>8. \A m \in InFlight' : gvt' <= m.t
    BY <1>a, <1>u, <2>1, <2>6 DEF BoundInv
  <2>9. QED
    BY <1>0, <2>1, <2>4, <2>7, <2>8 DEF BoundInv
<1>7. QED
  BY <1>1, <1>2, <1>3, <1>4, <1>5, <1>6 DEF IInv

(* The last contribution arrives at the root in a message.                 *)
LEMMA CompleteInv == IInv /\ Complete => IInv'
<1> SUFFICES ASSUME IInv, Complete PROVE IInv'
  OBVIOUS
<1>a. TypeOK /\ CollInv /\ MsgInv /\ CountInv /\ CoverInv /\ BoundInv
  BY DEF IInv
<1>0. /\ contrib = Ranks
      /\ Conclude(accSend = accRecv, accLvt)
      /\ status1' = [status1 EXCEPT ![Root] = Verdict(accSend = accRecv)]
      /\ UNCHANGED <<status0, gvt0, epoch, countVars, clientVars>>
  BY DEF Complete
<1>1. \A s \in Ranks : /\ epoch[s] = cepoch /\ Low(s) = lvt0[s]
                       /\ status0[s] = "reducing" /\ status1[s] = "reducing"
  BY <1>a, <1>0 DEF CollInv, Low
<1> DEFINE q == accSend = accRecv
<1>2. EveryoneEntered
  BY <1>0, <1>1, <1>a DEF EveryoneEntered, TypeOK, countVars
<1>3. CountsEntered
  BY <1>0, <1>a DEF CountsEntered, CountInv, countVars
<1>4. CoverEntered
  BY <1>0, <1>1, <1>a
     DEF CoverEntered, CoverInv, MsgInv, BoundInv, Covered, countVars
<1>5. Gathered(accSend, accLvt, counted)
  <2>1. {m \in sent : m.tag = cepoch /\ m.src \in contrib}
          = {m \in sent : m.tag = cepoch}
    BY <1>0, MessageType
  <2>2. accSend = Cardinality({m \in sent : m.tag = cepoch})
    BY <1>a, <2>1 DEF CountInv
  <2>3. counted \subseteq {m \in rcvd : m.tag = cepoch}
    BY <1>a DEF CountInv, TypeOK
  <2>4. accLvt \in Time /\ gvt <= accLvt /\ \A s \in Ranks : accLvt <= lvt0'[s]
    BY <1>0, <1>a DEF TypeOK, BoundInv, countVars
  <2>5. QED
    BY <2>2, <2>3, <2>4 DEF Gathered
<1>6. accRecv = Cardinality(counted)
  BY <1>a DEF CountInv
<1>7. Concludes(q, accLvt)
  <2>1. status0' = [s \in Ranks |-> "reducing"]
    BY <1>0, <1>1, <1>a DEF TypeOK
  <2>2. status1' = [s \in Ranks |-> IF s = Root THEN Verdict(q) ELSE "reducing"]
    BY <1>0, <1>1, <1>a DEF TypeOK
  <2>3. QED
    BY <1>0, <2>1, <2>2 DEF Concludes
<1>8. q \in BOOLEAN /\ (q <=> accSend = Cardinality(counted))
  BY <1>6
<1> HIDE DEF q
<1>9. QED
  BY <1>2, <1>3, <1>4, <1>5, <1>7, <1>8, ConcludeInv

(* The root itself contributes last: contribution and result in one call.  *)
LEMMA CollBeginLastInv ==
  ASSUME IInv, NEW lvt \in Time, CollBeginLast(lvt)
  PROVE  IInv'
<1>a. TypeOK /\ CollInv /\ MsgInv /\ CountInv /\ CoverInv /\ BoundInv
  BY DEF IInv
<1> DEFINE aS == accSend + lsend0'[Root]
           aR == accRecv + lrecv0'[Root]
           aL == Least(accLvt, lvt0'[Root])
           C == counted \cup RcvdBy(Root, cepoch)
           q == aS = aR
<1>0. /\ contrib = Ranks \ {Root}
      /\ Conclude(q, aL)
      /\ status0' = [status0 EXCEPT ![Root] = "reducing"]
      /\ status1' = [status1 EXCEPT ![Root] = Verdict(q)]
      /\ UNCHANGED <<gvt0, clientVars>>
  BY DEF CollBeginLast
<1>b. /\ Root \in Ranks
      /\ status0[Root] # "reducing" /\ status0[Root] = status1[Root]
      /\ IsLvt(Root, lvt) /\ EnterEpoch(Root, lvt)
      /\ UNCHANGED <<sent, rcvd, pending>>
  BY ConstantsAssumption DEF CollBeginLast, clientVars
<1>n. /\ Root \notin contrib
      /\ epoch' = [epoch EXCEPT ![Root] = cepoch]
      /\ lvt0' \in [Ranks -> Time] /\ lvt1' \in [Ranks -> Time]
      /\ lsend0' \in [Ranks -> Nat] /\ lsend1' \in [Ranks -> Nat]
      /\ lrecv0' \in [Ranks -> Nat] /\ lrecv1' \in [Ranks -> Nat]
      /\ lrecv2' \in [Ranks -> Nat]
      /\ \A s \in Ranks : s # Root => lvt0'[s] = lvt0[s]
      /\ \A s \in Ranks : gvt <= lvt0'[s] /\ gvt <= lvt1'[s]
  BY <1>b, Enter
<1>1. \A s \in Ranks : epoch'[s] = cepoch /\ Low2(s) = lvt0'[s]
  BY <1>0, <1>a, <1>n DEF CollInv, Low2, TypeOK
<1>2. EveryoneEntered
  BY <1>1, <1>n, <1>a DEF EveryoneEntered, TypeOK
<1>3. CountsEntered
  BY <1>b, EnterCount DEF CountsEntered
<1>4. CoverEntered
  <2>1. \A m \in sent : /\ m.tag <= epoch'[m.src] + 1
                        /\ m.tag = epoch'[m.src] => lvt0'[m.src] <= m.t
                        /\ m.tag = epoch'[m.src] + 1 => lvt1'[m.src] <= m.t
    BY <1>b, Enter
  <2>2. /\ \A m \in InFlight : \E s \in Ranks : Low2(s) <= m.t
        /\ \A s \in Ranks : epoch'[s] = cepoch =>
             /\ \A p \in pending[s] : \E w \in Ranks : Low2(w) <= p
             /\ \E w \in Ranks : Low2(w) <= lvt1'[s]
    BY <1>b, EnterCover
  <2>3. QED
    BY <1>1, <1>n, <2>1, <2>2 DEF CoverEntered
<1>c. /\ accSend = Cardinality({m \in sent : m.tag = cepoch /\ m.src \in contrib})
      /\ lsend0'[Root] = Cardinality(SentBy(Root, cepoch))
      /\ accRecv = Cardinality(counted)
      /\ lrecv0'[Root] = Cardinality(RcvdBy(Root, cepoch))
  BY <1>a, <1>b, <1>1, <1>3 DEF CountInv, CountsEntered
<1>5. Gathered(aS, aL, C)
  <2> DEFINE S == {m \in sent : m.tag = cepoch /\ m.src \in contrib}
  <2>1. S \cup SentBy(Root, cepoch) = {m \in sent : m.tag = cepoch}
    BY <1>0, MessageType DEF SentBy
  <2>2. S \cap SentBy(Root, cepoch) = {}
    BY <1>n DEF SentBy
  <2>3. IsFiniteSet(S) /\ IsFiniteSet(SentBy(Root, cepoch))
    BY <1>a, FS_Subset DEF MsgInv, SentBy
  <2>4. aS = Cardinality({m \in sent : m.tag = cepoch})
    BY <1>c, <2>1, <2>2, <2>3, CardDisjoint
  <2>5. C \subseteq {m \in rcvd : m.tag = cepoch}
    BY <1>a DEF CountInv, TypeOK, RcvdBy
  <2>6. aL \in Time /\ gvt <= aL /\ aL <= accLvt /\ aL <= lvt0'[Root]
        /\ aL \in Int /\ accLvt \in Int
    BY <1>a, <1>b, <1>n, ConstantsAssumption DEF TypeOK, BoundInv, Least, Time
  <2>7. \A s \in contrib : accLvt <= lvt0'[s] /\ lvt0'[s] \in Int
    BY <1>a, <1>0, <1>n, ConstantsAssumption DEF BoundInv, TypeOK, Time
  <2> HIDE DEF aL
  <2>8. \A s \in Ranks : aL <= lvt0'[s]
    BY <1>0, <2>6, <2>7
  <2>9. QED
    BY <2>4, <2>5, <2>6, <2>8 DEF Gathered
<1>6. aR = Cardinality(C)
  <2>1. counted \cap RcvdBy(Root, cepoch) = {}
    BY <1>a, <1>n DEF CountInv, RcvdBy
  <2>2. IsFiniteSet(counted) /\ IsFiniteSet(RcvdBy(Root, cepoch))
    BY <1>a, FS_Subset DEF MsgInv, RcvdBy, TypeOK
  <2>3. Cardinality(counted \cup RcvdBy(Root, cepoch))
          = Cardinality(counted) + Cardinality(RcvdBy(Root, cepoch))
    BY <2>1, <2>2, CardDisjoint
  <2>4. QED
    BY <1>c, <2>3
<1>7. Concludes(q, aL)
  <2>1. \A s \in Ranks \ {Root} : status0[s] = "reducing" /\ status1[s] = "reducing"
    BY <1>a, <1>0 DEF CollInv
  <2>2. /\ status0' = [s \in Ranks |-> "reducing"]
        /\ status1' = [s \in Ranks |-> IF s = Root THEN Verdict(q) ELSE "reducing"]
    BY <1>0, <1>a, <2>1 DEF TypeOK
  <2>3. QED
    BY <1>0, <2>2 DEF Concludes
<1>8. q \in BOOLEAN /\ (q <=> aS = Cardinality(C))
  BY <1>6
<1> HIDE DEF q, aS, aL, C
<1>9. QED
  BY <1>2, <1>3, <1>4, <1>5, <1>7, <1>8, ConcludeInv

-----------------------------------------------------------------------------
(* Every step keeps the invariant.                                         *)
LEMMA NextInv == IInv /\ [Next]_vars => IInv'
<1> SUFFICES ASSUME IInv, [Next]_vars PROVE IInv'
  OBVIOUS
<1>1. ASSUME NEW r \in Ranks, NEW D \in SUBSET Ranks, NEW t \in EventTime,
             Send(r, D, t)
      PROVE  IInv'
  BY <1>1, SendInv
<1>2. ASSUME NEW m \in InFlight, Receive(m) PROVE IInv'
  BY <1>2, ReceiveInv
<1>3. ASSUME NEW r \in Ranks, NEW t \in EventTime, Spawn(r, t) \/ Finish(r, t)
      PROVE  IInv'
  BY <1>3, LocalInv
<1>4. ASSUME NEW r \in Ranks, Advance(r) \/ Deliver(r) PROVE IInv'
  BY <1>4, AdvanceInv, DeliverInv
<1>5. ASSUME NEW r \in Ranks, NEW lvt \in Time, CollBegin(r, lvt) PROVE IInv'
  BY <1>5, CollBeginInv
<1>6. ASSUME NEW lvt \in Time, CollBeginLast(lvt) PROVE IInv'
  BY <1>6, CollBeginLastInv
<1>7. CASE Complete
  BY <1>7, CompleteInv
<1>8. CASE UNCHANGED vars
  <2>1. /\ UNCHANGED <<rankVars, countVars, collVars, clientVars>>
        /\ InFlight' = InFlight
    BY <1>8 DEF vars, InFlight, clientVars
  <2>2. TypeOK' /\ CollInv' /\ MsgInv' /\ CoverInv' /\ BoundInv'
    BY <2>1 DEF IInv, TypeOK, CollInv, MsgInv, CoverInv, Covered, Low, BoundInv,
                rankVars, countVars, collVars, clientVars
  <2>3. CountInv'
    BY <2>1 DEF IInv, CountInv, SentBy, RcvdBy,
                rankVars, countVars, collVars, clientVars
  <2>4. QED
    BY <2>2, <2>3 DEF IInv
<1>9. QED
  BY <1>1, <1>2, <1>3, <1>4, <1>5, <1>6, <1>7, <1>8 DEF Next

(* In every behavior of the GVT protocol the inductive invariant holds: the*)
(* counters count messages, and the ranks' answers cover all work.         *)
THEOREM Invariance == Spec => []IInv
BY InitInv, NextInv, PTL DEF Spec

(* Type correctness for every number of ranks and every bound.             *)
THEOREM TypeCorrect == Spec => []TypeOK
<1>1. IInv => TypeOK
  BY DEF IInv
<1>2. QED
  BY <1>1, Invariance, PTL

(* No rank is ever told a GVT later than an event that still has to be     *)
(* processed or a message under way: epoch_gvt_[0] <= t at every send and  *)
(* receipt of gvt.hxx.                                                     *)
THEOREM GvtSafety == Spec => []GvtSafe
<1>1. IInv => GvtSafe
  <2> SUFFICES ASSUME IInv, NEW r \in Ranks
               PROVE  /\ \A m \in InFlight : gvt1[r] <= m.t
                      /\ \A s \in Ranks : \A p \in pending[s] : gvt1[r] <= p
    BY DEF GvtSafe
  <2>1. gvt1[r] \in Int /\ gvt \in Int /\ gvt1[r] <= gvt
    BY ConstantsAssumption DEF IInv, TypeOK, BoundInv, Time
  <2>2. \A m \in InFlight : m.t \in Int /\ gvt <= m.t
    BY MessageType DEF IInv, BoundInv, InFlight
  <2>3. \A s \in Ranks : \A p \in pending[s] : p \in Int /\ gvt <= p
    BY ConstantsAssumption DEF IInv, TypeOK, BoundInv, Time, EventTime
  <2>4. QED
    BY <2>1, <2>2, <2>3
<1>2. QED
  BY <1>1, Invariance, PTL

(* The tag of an arriving message is always one the receiver counts, the   *)
(* assertion 0 <= i && i < 3 of gvt.hxx.                                   *)
THEOREM TagsInWindow == Spec => []TagInWindow
BY Window, Invariance, PTL

(* A rank told "quiesced" may rely on every message of its epoch's tag     *)
(* having been received everywhere.                                        *)
THEOREM QuiescenceMeansReceived == Spec => []QuiescedMeansReceived
<1>1. IInv => QuiescedMeansReceived
  <2> SUFFICES ASSUME IInv, NEW r \in Ranks, status1[r] = "quiesced",
                      NEW m \in sent, m.tag <= epoch[r]
               PROVE  m \in rcvd
    BY DEF QuiescedMeansReceived
  <2>1. r \notin contrib \cup undelivered
    BY DEF IInv, CollInv
  <2>2. quiesced /\ epoch[r] = cepoch - 1
    BY <2>1 DEF IInv, CollInv, Verdict
  <2>3. m.tag < cepoch
    BY <2>2, EpochRange, MessageType
  <2>4. QED
    BY <2>3, EpochRange, MessageType DEF IInv, MsgInv, InFlight
<1>2. QED
  BY <1>1, Invariance, PTL

(* No step makes a rank's GVT smaller.                                     *)
Mono == \A r \in Ranks : gvt1[r] <= gvt1'[r] /\ gvt0[r] <= gvt0'[r]

LEMMA StepMonotone == ASSUME IInv, Next PROVE Mono
<1> USE DEF Mono
<1>1. \A r \in Ranks : /\ gvt0[r] \in Int /\ gvt1[r] \in Int /\ gvt \in Int
                       /\ gvt0[r] <= gvt1[r] /\ gvt1[r] <= gvt
      /\ gvt1 \in [Ranks -> Time] /\ gvt0 \in [Ranks -> Time]
  BY ConstantsAssumption DEF IInv, TypeOK, BoundInv, Time
<1>2. CASE UNCHANGED <<gvt0, gvt1>>
  BY <1>1, <1>2
<1>3. ASSUME NEW r \in Ranks, Advance(r) PROVE Mono
  BY <1>1, <1>3 DEF Advance
<1>4. ASSUME NEW r \in Ranks, Deliver(r) PROVE Mono
  BY <1>1, <1>4 DEF Deliver
<1>5. ASSUME NEW q, NEW g, Conclude(q, g), gvt0' = gvt0, gvt' \in Int,
             gvt <= gvt'
      PROVE  Mono
  BY <1>1, <1>5, ConstantsAssumption DEF Conclude
<1>6. IInv' /\ gvt' \in Int
  BY NextInv, ConstantsAssumption DEF IInv, TypeOK, Time
<1>7. CASE Complete
  <2>1. gvt <= gvt'
    BY <1>1, <1>7, ConstantsAssumption
       DEF Complete, Conclude, IInv, BoundInv, TypeOK, Time
  <2>2. QED
    BY <1>5, <1>6, <1>7, <2>1 DEF Complete
<1>8. ASSUME NEW lvt \in Time, CollBeginLast(lvt) PROVE Mono
  <2>1. gvt <= lvt0'[Root] /\ lvt0'[Root] \in Int
    BY <1>8, ConstantsAssumption, Enter
       DEF CollBeginLast, clientVars, Time
  <2>2. gvt <= Least(accLvt, lvt0'[Root])
    BY <2>1 DEF IInv, BoundInv, Least
  <2>3. gvt <= gvt'
    BY <1>1, <1>8, <2>2, ConstantsAssumption DEF CollBeginLast, Conclude
  <2>4. QED
    BY <1>5, <1>6, <1>8, <2>3 DEF CollBeginLast
<1>9. QED
  BY <1>2, <1>3, <1>4, <1>7, <1>8
     DEF Next, Send, Receive, Spawn, Finish, CollBegin, rankVars

(* A rank's GVT never decreases: the assertion of rdxn_down.               *)
THEOREM GvtMonotonicity == Spec => GvtMonotone
<1>1. ASSUME IInv, [Next]_vars PROVE [Mono]_vars
  BY <1>1, StepMonotone
<1>2. QED
  BY <1>1, Invariance, PTL DEF Spec, GvtMonotone, Mono

-----------------------------------------------------------------------------
(* A rank's GVT is the last one computed, unless a newer one is on its way.*)
CopyInv == \A r \in Ranks : (r \notin undelivered \/ ~ quiesced) => gvt1[r] = gvt

(* A collective in which the root has every contribution, its own at the   *)
(* latest now, finds every rank's copy up to date.                         *)
LEMMA CopiesCurrent ==
  ASSUME IInv, CopyInv, Ranks \ {Root} \subseteq contrib, Root \notin undelivered
  PROVE  \A r \in Ranks : gvt1[r] = gvt
BY DEF IInv, CollInv, CopyInv

(* coll_begin is not called by a rank that waits for a result.             *)
LEMMA RootReady ==
  ASSUME IInv, NEW r \in Ranks, status0[r] # "reducing"
  PROVE  r \notin undelivered
BY DEF IInv, CollInv

LEMMA ConcludeCopy ==
  ASSUME IInv, CopyInv, NEW q \in BOOLEAN, NEW g, Conclude(q, g),
         \A r \in Ranks : gvt1[r] = gvt
  PROVE  CopyInv'
BY ConstantsAssumption DEF IInv, TypeOK, CopyInv, Conclude

LEMMA CopyStep == ASSUME IInv, CopyInv, [Next]_vars PROVE CopyInv'
<1>1. CASE UNCHANGED <<gvt1, gvt, undelivered, quiesced>>
  BY <1>1 DEF CopyInv
<1>2. ASSUME NEW r \in Ranks, Deliver(r) PROVE CopyInv'
  BY <1>2 DEF CopyInv, Deliver, IInv, TypeOK
<1>3. CASE Complete
  <2>1. \A r \in Ranks : r \notin undelivered
    BY <1>3 DEF Complete, IInv, CollInv
  <2>2. \A r \in Ranks : gvt1[r] = gvt
    BY <2>1 DEF CopyInv
  <2>3. QED
    BY <1>3, <2>2, ConcludeCopy DEF Complete
<1>4. ASSUME NEW lvt \in Time, CollBeginLast(lvt) PROVE CopyInv'
  <2>1. Root \notin undelivered /\ Ranks \ {Root} \subseteq contrib
    BY <1>4, RootReady, ConstantsAssumption DEF CollBeginLast
  <2>2. \A r \in Ranks : gvt1[r] = gvt
    BY <2>1, CopiesCurrent
  <2>3. QED
    BY <1>4, <2>2, ConcludeCopy DEF CollBeginLast
<1>5. QED
  BY <1>1, <1>2, <1>3, <1>4
     DEF Next, vars, Send, Receive, Spawn, Finish, Advance, CollBegin, rankVars, collVars

THEOREM CopiesInvariant == Spec => [](IInv /\ CopyInv)
<1>1. Init => CopyInv
  BY DEF Init, CopyInv
<1>2. IInv /\ CopyInv /\ [Next]_vars => CopyInv'
  BY CopyStep
<1>3. QED
  BY <1>1, <1>2, InitInv, NextInv, PTL DEF Spec

-----------------------------------------------------------------------------
(* The mapping of GvtContract.                                             *)
EpochBar == [r \in Ranks |-> epoch[r] % 4]
NetBar == {[m EXCEPT !.tag = m.tag % 4] : m \in InFlight}

LEMMA ServiceInit == Init => Service!Init
<1> SUFFICES ASSUME Init PROVE Service!Init
  OBVIOUS
<1>1. Gvt0 \in 0 .. Inf
  BY ConstantsAssumption
<1>2. \A r \in Ranks : \A p \in pending[r] : Gvt0 <= p
  BY DEF Init
<1>3. EpochBar = [r \in Ranks |-> 0] /\ NetBar = {} /\ Verdict(quiesced) = "non_quiesced"
  BY DEF Init, EpochBar, NetBar, InFlight, Verdict
<1>4. QED
  BY <1>1, <1>2, <1>3 DEF Init, Service!Init, EpochBar, NetBar

(* The tags of messages under way are one of two numbers.                  *)
LEMMA TwoTags ==
  ASSUME IInv, NEW m \in InFlight
  PROVE  /\ m \in sent /\ m \in Message /\ m.tag \in Nat /\ cepoch \in Nat
         /\ m.tag = cepoch \/ m.tag = cepoch + 1
<1>1. m \in sent
  BY DEF InFlight
<1>2. m \in Message /\ m.tag \in Nat /\ m.src \in Ranks
  BY <1>1, MessageType DEF IInv, TypeOK
<1>3. m.tag <= epoch[m.src] + 1 /\ m.tag >= cepoch
  BY <1>1 DEF IInv, MsgInv
<1>4. QED
  BY <1>1, <1>2, <1>3, EpochRange

(* Taken modulo 4, a message under way is still known by its fields.       *)
LEMMA BarInjective ==
  ASSUME IInv, NEW m \in InFlight, NEW n \in InFlight,
         [m EXCEPT !.tag = m.tag % 4] = [n EXCEPT !.tag = n.tag % 4]
  PROVE  m = n
<1>1. /\ m \in Message /\ n \in Message /\ m.tag \in Nat /\ n.tag \in Nat /\ cepoch \in Nat
      /\ m.tag \in {cepoch, cepoch + 1} /\ n.tag \in {cepoch, cepoch + 1}
  BY TwoTags
<1>2. /\ m.tag % 4 = n.tag % 4
      /\ m.id = n.id /\ m.src = n.src /\ m.dst = n.dst /\ m.t = n.t
  BY <1>1 DEF Message
<1>3. m.tag = n.tag
  BY <1>1, <1>2
<1>4. QED
  BY <1>1, <1>2, <1>3 DEF Message

(* The fields of the image of a message.                                   *)
LEMMA BarFields ==
  ASSUME NEW m \in Message
  PROVE  LET b == [m EXCEPT !.tag = m.tag % 4]
         IN  b.tag = m.tag % 4 /\ b.t = m.t /\ b.dst = m.dst
BY DEF Message

-----------------------------------------------------------------------------
(* The client's steps.                                                     *)
LEMMA SendStep ==
  ASSUME IInv, NEW r \in Ranks, NEW D \in SUBSET Ranks, NEW t \in EventTime,
         Send(r, D, t)
  PROVE  Service!ClientStep(r)
<1> DEFINE new == {[id |-> nextId, src |-> r, dst |-> d, tag |-> epoch[r] + 1,
                    t |-> t] : d \in D}
<1>1. /\ sent' = sent \cup new /\ rcvd' = rcvd /\ pending' = pending /\ epoch' = epoch
      /\ \E p \in pending[r] : p <= t
  BY DEF Send, rankVars
<1>2. epoch[r] \in Nat
  BY DEF IInv, TypeOK
<1>3. InFlight \subseteq InFlight' /\ InFlight' \subseteq InFlight \cup new
  BY <1>1 DEF InFlight
<1>4. NetBar \subseteq NetBar'
  BY <1>3 DEF NetBar
<1>5. ASSUME NEW b \in NetBar', b \notin NetBar
      PROVE  /\ b.tag = (EpochBar[r] + 1) % 4
             /\ \E p \in pending[r] : p <= b.t
  <2>1. PICK m \in new : b = [m EXCEPT !.tag = m.tag % 4]
    BY <1>3, <1>5 DEF NetBar
  <2>2. m.tag = epoch[r] + 1 /\ m.t = t /\ b.tag = m.tag % 4 /\ b.t = m.t
    BY <2>1
  <2>3. QED
    BY <1>1, <1>2, <2>2 DEF EpochBar
<1>6. \A p \in pending[r] : p <= p
  BY ConstantsAssumption DEF IInv, TypeOK, EventTime, Time
<1>7. QED
  BY <1>1, <1>4, <1>5, <1>6 DEF Service!ClientStep, NetBar, EpochBar

LEMMA ReceiveStep ==
  ASSUME IInv, NEW m \in InFlight, Receive(m)
  PROVE  m.dst \in Ranks /\ Service!ClientStep(m.dst)
<1> DEFINE b == [m EXCEPT !.tag = m.tag % 4]
<1>1. /\ sent' = sent /\ rcvd' = rcvd \cup {m}
      /\ pending' = [pending EXCEPT ![m.dst] = @ \cup {m.t}]
  BY DEF Receive
<1>2. m \in Message /\ m.dst \in Ranks /\ b.dst = m.dst /\ b.t = m.t
  BY TwoTags, BarFields DEF Message
<1>3. InFlight' = InFlight \ {m}
  BY <1>1 DEF InFlight
<1>4. NetBar' = NetBar \ {b} /\ b \in NetBar
  <2>1. \A n \in InFlight : n # m => [n EXCEPT !.tag = n.tag % 4] # b
    BY BarInjective
  <2>2. QED
    BY <1>3, <2>1 DEF NetBar
<1>5. /\ \A p \in pending[m.dst] : p <= p
      /\ m.t <= m.t /\ pending \in [Ranks -> SUBSET EventTime]
  BY <1>2, ConstantsAssumption DEF IInv, TypeOK, EventTime, Time, Message
<1>6. NetBar \ NetBar' = {b} /\ NetBar' \ NetBar = {}
  BY <1>4
<1>7. QED
  BY <1>1, <1>2, <1>5, <1>6 DEF Service!ClientStep, NetBar

LEMMA LocalStep ==
  ASSUME IInv, NEW r \in Ranks, NEW t \in EventTime, Spawn(r, t) \/ Finish(r, t)
  PROVE  Service!ClientStep(r)
<1>1. NetBar' = NetBar
  BY DEF Spawn, Finish, NetBar, InFlight
<1>2. pending \in [Ranks -> SUBSET EventTime] /\ \A p \in EventTime : p <= p
  BY ConstantsAssumption DEF IInv, TypeOK, EventTime, Time
<1>3. /\ \A u \in pending'[r] : \E p \in pending[r] : p <= u
      /\ \A s \in Ranks \ {r} : pending'[s] = pending[s]
  BY <1>2 DEF Spawn, Finish
<1>4. QED
  BY <1>1, <1>3 DEF Service!ClientStep, NetBar

(* Steps of the client leave the collective alone.                         *)
LEMMA ClientSteps ==
  ASSUME UNCHANGED <<epoch, status1, gvt1, contrib, undelivered, quiesced, gvt>>
  PROVE  UNCHANGED Service!collVars
BY DEF Service!collVars

-----------------------------------------------------------------------------
(* The collective's steps.                                                 *)
LEMMA NextModulo == \A n \in Nat : (n + 1) % 4 = ((n % 4) + 1) % 4
OBVIOUS

LEMMA BeginStep ==
  ASSUME IInv, NEW r \in Ranks, NEW lvt \in Time, CollBegin(r, lvt)
  PROVE  Service!Begin(r)
<1>1. epoch \in [Ranks -> Nat] /\ status1[r] # "reducing" /\ status0[r] = status1[r]
  BY DEF IInv, TypeOK, CollBegin
<1>2. epoch' = IF status1[r] = "quiesced" THEN [epoch EXCEPT ![r] = @ + 1] ELSE epoch
  BY <1>1 DEF CollBegin, EnterEpoch
<1>3. EpochBar' = [EpochBar EXCEPT ![r] = IF status1[r] = "quiesced"
                                          THEN (EpochBar[r] + 1) % 4 ELSE EpochBar[r]]
  <2>1. CASE status1[r] = "quiesced"
    <3>1. epoch[r] \in Nat /\ (epoch[r] + 1) % 4 = ((epoch[r] % 4) + 1) % 4
      BY <1>1, NextModulo
    <3>2. \A s \in Ranks : epoch'[s] = IF s = r THEN epoch[r] + 1 ELSE epoch[s]
      BY <1>1, <1>2, <2>1
    <3>3. EpochBar[r] = epoch[r] % 4
      BY DEF EpochBar
    <3>4. EpochBar' = [EpochBar EXCEPT ![r] = (EpochBar[r] + 1) % 4]
      BY <3>1, <3>2, <3>3, Zenon DEF EpochBar
    <3>5. QED
      BY <2>1, <3>4
  <2>2. CASE status1[r] # "quiesced"
    BY <1>1, <1>2, <2>2 DEF EpochBar
  <2>3. QED
    BY <2>1, <2>2
<1>4. QED
  BY <1>1, <1>3 DEF CollBegin, Service!Begin, Service!Entered, EpochBar

(* What the verdict of a collective says of the messages and events left,  *)
(* seen from the state after it.                                           *)
LEMMA VerdictTrue ==
  ASSUME IInv, IInv', NEW q \in BOOLEAN, NEW aL, Conclude(q, aL), UNCHANGED clientVars,
         gvt <= gvt'
  PROVE  Service!MayConclude(cepoch % 4, Verdict(q), gvt')
<1>1. InFlight' = InFlight /\ pending' = pending
  BY DEF clientVars, InFlight
<1>2. CASE q
  <2>1. cepoch' = cepoch + 1 /\ cepoch \in Nat
    BY <1>2 DEF Conclude, IInv, TypeOK
  <2>2. ASSUME NEW m \in InFlight
        PROVE  m \in Message /\ m.tag % 4 # cepoch % 4 /\ gvt' <= m.t
    <3>1. m.tag >= cepoch' /\ gvt' <= m.t
      BY <1>1 DEF IInv, MsgInv, BoundInv
    <3>2. QED
      BY <2>1, <3>1, TwoTags
  <2>3. \A b \in NetBar : b.tag # cepoch % 4 /\ gvt' <= b.t
    BY <2>2, BarFields DEF NetBar
  <2>4. \A r \in Ranks : \A p \in pending[r] : gvt' <= p
    BY <1>1 DEF IInv, BoundInv
  <2>5. QED
    BY <1>2, <2>3, <2>4 DEF Service!MayConclude, NetBar, Verdict
<1>3. CASE ~ q
  BY <1>3 DEF Conclude, Service!MayConclude, Verdict
<1>4. QED
  BY <1>2, <1>3

LEMMA ConcludeStep ==
  ASSUME IInv, CopyInv, NEW q \in BOOLEAN, NEW aL, Conclude(q, aL),
         \A r \in Ranks : gvt1[r] = gvt
  PROVE  Service!Conclude(Verdict(q), gvt')
<1>1. Verdict(quiesced') = Verdict(q)
  BY DEF Conclude
<1>2. gvt1' = [gvt1 EXCEPT ![Root] = gvt']
  BY ConstantsAssumption DEF Conclude, IInv, TypeOK
<1>3. QED
  BY <1>1, <1>2 DEF Conclude, Service!Conclude

LEMMA CompleteStep ==
  ASSUME IInv, CopyInv, Complete
  PROVE  \E v \in Service!Verdicts, g \in 0 .. Inf : Service!Complete(v, g)
<1> DEFINE q == accSend = accRecv
<1>1. Conclude(q, accLvt) /\ status1' = [status1 EXCEPT ![Root] = Verdict(q)]
      /\ UNCHANGED <<epoch, clientVars>> /\ contrib = Ranks
  BY DEF Complete
<1>2. IInv' /\ gvt <= gvt' /\ gvt' \in 0 .. Inf
  <2>1. IInv'
    BY CompleteInv
  <2>2. gvt <= gvt'
    BY <1>1, ConstantsAssumption DEF Conclude, IInv, BoundInv, TypeOK, Time
  <2>3. QED
    BY <2>1, <2>2 DEF IInv, TypeOK, Time
<1>3. \A r \in Ranks : gvt1[r] = gvt
  BY <1>1 DEF IInv, CollInv, CopyInv
<1>4. EpochBar[Root] = cepoch % 4
  BY <1>1, ConstantsAssumption DEF EpochBar, IInv, CollInv
<1>5. Service!MayConclude(EpochBar[Root], Verdict(q), gvt')
  BY <1>1, <1>2, <1>4, VerdictTrue
<1>6. Service!Conclude(Verdict(q), gvt')
  BY <1>1, <1>3, ConcludeStep
<1>7. Verdict(q) \in Service!Verdicts
  BY DEF Verdict, Service!Verdicts
<1>8. Service!Complete(Verdict(q), gvt')
  BY <1>1, <1>5, <1>6 DEF Service!Complete, EpochBar
<1>9. QED
  BY <1>2, <1>7, <1>8

LEMMA BeginLastStep ==
  ASSUME IInv, CopyInv, NEW lvt \in Time, CollBeginLast(lvt)
  PROVE  \E v \in Service!Verdicts, g \in 0 .. Inf : Service!BeginLast(v, g)
<1>1. PICK q \in BOOLEAN, aL \in {Least(accLvt, lvt0'[Root])} :
      /\ Conclude(q, aL) /\ status1' = [status1 EXCEPT ![Root] = Verdict(q)]
      /\ UNCHANGED clientVars /\ contrib = Ranks \ {Root}
      /\ status0[Root] = status1[Root] /\ status1[Root] # "reducing"
      /\ EnterEpoch(Root, lvt)
  BY DEF CollBeginLast
<1>2. IInv' /\ gvt <= gvt' /\ gvt' \in 0 .. Inf
  <2>1. IInv'
    BY CollBeginLastInv
  <2>2. gvt' \in 0 .. Inf
    BY <2>1 DEF IInv, TypeOK, Time
  <2>3. Next
    BY DEF Next
  <2>4. gvt1[Root] = gvt
    BY <1>1, RootReady, ConstantsAssumption DEF CopyInv
  <2>5. gvt1[Root] <= gvt1'[Root]
    BY <2>3, StepMonotone, ConstantsAssumption DEF Mono
  <2>6. gvt1'[Root] <= gvt'
    BY <2>1, ConstantsAssumption DEF IInv, BoundInv
  <2>7. gvt \in Int /\ gvt1'[Root] \in Int /\ gvt' \in Int
    BY <2>1, ConstantsAssumption DEF IInv, TypeOK, Time
  <2>8. QED
    BY <2>1, <2>2, <2>4, <2>5, <2>6, <2>7
<1>3. \A r \in Ranks : gvt1[r] = gvt
  BY <1>1, RootReady, CopiesCurrent, ConstantsAssumption
<1>4. epoch' = IF status1[Root] = "quiesced" THEN [epoch EXCEPT ![Root] = @ + 1] ELSE epoch
  BY <1>1 DEF EnterEpoch
<1>5. epoch'[Root] = cepoch
  <2>1. contrib' = {} /\ quiesced' = q /\ cepoch' = (IF q THEN cepoch + 1 ELSE cepoch)
    BY <1>1 DEF Conclude
  <2>2. epoch'[Root] = IF quiesced' THEN cepoch' - 1 ELSE cepoch'
    BY <1>2, <2>1, ConstantsAssumption DEF IInv, CollInv
  <2>3. cepoch \in Nat
    BY DEF IInv, TypeOK
  <2>4. ASSUME quiesced' PROVE epoch'[Root] = cepoch
    <3>1. cepoch' = cepoch + 1 /\ epoch'[Root] = cepoch' - 1
      BY <2>1, <2>2, <2>4
    <3>2. QED
      BY <2>3, <3>1
  <2>5. ASSUME ~ quiesced' PROVE epoch'[Root] = cepoch
    BY <2>1, <2>2, <2>5
  <2>6. QED
    BY <2>4, <2>5
<1>6. /\ EpochBar' = [EpochBar EXCEPT ![Root] = Service!Entered(Root)]
      /\ Service!Entered(Root) = cepoch % 4
  <2>1. epoch \in [Ranks -> Nat] /\ Root \in Ranks
    BY ConstantsAssumption DEF IInv, TypeOK
  <2>2. Service!Entered(Root) = epoch'[Root] % 4
    BY <1>4, <2>1 DEF Service!Entered
  <2>3. QED
    BY <1>4, <1>5, <2>1, <2>2 DEF EpochBar
<1>7. Service!MayConclude(Service!Entered(Root), Verdict(q), gvt')
  BY <1>1, <1>2, <1>6, VerdictTrue
<1>8. Service!Conclude(Verdict(q), gvt')
  BY <1>1, <1>3, ConcludeStep
<1>9. Service!BeginLast(Verdict(q), gvt')
  BY <1>1, <1>6, <1>7, <1>8, ConstantsAssumption DEF Service!BeginLast, EpochBar
<1>10. Verdict(q) \in Service!Verdicts
  BY DEF Verdict, Service!Verdicts
<1>11. gvt' \in 0 .. Inf
  BY <1>2
<1>12. QED
  BY <1>9, <1>10, <1>11 DEF Service!BeginLast

LEMMA DeliverStep ==
  ASSUME IInv, CopyInv, NEW r \in Ranks, Deliver(r)
  PROVE  Service!Deliver(r)
<1>1. gvt1' = [gvt1 EXCEPT ![r] = gvt]
  BY DEF Deliver, CopyInv, IInv, TypeOK
<1>2. QED
  BY <1>1 DEF Deliver, Service!Deliver

-----------------------------------------------------------------------------
(* Every step of the protocol is a step of the service, or none.           *)
LEMMA ServiceStep ==
  ASSUME IInv, CopyInv, [Next]_vars
  PROVE  [Service!Next]_<<Service!collVars, Service!clientVars>>
<1>1. ASSUME UNCHANGED clientVars
      PROVE  UNCHANGED Service!clientVars
  BY <1>1 DEF clientVars, Service!clientVars, InFlight
<1>2. ASSUME NEW r \in Ranks, NEW D \in SUBSET Ranks, NEW t \in EventTime, Send(r, D, t)
      PROVE  Service!Next
  BY <1>2, SendStep, ClientSteps DEF Send, rankVars, collVars, Service!Next
<1>3. ASSUME NEW m \in InFlight, Receive(m)
      PROVE  Service!Next
  BY <1>3, ReceiveStep, ClientSteps DEF Receive, rankVars, collVars, Service!Next
<1>4. ASSUME NEW r \in Ranks, NEW t \in EventTime, Spawn(r, t) \/ Finish(r, t)
      PROVE  Service!Next
  BY <1>4, LocalStep, ClientSteps DEF Spawn, Finish, rankVars, collVars, Service!Next
<1>5. ASSUME NEW r \in Ranks, Advance(r)
      PROVE  UNCHANGED <<Service!collVars, Service!clientVars>>
  BY <1>1, <1>5, ClientSteps DEF Advance, collVars
<1>6. ASSUME NEW r \in Ranks, NEW lvt \in Time, CollBegin(r, lvt)
      PROVE  Service!Next
  BY <1>1, <1>6, BeginStep DEF CollBegin, Service!Next
<1>7. CASE Complete
  BY <1>1, <1>7, CompleteStep DEF Complete, Service!Next
<1>8. ASSUME NEW lvt \in Time, CollBeginLast(lvt)
      PROVE  Service!Next
  BY <1>1, <1>8, BeginLastStep DEF CollBeginLast, Service!Next
<1>9. ASSUME NEW r \in Ranks, Deliver(r)
      PROVE  Service!Next
  BY <1>1, <1>9, DeliverStep DEF Deliver, Service!Next
<1>10. CASE UNCHANGED vars
  BY <1>1, <1>10, ClientSteps DEF vars, rankVars, collVars
<1>11. QED
  BY <1>2, <1>3, <1>4, <1>5, <1>6, <1>7, <1>8, <1>9, <1>10 DEF Next

(* The GVT protocol keeps its contract with the engine: one verdict for    *)
(* all ranks, "quiesced" only if nothing of the epoch is under way, and a  *)
(* GVT that nothing left is earlier than.                                  *)
THEOREM Contract == Spec => ImplementsService
<1>1. Spec => [](IInv /\ CopyInv)
  BY CopiesInvariant
<1>2. QED
  BY <1>1, ServiceInit, ServiceStep, PTL DEF Spec, ImplementsService, Service!Spec
=============================================================================
