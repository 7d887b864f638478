--------------------------- MODULE Framing_proof ---------------------------
(***************************************************************************)
(* What is proved of the two framings.  Of IL2P: that every block         *)
(* il2p_payload_compute plans fits a codeword, for every payload size at  *)
(* once, and that the limit il2p_type_1_header sets to the information part*)
(* keeps all packets to these sizes; that the descrambler undoes the      *)
(* scrambler, for blocks of any length; that the Reed-Solomon code repairs *)
(* a header of which one octet is damaged, from the laws of its field;     *)
(* that a packet arrives as it was sent; and that the receiver of this     *)
(* commit receives nothing.  Of KISS: that kiss_unwrap undoes              *)
(* kiss_encapsulate, for packets of any length, that nothing is queued but *)
(* what a client began to send, that the listener finds its way back after *)
(* a broken frame, and that a packet written whole is read.                *)
(***************************************************************************)
EXTENDS FrameCodec, KissFrame, FiniteSetTheorems, SequenceTheorems, WellFoundedInduction, TLAPS

\* Rounding up: the blocks have room for 239 octets each and there is no block
\* too many.
LEMMA BlockCountBounds ==
  ASSUME NEW n \in 1 .. IL2P_MAX_PAYLOAD_SIZE
  PROVE  BlockCount(n) \in 1 .. 5 /\ n <= 239 * BlockCount(n)
  BY SMT DEF BlockCount, IL2P_MAX_PAYLOAD_SIZE

\* Division by the number of blocks, which is one of five.
LEMMA SmallSizeBounds ==
  ASSUME NEW n \in Nat, NEW d \in 1 .. 5, n <= 239 * d
  PROVE  /\ n \div d \in 0 .. 239
         /\ d * (n \div d) <= n
         /\ n - d * (n \div d) > 0 => n \div d <= 238
  <1>1. CASE d = 1  BY <1>1, SMT
  <1>2. CASE d = 2  BY <1>2, SMT
  <1>3. CASE d = 3  BY <1>3, SMT
  <1>4. CASE d = 4  BY <1>4, SMT
  <1>5. CASE d = 5  BY <1>5, SMT
  <1> QED  BY <1>1, <1>2, <1>3, <1>4, <1>5, SMT

\* No block of any plan exceeds 239 octets.
LEMMA BlockSizeBounds ==
  ASSUME NEW n \in 1 .. IL2P_MAX_PAYLOAD_SIZE, NEW i \in Nat \ {0}
  PROVE  BlockSize(n, i) <= 239
  <1>1. BlockCount(n) \in 1 .. 5 /\ n <= 239 * BlockCount(n)
    BY BlockCountBounds
  <1>2. n \in Nat
    BY SMT DEF IL2P_MAX_PAYLOAD_SIZE
  <1>3. /\ SmallSize(n) \in 0 .. 239
        /\ LargeCount(n) > 0 => SmallSize(n) <= 238
    BY <1>1, <1>2, SmallSizeBounds, Zenon DEF SmallSize, LargeCount
  <1>4. LargeCount(n) \in Int
    BY <1>1, <1>2, <1>3, SMT DEF LargeCount
  <1> QED
    BY <1>3, <1>4, SMT DEF BlockSize, LargeSize

\* The two loops put out every octet of the payload and no other.
THEOREM BlocksCoverPayload ==
  ASSUME NEW n \in 1 .. IL2P_MAX_PAYLOAD_SIZE
  PROVE  LargeCount(n) * LargeSize(n) + SmallCount(n) * SmallSize(n) = n
  <1>1. BlockCount(n) \in 1 .. 5 /\ n <= 239 * BlockCount(n)
    BY BlockCountBounds
  <1>2. n \in Nat
    BY SMT DEF IL2P_MAX_PAYLOAD_SIZE
  <1>3. SmallSize(n) \in Nat
    BY <1>1, <1>2, SmallSizeBounds, SMT DEF SmallSize
  <1>4. ASSUME NEW B \in 1 .. 5, NEW s \in Nat
        PROVE  (n - B * s) * (s + 1) + (B - (n - B * s)) * s = n
    <2>1. n \in Int /\ B \in Int /\ s \in Int  BY <1>2, SMT
    <2> QED  BY <2>1, SMT
  <1> QED
    BY <1>1, <1>3, <1>4, Zenon DEF LargeCount, LargeSize, SmallCount

-----------------------------------------------------------------------------
\* The encoder is never given more than the ten bits of the header can count.
SizeInv == /\ sent.info \in Nat
           /\ size \in 0 .. IL2P_MAX_PAYLOAD_SIZE

\* No packet is queued with a payload size, and what is queued has a length.
LEMMA InitSize == Init => SizeInv
  <1> SUFFICES ASSUME Init PROVE SizeInv
    OBVIOUS
  <1>1. sent.info \in Nat
    BY CodecAssumption DEF Init, AnyPacket
  <1>2. size \in 0 .. IL2P_MAX_PAYLOAD_SIZE
    BY SMT DEF Init, PayloadInit, IL2P_MAX_PAYLOAD_SIZE
  <1> QED  BY <1>1, <1>2 DEF SizeInv

\* Only il2p_send_frame sets the size, to a length Encodable has let through.
LEMMA SizeStep == SizeInv /\ [Next]_vars => SizeInv'
  <1> SUFFICES ASSUME SizeInv, [Next]_vars PROVE SizeInv'
    OBVIOUS
  <1>1. CASE il2p_send_frame
    <2>1. sent' = sent
      BY <1>1 DEF il2p_send_frame
    <2>2. CASE Encodable(sent)
      <3>1. size' = sent.info /\ sent.info <= IL2P_MAX_PAYLOAD_SIZE
        BY <1>1, <2>2 DEF il2p_send_frame, Encodable
      <3>2. sent.info \in Nat
        BY DEF SizeInv
      <3>3. size' \in 0 .. IL2P_MAX_PAYLOAD_SIZE
        BY <3>1, <3>2, SMT DEF IL2P_MAX_PAYLOAD_SIZE
      <3> QED  BY <2>1, <3>2, <3>3 DEF SizeInv
    <2>3. CASE ~Encodable(sent)
      BY <1>1, <2>1, <2>3 DEF il2p_send_frame, SizeInv
    <2> QED  BY <2>2, <2>3
  <1>2. CASE \/ il2p_encode_payload \/ il2p_decode_header \/ il2p_decode_payload
             \/ il2p_decode_header_payload \/ UNCHANGED vars
             \/ \E at \in DamagedAt, by \in DamagedBy : il2p_rec_bit(at, by)
    <2>1. sent' = sent /\ size' = size
      BY <1>2 DEF il2p_encode_payload, EncodeBlock, il2p_rec_bit, il2p_decode_header,
                  il2p_decode_payload, DecodeBlock, il2p_decode_header_payload,
                  vars, payloadVars
    <2> QED  BY <2>1 DEF SizeInv
  <1> QED  BY <1>1, <1>2 DEF Next

\* Whatever packets are queued, every block that is sent fits a codeword with
\* its parity, and there are never more than five.
THEOREM BlocksAlwaysFit == Spec => []BlocksFit
  <1>1. ASSUME SizeInv, size # 0 PROVE BlocksFit
    <2>1. size \in 1 .. IL2P_MAX_PAYLOAD_SIZE
      BY <1>1, SMT DEF SizeInv, IL2P_MAX_PAYLOAD_SIZE
    <2>2. BlockCount(size) \in 1 .. 5
      BY <2>1, BlockCountBounds
    <2>3. ASSUME NEW i \in 1 .. BlockCount(size)
          PROVE  BlockSize(size, i) + ParitySymbols <= 255
      <3>1. i \in Nat \ {0}  BY <2>2, SMT
      <3>2. BlockSize(size, i) <= 239  BY <2>1, <3>1, BlockSizeBounds
      <3>3. BlockSize(size, i) \in Int
        <4>1. size \in Nat
          BY <2>1, SMT DEF IL2P_MAX_PAYLOAD_SIZE
        <4>2. size <= 239 * BlockCount(size)
          BY <2>1, BlockCountBounds
        <4>3. SmallSize(size) \in 0 .. 239
          BY <2>2, <4>1, <4>2, SmallSizeBounds, Zenon DEF SmallSize
        <4> QED  BY <4>3, SMT DEF BlockSize, LargeSize
      <3> QED  BY <3>2, <3>3, SMT DEF ParitySymbols
    <2> QED  BY <2>2, <2>3, SMT DEF BlocksFit
  <1>2. ASSUME size = 0 PROVE BlocksFit
    <2>1. BlockCount(size) = 0
      BY <1>2, SMT DEF BlockCount
    <2> QED  BY <2>1, SMT DEF BlocksFit
  <1>3. SizeInv => BlocksFit
    BY <1>1, <1>2
  <1> QED  BY <1>3, InitSize, SizeStep, PTL DEF Spec

-----------------------------------------------------------------------------
(* The receiver, for every accumulator and every sync word with two bits set *)
(* above bit 0.                                                              *)

CONSTANTS AccBits, IL2P_SYNC_WORD, HeaderOctets, PayloadLens

VARIABLES F, frames, recent

Rec == INSTANCE Il2pReceiver

\* The real sync word, 0xF15E48, is one: its bits 23 and 22 are set.
TwoHighBits ==
  /\ AccBits \in Nat
  /\ IL2P_SYNC_WORD \subseteq 0 .. AccBits - 1
  /\ \E i, j \in IL2P_SYNC_WORD : i # j /\ i > 0 /\ j > 0

\* The operator of FiniteSets that Il2pReceiver sees is the one of its theorems.
LEMMA SameCardinality ==
  ASSUME NEW D
  PROVE  Rec!Cardinality(D) = Cardinality(D)
  BY DEF Rec!Cardinality, Cardinality

\* Two words that differ in the bits i and j differ in two bits at least.
LEMMA TwoDiffer ==
  ASSUME NEW n \in Nat, NEW w \in SUBSET (0 .. n - 1), NEW a \in SUBSET {0},
         NEW i \in w, NEW j \in w, i # j, i > 0, j > 0
  PROVE  Rec!Differing(a, w) > 1
<1> DEFINE D == (a \ w) \cup (w \ a)
<1>1. IsFiniteSet(0 .. n - 1) /\ IsFiniteSet({0})
  <2>1. 0 \in Int /\ n - 1 \in Int
    OBVIOUS
  <2>2. IsFiniteSet(0 .. n - 1)
    BY <2>1, FS_Interval
  <2> QED BY <2>2, FS_Singleton
<1>2. IsFiniteSet(w) /\ IsFiniteSet(a)
  BY <1>1, FS_Subset
<1>3. IsFiniteSet(D)
  <2>1. IsFiniteSet(w \cup a)
    BY <1>2, FS_Union
  <2>2. D \subseteq w \cup a
    OBVIOUS
  <2> QED BY <2>1, <2>2, FS_Subset
<1>4. {i, j} \subseteq D
  OBVIOUS
<1>5. Cardinality({i, j}) = 2
  <2>1. IsFiniteSet({i}) /\ Cardinality({i}) = 1
    BY FS_Singleton
  <2>2. Cardinality({i} \cup {j}) = Cardinality({i}) + 1
    BY <2>1, FS_AddElement
  <2>3. {i} \cup {j} = {i, j}
    OBVIOUS
  <2> QED BY <2>1, <2>2, <2>3
<1>6. Cardinality({i, j}) <= Cardinality(D)
  BY <1>3, <1>4, FS_Subset
<1>7. Cardinality(D) \in Nat
  BY <1>3, FS_CardinalityType
<1>8. Rec!Cardinality(D) = Cardinality(D)
  BY SameCardinality
<1> QED BY <1>5, <1>6, <1>7, <1>8 DEF Rec!Differing

\* After any bit the accumulator, cleared before it, is not the sync word.
LEMMA NeverSynchronised ==
  ASSUME TwoHighBits, NEW dbit \in {0, 1}
  PROVE  Rec!Differing(Rec!Shifted({}, dbit), IL2P_SYNC_WORD) > 1
<1>1. Rec!Shifted({}, dbit) \subseteq {0}
  BY DEF Rec!Shifted
<1>2. PICK i, j \in IL2P_SYNC_WORD : i # j /\ i > 0 /\ j > 0
  BY DEF TwoHighBits
<1> QED BY <1>1, <1>2, TwoDiffer DEF TwoHighBits

NotSynchronised == F.state = "searching" /\ frames = 0

\* Whatever bits the demodulator gives, those of a perfect frame among them,
\* il2p_rec_bit passes nothing to dlq_rec_frame: memset takes all earlier bits
\* and the state from the context before the new bit is looked at.
THEOREM NeverReceives == ASSUME TwoHighBits PROVE Rec!Spec => []Rec!NothingReceived
<1>1. Rec!Init => NotSynchronised
  BY DEF Rec!Init, NotSynchronised, Rec!Zeroed
<1>2. NotSynchronised /\ [Rec!Next]_(Rec!vars) => NotSynchronised'
  <2> SUFFICES ASSUME NotSynchronised, [Rec!Next]_(Rec!vars) PROVE NotSynchronised'
    OBVIOUS
  <2>1. ASSUME NEW dbit \in {0, 1}, Rec!il2p_rec_bit(dbit) PROVE NotSynchronised'
    <3> DEFINE C == [Rec!Context EXCEPT !.acc = Rec!Shifted(@, dbit)]
    <3>1. C.state = "searching" /\ C.acc = Rec!Shifted({}, dbit)
      BY DEF Rec!Context, Rec!Zeroed
    <3>2. ~(Rec!Differing(C.acc, IL2P_SYNC_WORD) <= 1)
      <4>1. Rec!Differing(C.acc, IL2P_SYNC_WORD) > 1
        BY <3>1, NeverSynchronised
      <4>2. Rec!Differing(C.acc, IL2P_SYNC_WORD) \in Nat
        <5> DEFINE D == (C.acc \ IL2P_SYNC_WORD) \cup (IL2P_SYNC_WORD \ C.acc)
        <5>1. IsFiniteSet(0 .. AccBits - 1) /\ IsFiniteSet({0})
          <6>1. 0 \in Int /\ AccBits - 1 \in Int
            BY DEF TwoHighBits
          <6>2. IsFiniteSet(0 .. AccBits - 1)
            BY <6>1, FS_Interval
          <6> QED BY <6>2, FS_Singleton
        <5>2. IsFiniteSet((0 .. AccBits - 1) \cup {0})
          BY <5>1, FS_Union
        <5>3. D \subseteq (0 .. AccBits - 1) \cup {0}
          BY <3>1 DEF TwoHighBits, Rec!Shifted
        <5>4. IsFiniteSet(D)
          BY <5>2, <5>3, FS_Subset
        <5>5. Rec!Cardinality(D) = Cardinality(D)
          BY SameCardinality
        <5> QED BY <5>4, <5>5, FS_CardinalityType DEF Rec!Differing
      <4> QED BY <4>1, <4>2
    <3>3. Rec!Search(C) = C
      BY <3>2 DEF Rec!Search
    <3>4. F' = C /\ frames' = frames
      BY <2>1, <3>1, <3>3 DEF Rec!il2p_rec_bit
    <3> QED BY <3>1, <3>4 DEF NotSynchronised
  <2>2. CASE UNCHANGED Rec!vars
    BY <2>2 DEF NotSynchronised, Rec!vars
  <2> QED BY <2>1, <2>2 DEF Rec!Next
<1>3. NotSynchronised => Rec!NothingReceived
  BY DEF NotSynchronised, Rec!NothingReceived
<1> QED BY <1>1, <1>2, <1>3, PTL DEF Rec!Spec

-----------------------------------------------------------------------------
(* Induction over numbers.  That < is well founded on them is known of sets of *)
(* numbers, so a fact is proved for all of them by collecting those it holds   *)
(* for, and a function defined by recursion is shown to exist before it is used. *)

\* Every natural number is in a set that has 0 and with each number the next.
LEMMA NaturalsIn ==
  ASSUME NEW T, 0 \in T, \A n \in T : n \in Nat => n + 1 \in T
  PROVE  Nat \subseteq T
<1> DEFINE Less == {p \in Nat \X Nat : p[1] < p[2]}
           U == {n \in Nat : n \notin T}
<1>1. IsWellFoundedOn(Less, Nat)
  <2>1. OpToRel(<, Nat) = Less
    BY DEF OpToRel
  <2> QED BY <2>1, NatLessThanWellFounded, Zenon
<1> SUFFICES ASSUME U # {} PROVE FALSE
  OBVIOUS
<1>2. PICK x \in U : \A y \in U : ~ (<<y, x>> \in Less)
  <2>1. U \subseteq Nat
    OBVIOUS
  <2> HIDE DEF U, Less
  <2> QED BY <1>1, <2>1, WFMin, Zenon
<1>3. x \in Nat /\ x \notin T /\ x # 0
  BY SMT
<1>4. x - 1 \in Nat /\ x - 1 < x /\ (x - 1) + 1 = x
  BY <1>3, SMT
<1>5. x - 1 \in T
  <2> SUFFICES ASSUME x - 1 \notin T PROVE FALSE
    OBVIOUS
  <2>1. x - 1 \in U
    BY <1>4
  <2>2. <<x - 1, x>> \in Less
    BY <1>3, <1>4
  <2> QED BY <1>2, <2>1, <2>2
<1> QED BY <1>3, <1>4, <1>5

\* A function may be defined by what it is at 0 and how it goes on.
Recurs(h, N, base, step) ==
  /\ h[0] = base
  /\ \A n \in 1 .. N : h[n] = step[<<h[n - 1], n>>]

LEMMA Recursion ==
  ASSUME NEW A, NEW base \in A, NEW N \in Nat, NEW step \in [A \X (1 .. N) -> A]
  PROVE  \E h \in [0 .. N -> A] : Recurs(h, N, base, step)
<1> DEFINE Up(m) == \E h \in [0 .. m -> A] :
                      /\ h[0] = base
                      /\ \A n \in 1 .. m : h[n] = step[<<h[n - 1], n>>]
           T == {m \in Nat : m <= N => Up(m)}
<1>1. 0 \in T
  <2>1. [i \in 0 .. 0 |-> base] \in [0 .. 0 -> A] /\ [i \in 0 .. 0 |-> base][0] = base
    OBVIOUS
  <2>2. \A n \in 1 .. 0 : FALSE
    BY SMT
  <2> QED BY <2>1, <2>2
<1>2. ASSUME NEW m \in T, m \in Nat, m + 1 <= N PROVE Up(m + 1)
  <2>1. PICK h \in [0 .. m -> A] :
              /\ h[0] = base
              /\ \A n \in 1 .. m : h[n] = step[<<h[n - 1], n>>]
    BY <1>2, SMT
  <2> DEFINE g == [i \in 0 .. m + 1 |-> IF i = m + 1 THEN step[<<h[m], m + 1>>] ELSE h[i]]
  <2>2. h[m] \in A /\ m + 1 \in 1 .. N
    BY <1>2
  <2>3. step[<<h[m], m + 1>>] \in A
    BY <2>2
  <2>4. g \in [0 .. m + 1 -> A]
    BY <2>3
  <2>5. g[0] = base
    BY <1>2, <2>1
  <2>6. ASSUME NEW n \in 1 .. m + 1 PROVE g[n] = step[<<g[n - 1], n>>]
    <3>1. CASE n = m + 1
      <4>1. g[n] = step[<<h[m], m + 1>>] /\ n - 1 \in 0 .. m /\ n - 1 = m
        BY <1>2, <3>1, SMT
      <4>2. g[n - 1] = h[m]
        BY <1>2, <4>1, SMT
      <4> QED BY <3>1, <4>1, <4>2
    <3>2. CASE n # m + 1
      <4>1. n \in 1 .. m /\ n - 1 \in 0 .. m
        BY <1>2, <3>2, SMT
      <4>2. g[n] = h[n] /\ g[n - 1] = h[n - 1]
        BY <1>2, <4>1, SMT
      <4> QED BY <2>1, <4>1, <4>2
    <3> QED BY <3>1, <3>2
  <2> QED BY <2>4, <2>5, <2>6
<1>3. Nat \subseteq T
  <2>1. ASSUME NEW n \in T, n \in Nat PROVE n + 1 \in T
    <3>1. n + 1 \in Nat
      BY <2>1
    <3> QED BY <1>2, <2>1, <3>1
  <2> HIDE DEF T
  <2> QED BY <1>1, <2>1, NaturalsIn
<1>4. N \in T
  BY <1>3
<1>5. N <= N
  BY SMT
<1> QED BY <1>4, <1>5 DEF Recurs

\* The largest of a set of numbers up to m + 1 that has m + 1.
LEMMA LargestIs ==
  ASSUME NEW m \in Nat, NEW s, s \subseteq 1 .. m, m \in s
  PROVE  Max(s) = m
<1>1. \A y \in s : m >= y
  BY SMT
<1>2. \A x \in s : (\A y \in s : x >= y) => x = m
  BY SMT
<1> QED BY <1>1, <1>2 DEF Max

\* The largest of a set of numbers is one of them.
LEMMA LargestIn ==
  ASSUME NEW N \in Nat, NEW s, s \subseteq 1 .. N, s # {}
  PROVE  Max(s) \in s
<1> DEFINE Less == {p \in Nat \X Nat : p[1] < p[2]}
           U == {n \in Nat : \E x \in s : x + n = N}
<1>2. PICK x \in U : \A y \in U : ~ (<<y, x>> \in Less)
  <2>1. IsWellFoundedOn(Less, Nat)
    <3>1. OpToRel(<, Nat) = Less
      BY DEF OpToRel
    <3> QED BY <3>1, NatLessThanWellFounded, Zenon
  <2>2. U \subseteq Nat /\ U # {}
    <3>1. PICK x : x \in s
      OBVIOUS
    <3>2. N - x \in Nat /\ x + (N - x) = N
      BY <3>1, SMT
    <3> QED BY <3>1, <3>2
  <2> HIDE DEF U, Less
  <2> QED BY <2>1, <2>2, WFMin, Zenon
<1>3. PICK m \in s : m + x = N
  OBVIOUS
<1>4. \A y \in s : m >= y
  <2> SUFFICES ASSUME NEW y \in s, ~(m >= y) PROVE FALSE
    OBVIOUS
  <2>1. N - y \in Nat /\ y + (N - y) = N /\ N - y < x /\ x \in Nat
    BY <1>3, SMT
  <2>2. N - y \in U
    BY <2>1
  <2>3. <<N - y, x>> \in Less
    BY <2>1
  <2> QED BY <1>2, <2>2, <2>3
<1> QED BY <1>4 DEF Max

\* The same for a function on the sets of indices that takes the largest index
\* away, as FoldLeft does.
Descends(g, N, base, step) ==
  \A s \in SUBSET (1 .. N) :
     g[s] = IF s = {} THEN base ELSE step[<<g[s \ {Max(s)}], Max(s)>>]

LEMMA Descent ==
  ASSUME NEW A, NEW base \in A, NEW N \in Nat, NEW step \in [A \X (1 .. N) -> A]
  PROVE  \E g \in [SUBSET (1 .. N) -> A] : Descends(g, N, base, step)
<1> DEFINE Up(m) == \E g \in [SUBSET (1 .. m) -> A] : Descends(g, m, base, step)
           T == {m \in Nat : m <= N => Up(m)}
<1>1. 0 \in T
  <2>1. 1 .. 0 = {}
    BY SMT
  <2> DEFINE g == [s \in SUBSET (1 .. 0) |-> base]
  <2>2. g \in [SUBSET (1 .. 0) -> A]
    OBVIOUS
  <2>3. \A s \in SUBSET (1 .. 0) : s = {} /\ g[s] = base
    BY <2>1
  <2> QED BY <2>2, <2>3 DEF Descends
<1>2. ASSUME NEW m \in T, m \in Nat, m + 1 <= N PROVE Up(m + 1)
  <2>1. PICK g \in [SUBSET (1 .. m) -> A] :
              \A s \in SUBSET (1 .. m) :
                 g[s] = IF s = {} THEN base ELSE step[<<g[s \ {Max(s)}], Max(s)>>]
    <3>1. m <= N
      BY <1>2, SMT
    <3>2. PICK g \in [SUBSET (1 .. m) -> A] : Descends(g, m, base, step)
      BY <1>2, <3>1, Zenon
    <3> QED BY <3>2 DEF Descends
  <2> DEFINE f == [s \in SUBSET (1 .. m + 1) |->
                     IF m + 1 \in s THEN step[<<g[s \ {m + 1}], m + 1>>] ELSE g[s]]
  <2>2. ASSUME NEW s \in SUBSET (1 .. m + 1), m + 1 \in s
        PROVE  s \ {m + 1} \in SUBSET (1 .. m) /\ s \ {m + 1} \in SUBSET (1 .. m + 1) /\ Max(s) = m + 1
    <3>1. s \ {m + 1} \subseteq 1 .. m
      BY <1>2, SMT
    <3>2. m + 1 \in Nat /\ s \subseteq 1 .. m + 1
      BY <1>2
    <3>3. Max(s) = m + 1
      BY <2>2, <3>2, LargestIs
    <3> QED BY <3>1, <3>3
  <2>3. ASSUME NEW s \in SUBSET (1 .. m + 1), m + 1 \notin s PROVE s \in SUBSET (1 .. m)
    BY <1>2, <2>3, SMT
  <2>4. m + 1 \in 1 .. N
    BY <1>2, SMT
  <2>5. ASSUME NEW s \in SUBSET (1 .. m + 1) PROVE f[s] \in A
    <3>1. CASE m + 1 \in s
      <4>1. g[s \ {m + 1}] \in A
        BY <2>2, <3>1
      <4>2. step[<<g[s \ {m + 1}], m + 1>>] \in A
        BY <2>4, <4>1
      <4> QED BY <3>1, <4>2
    <3>2. CASE m + 1 \notin s
      BY <2>3, <3>2
    <3> QED BY <3>1, <3>2
  <2>6. f \in [SUBSET (1 .. m + 1) -> A]
    BY <2>5
  <2>7. ASSUME NEW s \in SUBSET (1 .. m + 1)
        PROVE  f[s] = IF s = {} THEN base ELSE step[<<f[s \ {Max(s)}], Max(s)>>]
    <3>1. CASE m + 1 \in s
      <4>1. f[s] = step[<<g[s \ {m + 1}], m + 1>>]
        BY <3>1
      <4>2. f[s \ {m + 1}] = g[s \ {m + 1}]
        BY <2>2, <3>1
      <4>3. Max(s) = m + 1 /\ s # {}
        BY <2>2, <3>1
      <4> HIDE DEF f
      <4> QED BY <4>1, <4>2, <4>3
    <3>2. CASE m + 1 \notin s
      <4>1. s \in SUBSET (1 .. m) /\ f[s] = g[s]
        BY <2>3, <3>2
      <4>2. f[s \ {Max(s)}] = g[s \ {Max(s)}]
        BY <3>2
      <4> HIDE DEF f
      <4> QED BY <2>1, <4>1, <4>2
    <3> QED BY <3>1, <3>2
  <2> HIDE DEF f
  <2> QED BY <2>6, <2>7 DEF Descends
<1>3. Nat \subseteq T
  <2>1. ASSUME NEW n \in T, n \in Nat PROVE n + 1 \in T
    <3>1. n + 1 \in Nat
      BY <2>1
    <3> QED BY <1>2, <2>1, <3>1
  <2> HIDE DEF T
  <2> QED BY <1>1, <2>1, NaturalsIn
<1>4. N \in T
  BY <1>3
<1>5. N <= N
  BY SMT
<1> QED BY <1>4, <1>5

\* A value for each number of indices, from the sets of them.
Climbs(h, g, N, base) ==
  /\ h[0] = base
  /\ \A k \in 1 .. N : /\ 1 .. k \in SUBSET (1 .. N) /\ 1 .. k # {}
                       /\ Max(1 .. k) = k /\ h[k] = g[1 .. k]
                       /\ h[k - 1] = g[(1 .. k) \ {Max(1 .. k)}]

LEMMA FromTheLeft ==
  ASSUME NEW base, NEW N \in Nat, NEW g, g[{}] = base
  PROVE  Climbs([k \in 0 .. N |-> g[1 .. k]], g, N, base)
<1> DEFINE h == [k \in 0 .. N |-> g[1 .. k]]
<1>1. 1 .. 0 = {} /\ 0 \in 0 .. N
  BY SMT
<1>2. h[0] = g[1 .. 0]
  BY <1>1
<1>3. ASSUME NEW k \in 1 .. N
      PROVE  /\ 1 .. k \in SUBSET (1 .. N) /\ 1 .. k # {}
             /\ Max(1 .. k) = k /\ h[k] = g[1 .. k]
             /\ h[k - 1] = g[(1 .. k) \ {Max(1 .. k)}]
  <2>1. k \in Nat /\ k \in 1 .. k /\ 1 .. k \subseteq 1 .. k
    BY SMT
  <2>2. Max(1 .. k) = k
    BY <2>1, LargestIs
  <2>3. (1 .. k) \ {k} = 1 .. (k - 1) /\ k - 1 \in 0 .. N /\ k \in 0 .. N
    BY SMT
  <2>4. 1 .. k \subseteq 1 .. N
    BY SMT
  <2> QED BY <2>1, <2>2, <2>3, <2>4
<1> QED BY <1>1, <1>2, <1>3 DEF Climbs

\* Induction up to a bound.
LEMMA UpTo ==
  ASSUME NEW N \in Nat, NEW T, 0 \in T, \A n \in 0 .. N - 1 : n \in T => n + 1 \in T
  PROVE  0 .. N \subseteq T
<1> DEFINE U == {n \in Nat : n <= N => n \in T}
<1>1. 0 \in U
  OBVIOUS
<1>2. ASSUME NEW n \in U, n \in Nat PROVE n + 1 \in U
  <2>1. CASE n + 1 <= N
    <3>1. n \in 0 .. N - 1 /\ n <= N /\ n + 1 \in Nat
      BY <1>2, <2>1, SMT
    <3> QED BY <1>2, <3>1
  <2>2. CASE ~(n + 1 <= N)
    BY <1>2, <2>2, SMT
  <2> QED BY <2>1, <2>2
<1>3. Nat \subseteq U
  <2> HIDE DEF U
  <2> QED BY <1>1, <1>2, NaturalsIn
<1>4. ASSUME NEW n \in 0 .. N PROVE n \in T
  <2>1. n \in U /\ n <= N
    BY <1>3, SMT
  <2> QED BY <2>1
<1> QED BY <1>4

-----------------------------------------------------------------------------
(* IL2P: octets and their bits.                                               *)

\* Octets.
Byte == 0 .. 255

\* Evaluated is the sequence itself.
LEMMA EvaluatedIs ==
  ASSUME NEW S, NEW seq \in Seq(S)
  PROVE  Evaluated(seq) = seq
  BY SubSeqFull DEF Evaluated

\* The loop that puts a number together, bit by bit.
NumberRun(h, bits) ==
  /\ h[0] = 0
  /\ \A k \in 1 .. Len(bits) : h[k - 1] \in Nat /\ h[k] = 2 * h[k - 1] + bits[k]
  /\ Number(bits) = h[Len(bits)]

\* It runs to the end.
LEMMA NumberRuns ==
  ASSUME NEW bits \in Seq(Bit)
  PROVE  \E h : NumberRun(h, bits)
<1> DEFINE N == Len(bits)
           step == [z \in Nat \X (1 .. N) |-> 2 * z[1] + bits[z[2]]]
           Eq(f) == f = [n \in 0 .. N |-> IF n = 0 THEN 0 ELSE 2 * f[n - 1] + bits[n]]
           run == CHOOSE f : Eq(f)
<1>1. N \in Nat /\ \A i \in 1 .. N : bits[i] \in Bit
  OBVIOUS
<1>2. step \in [Nat \X (1 .. N) -> Nat]
  <2>1. ASSUME NEW z \in Nat \X (1 .. N) PROVE 2 * z[1] + bits[z[2]] \in Nat
    <3>1. z[1] \in Nat /\ z[2] \in 1 .. N
      OBVIOUS
    <3>2. bits[z[2]] \in {0, 1}
      BY <1>1, <3>1 DEF Bit
    <3> HIDE DEF N
    <3> QED BY <3>1, <3>2, SMT
  <2> QED BY <2>1
<1>3. PICK g \in [0 .. N -> Nat] : Recurs(g, N, 0, step)
  <2> HIDE DEF step, N
  <2> QED BY <1>1, <1>2, Recursion
<1>4. ASSUME NEW n \in 1 .. N PROVE g[n - 1] \in Nat /\ g[n] = 2 * g[n - 1] + bits[n]
  <2>1. n - 1 \in 0 .. N
    BY <1>1, SMT
  <2>2. g[n - 1] \in Nat
    BY <1>3, <2>1
  <2>3. g[n] = step[<<g[n - 1], n>>] /\ <<g[n - 1], n>> \in Nat \X (1 .. N)
    BY <1>3, <2>2 DEF Recurs
  <2> QED BY <2>2, <2>3
<1>5. Eq(g)
  <2>1. g[0] = 0
    BY <1>3 DEF Recurs
  <2>2. ASSUME NEW n \in 0 .. N PROVE g[n] = IF n = 0 THEN 0 ELSE 2 * g[n - 1] + bits[n]
    <3>1. CASE n = 0
      BY <2>1, <3>1
    <3>2. CASE n # 0
      <4>1. n \in 1 .. N
        BY <1>1, <3>2, SMT
      <4> QED BY <1>4, <3>2, <4>1
    <3> QED BY <3>1, <3>2
  <2> HIDE DEF N
  <2> QED BY <1>3, <2>2
<1> HIDE DEF Eq
<1>6. Eq(run)
  BY <1>5
<1>7. run[0] = 0
  <2>1. 0 \in 0 .. N
    BY <1>1, SMT
  <2> QED BY <1>6, <2>1 DEF Eq
<1>8. ASSUME NEW n \in 0 .. N PROVE run[n] = g[n]
  <2> DEFINE T == {k \in 0 .. N : run[k] = g[k]}
  <2>1. 0 \in T
    BY <1>1, <1>3, <1>7 DEF Recurs
  <2>2. ASSUME NEW k \in 0 .. N - 1, k \in T PROVE k + 1 \in T
    <3>1. k + 1 \in 1 .. N /\ k + 1 \in 0 .. N /\ (k + 1) - 1 = k /\ k + 1 # 0
      BY <1>1, SMT
    <3>2. run[k + 1] = 2 * run[k] + bits[k + 1]
      BY <1>6, <3>1 DEF Eq
    <3>3. g[k + 1] = 2 * g[k] + bits[k + 1]
      BY <1>4, <3>1
    <3> QED BY <2>2, <3>1, <3>2, <3>3
  <2>3. 0 .. N \subseteq T
    <3> HIDE DEF T, N
    <3> QED BY <1>1, <2>1, <2>2, UpTo
  <2> QED BY <2>3
<1>9. Number(bits) = run[N]
  BY DEF Number, Fold, Eq
<1>10. \A k \in 1 .. N : k - 1 \in 0 .. N /\ k \in 0 .. N
  BY <1>1, SMT
<1>11. NumberRun(run, bits)
  BY <1>4, <1>7, <1>8, <1>9, <1>10 DEF NumberRun
<1> QED BY <1>11

\* A tuple of n elements is a sequence of that length.
LEMMA TupleIsSeq ==
  ASSUME NEW S, NEW n \in Nat, NEW s \in [1 .. n -> S]
  PROVE  s \in Seq(S) /\ Len(s) = n
<1>1. s \in Seq(S)
  BY SeqDef
<1>2. DOMAIN s = 1 .. n
  OBVIOUS
<1> QED BY <1>1, <1>2, LenProperties

\* Numbers of few bits.
LEMMA NumberTyped ==
  ASSUME NEW bits \in Seq(Bit)
  PROVE  Number(bits) \in Nat
<1>1. PICK h : NumberRun(h, bits)
  BY NumberRuns
<1>2. Len(bits) \in Nat /\ \A k \in 1 .. Len(bits) : bits[k] \in {0, 1}
  BY DEF Bit
<1>3. CASE Len(bits) = 0
  BY <1>1, <1>3 DEF NumberRun
<1>4. CASE Len(bits) # 0
  <2>1. Len(bits) \in 1 .. Len(bits)
    BY <1>2, <1>4, SMT
  <2>2. h[Len(bits) - 1] \in Nat /\ h[Len(bits)] = 2 * h[Len(bits) - 1] + bits[Len(bits)]
    BY <1>1, <2>1 DEF NumberRun
  <2>3. bits[Len(bits)] \in {0, 1}
    BY <1>2, <2>1
  <2> QED BY <1>1, <2>2, <2>3, SMT DEF NumberRun
<1> QED BY <1>3, <1>4

\* Four bits and eight, written out.
LEMMA NumberOf4 ==
  ASSUME NEW s \in [1 .. 4 -> Bit]
  PROVE  Number(s) = 8 * s[1] + 4 * s[2] + 2 * s[3] + s[4]
<1>1. s \in Seq(Bit) /\ Len(s) = 4
  BY TupleIsSeq
<1>2. PICK h : NumberRun(h, s)
  BY <1>1, NumberRuns
<1>3. \A k \in {1, 2, 3, 4} : k \in 1 .. 4
  BY SMT
<1>4. /\ h[0] = 0 /\ h[1] = 2 * h[0] + s[1] /\ h[2] = 2 * h[1] + s[2] /\ h[3] = 2 * h[2] + s[3]
      /\ h[4] = 2 * h[3] + s[4] /\ Number(s) = h[4]
  BY <1>1, <1>2, SMT DEF NumberRun
<1>5. s[1] \in {0, 1} /\ s[2] \in {0, 1} /\ s[3] \in {0, 1} /\ s[4] \in {0, 1}
  BY <1>3 DEF Bit
<1> QED BY <1>4, <1>5, SMT

LEMMA NumberOf8 ==
  ASSUME NEW s \in [1 .. 8 -> Bit]
  PROVE  Number(s) = 128 * s[1] + 64 * s[2] + 32 * s[3] + 16 * s[4]
                       + 8 * s[5] + 4 * s[6] + 2 * s[7] + s[8]
<1>1. s \in Seq(Bit) /\ Len(s) = 8
  BY TupleIsSeq
<1>2. PICK h : NumberRun(h, s)
  BY <1>1, NumberRuns
<1>3. \A k \in {1, 2, 3, 4, 5, 6, 7, 8} : k \in 1 .. 8
  BY SMT
<1>4. /\ h[0] = 0 /\ h[1] = 2 * h[0] + s[1] /\ h[2] = 2 * h[1] + s[2] /\ h[3] = 2 * h[2] + s[3]
      /\ h[4] = 2 * h[3] + s[4] /\ h[5] = 2 * h[4] + s[5] /\ h[6] = 2 * h[5] + s[6]
      /\ h[7] = 2 * h[6] + s[7] /\ h[8] = 2 * h[7] + s[8] /\ Number(s) = h[8]
  BY <1>1, <1>2, SMT DEF NumberRun
<1>5. \A k \in {1, 2, 3, 4, 5, 6, 7, 8} : s[k] \in {0, 1}
  BY <1>3 DEF Bit
<1> QED BY <1>4, <1>5, SMT

\* The eight bits of an octet.
LEMMA Bits8Are ==
  ASSUME NEW v \in Nat
  PROVE  /\ Bits(v, 8) \in [1 .. 8 -> Bit]
         /\ Bits(v, 8)[1] = (v \div 128) % 2 /\ Bits(v, 8)[2] = (v \div 64) % 2
         /\ Bits(v, 8)[3] = (v \div 32) % 2 /\ Bits(v, 8)[4] = (v \div 16) % 2
         /\ Bits(v, 8)[5] = (v \div 8) % 2 /\ Bits(v, 8)[6] = (v \div 4) % 2
         /\ Bits(v, 8)[7] = (v \div 2) % 2 /\ Bits(v, 8)[8] = v % 2
<1>1. /\ 2^(8 - 1) = 128 /\ 2^(8 - 2) = 64 /\ 2^(8 - 3) = 32 /\ 2^(8 - 4) = 16 
      /\ 2^(8 - 5) = 8 /\ 2^(8 - 6) = 4 /\ 2^(8 - 7) = 2 /\ 2^(8 - 8) = 1
  BY SMT
<1>2. \A k \in 1 .. 8 : k \in {1, 2, 3, 4, 5, 6, 7, 8}
  BY SMT
<1>3. \A k \in 1 .. 8 : (v \div 2^(8 - k)) % 2 \in {0, 1}
  BY <1>1, <1>2, SMT
<1> QED BY <1>1, <1>3, SMT DEF Bits, Bit

\* A quotient is known by its remainder.
LEMMA QuotientIs ==
  ASSUME NEW v \in Nat, NEW m \in Nat, m > 0, NEW c \in Int, NEW r \in Int,
         v = m * c + r, 0 <= r, r < m
  PROVE  v \div m = c
<1> DEFINE q == v \div m
           x == v % m
<1>1. q \in Int /\ x \in Int /\ 0 <= x /\ x < m /\ v = m * q + x
  BY SMT
<1> HIDE DEF q, x
<1>2. ASSUME NEW i \in Int, NEW j \in Int, i < j PROVE m * i + m <= m * j
  <2>1. \E d \in Nat : j = i + 1 + d
    <3>1. j - i - 1 \in Nat /\ j = i + 1 + (j - i - 1)
      BY <1>2, SMT
    <3> QED BY <3>1
  <2>2. PICK d \in Nat : j = i + 1 + d
    BY <2>1
  <2>3. m * j = m * i + m + m * d /\ m * d \in Nat /\ m * i \in Int
    BY <2>2, SMT
  <2> QED BY <2>3, SMT
<1>3. ~(q < c)
  <2> SUFFICES ASSUME q < c PROVE FALSE
    OBVIOUS
  <2>1. m * q + m <= m * c
    BY <1>1, <1>2
  <2>2. m * q \in Int /\ m * c \in Int
    BY <1>1, SMT
  <2> QED BY <1>1, <2>1, <2>2, SMT
<1>4. ~(c < q)
  <2> SUFFICES ASSUME c < q PROVE FALSE
    OBVIOUS
  <2>1. m * c + m <= m * q
    BY <1>1, <1>2
  <2>2. m * q \in Int /\ m * c \in Int
    BY <1>1, SMT
  <2> QED BY <1>1, <2>1, <2>2, SMT
<1> QED BY <1>1, <1>3, <1>4, SMT DEF q

\* One bit more of a quotient.
LEMMA Halving ==
  ASSUME NEW v \in Nat, NEW d \in Nat, d > 0
  PROVE  v \div d = 2 * (v \div (2 * d)) + ((v \div d) % 2)
<1> DEFINE a == v \div d
           r == v % d
           c == a \div 2
           e == a % 2
<1>1. a \in Nat /\ r \in Nat /\ r < d /\ v = d * a + r
  BY SMT
<1> HIDE DEF a, r
<1>2. c \in Nat /\ e \in {0, 1} /\ a = 2 * c + e
  BY <1>1, SMT
<1> HIDE DEF c, e
<1>3. v = (2 * d) * c + (d * e + r) /\ d * e \in Nat /\ d * e <= d
  BY <1>1, <1>2, SMT
<1> DEFINE rest == d * e + r
<1>4. rest \in Int /\ 0 <= rest /\ rest < 2 * d
  BY <1>1, <1>3, SMT
<1>5. v = (2 * d) * c + rest
  BY <1>3
<1> HIDE DEF rest
<1>6. 2 * d \in Nat /\ 2 * d > 0 /\ c \in Int
  BY <1>2, SMT
<1>7. v \div (2 * d) = c
  <2> DEFINE m == 2 * d
  <2>1. m \in Nat /\ m > 0 /\ v = m * c + rest /\ rest < m
    BY <1>4, <1>5, <1>6
  <2> HIDE DEF m
  <2>2. v \div m = c
    BY <1>4, <1>6, <2>1, QuotientIs
  <2> QED BY <2>2 DEF m
<1> QED BY <1>2, <1>7 DEF a, e

\* The last bit of a number.
LEMMA LowBit ==
  ASSUME NEW a \in Nat, NEW d \in {0, 1}
  PROVE  (2 * a + d) % 2 = d
  BY SMT

\* What is known of the powers of two up to 2^w.
Powers(w) ==
  /\ 2^(w - w) = 1
  /\ \A k \in 1 .. w : /\ 2^(w - k) \in Nat /\ 2^(w - k) > 0
                       /\ 2^(w - (k - 1)) = 2 * 2^(w - k)

\* The fields of the header have these widths.
LEMMA SmallPowers == Powers(4) /\ Powers(7) /\ Powers(8) /\ Powers(10)
<1>1. Powers(4)
  <2>1. 1 .. 4 = {1, 2, 3, 4}
    BY SMT
  <2> QED BY <2>1, SMT DEF Powers
<1>2. Powers(7)
  <2>1. 1 .. 7 = {1, 2, 3, 4, 5, 6, 7}
    BY SMT
  <2> QED BY <2>1, SMT DEF Powers
<1>3. Powers(8)
  <2>1. 1 .. 8 = {1, 2, 3, 4, 5, 6, 7, 8}
    BY SMT
  <2> QED BY <2>1, SMT DEF Powers
<1>4. Powers(10)
  <2>1. 1 .. 10 = {1, 2, 3, 4, 5, 6, 7, 8, 9, 10}
    BY SMT
  <2> QED BY <2>1, SMT DEF Powers
<1> QED BY <1>1, <1>2, <1>3, <1>4

\* The bits of a number, put together again, make the number.
LEMMA NumberOfBits ==
  ASSUME NEW w \in Nat, w > 0, Powers(w), NEW v \in Nat, v < 2^w
  PROVE  Bits(v, w) \in [1 .. w -> Bit] /\ Number(Bits(v, w)) = v
<1> DEFINE s == Bits(v, w)
           p == [k \in 0 .. w |-> 2^(w - k)]
<1>1. /\ p[w] = 1 /\ p[0] = 2^w
      /\ \A k \in 1 .. w : p[k] \in Nat /\ p[k] > 0 /\ p[k - 1] = 2 * p[k]
  <2>1. 0 \in 0 .. w /\ w \in 0 .. w /\ w - 0 = w /\ \A k \in 1 .. w : k \in 0 .. w /\ k - 1 \in 0 .. w
    BY SMT
  <2>2. p[w] = 2^(w - w) /\ p[0] = 2^w
    BY <2>1
  <2>3. \A k \in 1 .. w : p[k] = 2^(w - k) /\ p[k - 1] = 2^(w - (k - 1))
    BY <2>1
  <2> HIDE DEF p
  <2> QED BY <2>2, <2>3 DEF Powers
<1>2. s \in [1 .. w -> Bit] /\ \A k \in 1 .. w : s[k] = (v \div p[k]) % 2
  <2>1. s = [k \in 1 .. w |-> (v \div p[k]) % 2]
    <3>1. \A k \in 1 .. w : p[k] = 2^(w - k)
      BY SMT
    <3> HIDE DEF p
    <3> QED BY <3>1 DEF Bits
  <2> HIDE DEF p, s
  <2>2. \A k \in 1 .. w : (v \div p[k]) % 2 \in {0, 1}
    BY <1>1, SMT
  <2> QED BY <2>1, <2>2 DEF Bit
<1>3. s \in Seq(Bit) /\ Len(s) = w
  BY <1>2, TupleIsSeq
<1>4. v < p[0]
  BY <1>1
<1> HIDE DEF s, p
<1>5. PICK h : NumberRun(h, s)
  BY <1>3, NumberRuns
<1>6. h[0] = 0 /\ Number(s) = h[w] /\ \A k \in 1 .. w : h[k] = 2 * h[k - 1] + s[k]
  BY <1>3, <1>5 DEF NumberRun
<1> DEFINE T == {k \in 0 .. w : h[k] = v \div p[k]}
<1>7. 0 \in T
  <2>1. 1 \in 1 .. w /\ 1 - 1 = 0
    BY SMT
  <2>2. p[1] \in Nat /\ p[1] > 0 /\ p[0] = 2 * p[1]
    BY <1>1, <2>1
  <2> DEFINE m == p[0]
  <2>3. m \in Nat /\ m > 0 /\ v < m /\ v = m * 0 + v
    BY <1>4, <2>2, SMT
  <2> HIDE DEF m
  <2>4. v \div m = 0
    BY <2>3, QuotientIs
  <2> QED BY <1>6, <2>4, SMT DEF m
<1>8. ASSUME NEW k \in 0 .. w - 1, k \in T PROVE k + 1 \in T
  <2>1. k + 1 \in 1 .. w /\ (k + 1) - 1 = k /\ k + 1 \in 0 .. w
    BY SMT
  <2> DEFINE d == p[k + 1]
  <2>2. d \in Nat /\ d > 0 /\ p[k] = 2 * d
    BY <1>1, <2>1
  <2>3. h[k + 1] = 2 * h[k] + s[k + 1] /\ s[k + 1] = (v \div d) % 2
    BY <1>2, <1>6, <2>1
  <2>4. h[k] = v \div (2 * d)
    BY <1>8, <2>2
  <2> HIDE DEF d
  <2>5. v \div d = 2 * (v \div (2 * d)) + ((v \div d) % 2)
    BY <2>2, Halving
  <2>6. h[k + 1] = v \div d
    BY <2>3, <2>4, <2>5
  <2> QED BY <2>1, <2>6 DEF d
<1>9. w \in T
  <2> HIDE DEF T
  <2>1. 0 .. w \subseteq T
    BY <1>7, <1>8, UpTo
  <2> QED BY <2>1
<1>10. v \div 1 = v
  BY SMT
<1> QED BY <1>1, <1>2, <1>6, <1>9, <1>10 DEF s

\* A field of the header read back is what was put into it.
LEMMA Back4 == \A v \in 0 .. 15 : Bits(v, 4) \in [1 .. 4 -> Bit] /\ Number(Bits(v, 4)) = v
<1> SUFFICES ASSUME NEW v \in 0 .. 15
             PROVE  Bits(v, 4) \in [1 .. 4 -> Bit] /\ Number(Bits(v, 4)) = v
  BY DEF Byte
<1>1. v \in Nat /\ v < 2^4 /\ 4 \in Nat /\ 4 > 0
  BY SMT
<1>2. Powers(4)
  BY SmallPowers
<1> QED BY <1>1, <1>2, NumberOfBits

LEMMA Back7 == \A v \in 0 .. 127 : Bits(v, 7) \in [1 .. 7 -> Bit] /\ Number(Bits(v, 7)) = v
<1> SUFFICES ASSUME NEW v \in 0 .. 127
             PROVE  Bits(v, 7) \in [1 .. 7 -> Bit] /\ Number(Bits(v, 7)) = v
  BY DEF Byte
<1>1. v \in Nat /\ v < 2^7 /\ 7 \in Nat /\ 7 > 0
  BY SMT
<1>2. Powers(7)
  BY SmallPowers
<1> QED BY <1>1, <1>2, NumberOfBits

LEMMA Back8 == \A v \in Byte : Bits(v, 8) \in [1 .. 8 -> Bit] /\ Number(Bits(v, 8)) = v
<1> SUFFICES ASSUME NEW v \in 0 .. 255
             PROVE  Bits(v, 8) \in [1 .. 8 -> Bit] /\ Number(Bits(v, 8)) = v
  BY DEF Byte
<1>1. v \in Nat /\ v < 2^8 /\ 8 \in Nat /\ 8 > 0
  BY SMT
<1>2. Powers(8)
  BY SmallPowers
<1> QED BY <1>1, <1>2, NumberOfBits

LEMMA Back10 == \A v \in 0 .. 1023 : Bits(v, 10) \in [1 .. 10 -> Bit] /\ Number(Bits(v, 10)) = v
<1> SUFFICES ASSUME NEW v \in 0 .. 1023
             PROVE  Bits(v, 10) \in [1 .. 10 -> Bit] /\ Number(Bits(v, 10)) = v
  BY DEF Byte
<1>1. v \in Nat /\ v < 2^10 /\ 10 \in Nat /\ 10 > 0
  BY SMT
<1>2. Powers(10)
  BY SmallPowers
<1> QED BY <1>1, <1>2, NumberOfBits

\* Eight bits are those of the octet they make.
LEMMA Forth8 ==
  ASSUME NEW s \in [1 .. 8 -> Bit]
  PROVE  Number(s) \in Byte /\ Bits(Number(s), 8) = s
<1> DEFINE v == Number(s)
<1>1. v = 128 * s[1] + 64 * s[2] + 32 * s[3] + 16 * s[4] + 8 * s[5] + 4 * s[6] + 2 * s[7] + s[8]
  BY NumberOf8
<1>2. /\ s[1] \in {0, 1} /\ s[2] \in {0, 1} /\ s[3] \in {0, 1} /\ s[4] \in {0, 1}
      /\ s[5] \in {0, 1} /\ s[6] \in {0, 1} /\ s[7] \in {0, 1} /\ s[8] \in {0, 1}
  <2>1. \A k \in 1 .. 8 : s[k] \in {0, 1}
    BY DEF Bit
  <2> QED BY <2>1, SMT
<1> HIDE DEF v
<1>3. v \in 0 .. 255
  BY <1>1, <1>2, SMT
<1>4. v \div 128 = s[1]
  BY <1>1, <1>2, SMT
<1>5. v \div 64 = 2 * s[1] + s[2]
  BY <1>1, <1>2, SMT
<1>6. v \div 32 = 4 * s[1] + 2 * s[2] + s[3]
  BY <1>1, <1>2, SMT
<1>7. v \div 16 = 8 * s[1] + 4 * s[2] + 2 * s[3] + s[4]
  BY <1>1, <1>2, SMT
<1>8. v \div 8 = 16 * s[1] + 8 * s[2] + 4 * s[3] + 2 * s[4] + s[5]
  BY <1>1, <1>2, SMT
<1>9. v \div 4 = 32 * s[1] + 16 * s[2] + 8 * s[3] + 4 * s[4] + 2 * s[5] + s[6]
  BY <1>1, <1>2, SMT
<1>10. v \div 2 = 64 * s[1] + 32 * s[2] + 16 * s[3] + 8 * s[4] + 4 * s[5] + 2 * s[6] + s[7]
  BY <1>1, <1>2, SMT
<1>11. v \div 1 = 128 * s[1] + 64 * s[2] + 32 * s[3] + 16 * s[4] + 8 * s[5] + 4 * s[6] + 2 * s[7] + s[8]
  BY <1>1, <1>2, SMT
<1>12. Bits(v, 8) \in [1 .. 8 -> Bit] /\ v \in Nat
  BY <1>3, Bits8Are, SMT
<1>13. \A k \in 1 .. 8 : Bits(v, 8)[k] = s[k]
  <2>1. /\ Bits(v, 8)[1] = (v \div 128) % 2
        /\ Bits(v, 8)[2] = (v \div 64) % 2
        /\ Bits(v, 8)[3] = (v \div 32) % 2
        /\ Bits(v, 8)[4] = (v \div 16) % 2
        /\ Bits(v, 8)[5] = (v \div 8) % 2
        /\ Bits(v, 8)[6] = (v \div 4) % 2
        /\ Bits(v, 8)[7] = (v \div 2) % 2
        /\ Bits(v, 8)[8] = v % 2
    BY <1>12, Bits8Are, Zenon
  <2>2. Bits(v, 8)[1] = s[1]
    BY <1>2, <1>4, <2>1, SMT
  <2>3. Bits(v, 8)[2] = s[2]
    <3>1. v \div 128 \in Nat /\ v \div 64 = 2 * (v \div 128) + s[2]
      BY <1>2, <1>4, <1>5, SMT
    <3>2. (v \div 64) % 2 = s[2]
      BY <1>2, <3>1, LowBit
    <3> QED BY <2>1, <3>2
  <2>4. Bits(v, 8)[3] = s[3]
    <3>1. v \div 64 \in Nat /\ v \div 32 = 2 * (v \div 64) + s[3]
      BY <1>2, <1>5, <1>6, SMT
    <3>2. (v \div 32) % 2 = s[3]
      BY <1>2, <3>1, LowBit
    <3> QED BY <2>1, <3>2
  <2>5. Bits(v, 8)[4] = s[4]
    <3>1. v \div 32 \in Nat /\ v \div 16 = 2 * (v \div 32) + s[4]
      BY <1>2, <1>6, <1>7, SMT
    <3>2. (v \div 16) % 2 = s[4]
      BY <1>2, <3>1, LowBit
    <3> QED BY <2>1, <3>2
  <2>6. Bits(v, 8)[5] = s[5]
    <3>1. v \div 16 \in Nat /\ v \div 8 = 2 * (v \div 16) + s[5]
      BY <1>2, <1>7, <1>8, SMT
    <3>2. (v \div 8) % 2 = s[5]
      BY <1>2, <3>1, LowBit
    <3> QED BY <2>1, <3>2
  <2>7. Bits(v, 8)[6] = s[6]
    <3>1. v \div 8 \in Nat /\ v \div 4 = 2 * (v \div 8) + s[6]
      BY <1>2, <1>8, <1>9, SMT
    <3>2. (v \div 4) % 2 = s[6]
      BY <1>2, <3>1, LowBit
    <3> QED BY <2>1, <3>2
  <2>8. Bits(v, 8)[7] = s[7]
    <3>1. v \div 4 \in Nat /\ v \div 2 = 2 * (v \div 4) + s[7]
      BY <1>2, <1>9, <1>10, SMT
    <3>2. (v \div 2) % 2 = s[7]
      BY <1>2, <3>1, LowBit
    <3> QED BY <2>1, <3>2
  <2>9. Bits(v, 8)[8] = s[8]
    <3>1. v \div 2 \in Nat /\ v = 2 * (v \div 2) + s[8]
      <4> DEFINE q == v \div 2
      <4>1. q = 64 * s[1] + 32 * s[2] + 16 * s[3] + 8 * s[4] + 4 * s[5] + 2 * s[6] + s[7]
        BY <1>10
      <4> HIDE DEF q
      <4>2. q \in Nat /\ v = 2 * q + s[8]
        BY <1>1, <1>2, <4>1, SMT
      <4> QED BY <4>2 DEF q
    <3>2. (v) % 2 = s[8]
      BY <1>2, <3>1, LowBit
    <3> QED BY <2>1, <3>2
  <2> HIDE DEF v
  <2>10. 1 .. 8 = {1, 2, 3, 4, 5, 6, 7, 8}
    BY SMT
  <2> QED BY <2>2, <2>3, <2>4, <2>5, <2>6, <2>7, <2>8, <2>9, <2>10
<1>14. Bits(v, 8) = s
  BY <1>12, <1>13
<1> QED BY <1>3, <1>14 DEF v, Byte

\* The bits of the octets o, one after the other.
BitsAreOf(x, o) ==
  /\ x \in Seq(Bit) /\ Len(x) = 8 * Len(o)
  /\ \A k \in 1 .. Len(x) : /\ (k + 7) \div 8 \in 1 .. Len(o) /\ ((k - 1) % 8) + 1 \in 1 .. 8
                            /\ x[k] = Bits(o[(k + 7) \div 8], 8)[((k - 1) % 8) + 1]

\* BitsOf puts them so.
LEMMA BitsOfIs ==
  ASSUME NEW o \in Seq(Byte)
  PROVE  BitsAreOf(BitsOf(o), o)
<1> DEFINE n == Len(o)
           x == [k \in 1 .. 8 * n |-> Bits(o[(k + 7) \div 8], 8)[((k - 1) % 8) + 1]]
<1>1. n \in Nat /\ 8 * n \in Nat /\ \A i \in 1 .. n : o[i] \in Byte
  OBVIOUS
<1>2. ASSUME NEW k \in 1 .. 8 * n
      PROVE  (k + 7) \div 8 \in 1 .. n /\ ((k - 1) % 8) + 1 \in 1 .. 8
  <2> HIDE DEF n
  <2> QED BY <1>1, SMT
<1>3. ASSUME NEW k \in 1 .. 8 * n PROVE x[k] \in Bit
  <2>1. o[(k + 7) \div 8] \in Byte
    BY <1>1, <1>2
  <2>2. Bits(o[(k + 7) \div 8], 8) \in [1 .. 8 -> Bit]
    BY <2>1, Back8
  <2> QED BY <1>2, <2>2
<1>4. x \in [1 .. 8 * n -> Bit]
  BY <1>3
<1>5. \A k \in 1 .. 8 * n : x[k] = Bits(o[(k + 7) \div 8], 8)[((k - 1) % 8) + 1]
  OBVIOUS
<1> HIDE DEF x
<1>6. x \in Seq(Bit) /\ Len(x) = 8 * n
  BY <1>1, <1>4, TupleIsSeq
<1>7. BitsOf(o) = x
  BY <1>6, EvaluatedIs DEF BitsOf, x
<1> HIDE DEF n
<1>8. Len(x) = 8 * n /\ x \in Seq(Bit) /\ n = Len(o)
  BY <1>6 DEF n
<1> QED BY <1>2, <1>5, <1>7, <1>8 DEF BitsAreOf

\* The bits of octet j.
Slice(x, j) == SubSeq(x, 8 * j - 7, 8 * j)

\* What OctetsOf makes of bits.
OctetsAreOf(o, x) ==
  /\ o \in Seq(Byte) /\ Len(o) = Len(x) \div 8
  /\ \A j \in 1 .. Len(o) : /\ Slice(x, j) \in [1 .. 8 -> Bit]
                            /\ o[j] = Number(Slice(x, j))
                            /\ \A i \in 1 .. 8 : /\ 8 * j - 8 + i \in 1 .. Len(x)
                                                 /\ Slice(x, j)[i] = x[8 * j - 8 + i]

\* It does.
LEMMA OctetsOfIs ==
  ASSUME NEW x \in Seq(Bit)
  PROVE  OctetsAreOf(OctetsOf(x), x)
<1> DEFINE N == Len(x)
           n == N \div 8
           o == [j \in 1 .. n |-> Number(Slice(x, j))]
<1>1. N \in Nat /\ n \in Nat /\ \A i \in 1 .. N : x[i] \in Bit
  OBVIOUS
<1>2. ASSUME NEW j \in 1 .. n
      PROVE  /\ \A i \in 1 .. 8 : 8 * j - 8 + i \in 1 .. N /\ Slice(x, j)[i] = x[8 * j - 8 + i]
             /\ Slice(x, j) \in [1 .. 8 -> Bit]
  <2>1. j \in Int /\ 8 * j - (8 * j - 7) + 1 = 8
    BY <1>1, SMT
  <2>2. Slice(x, j) = [i \in 1 .. 8 |-> x[i + (8 * j - 7) - 1]]
    BY <2>1 DEF Slice, SubSeq
  <2>3. ASSUME NEW i \in 1 .. 8
        PROVE  8 * j - 8 + i \in 1 .. N /\ i + (8 * j - 7) - 1 = 8 * j - 8 + i
    <3> HIDE DEF N
    <3>1. n = N \div 8 /\ N \in Nat /\ 8 * n <= N
      BY <1>1, SMT
    <3> HIDE DEF n
    <3> QED BY <1>1, <3>1, SMT
  <2>4. \A i \in 1 .. 8 : x[8 * j - 8 + i] \in Bit
    BY <1>1, <2>3
  <2> HIDE DEF N, n
  <2> QED BY <2>2, <2>3, <2>4
<1>3. \A j \in 1 .. n : Number(Slice(x, j)) \in Byte
  BY <1>2, Forth8
<1>4. o \in [1 .. n -> Byte] /\ \A j \in 1 .. n : o[j] = Number(Slice(x, j))
  BY <1>3
<1> HIDE DEF o
<1>5. o \in Seq(Byte) /\ Len(o) = n
  BY <1>1, <1>4, TupleIsSeq
<1>6. OctetsOf(x) = o
  BY <1>5, EvaluatedIs DEF OctetsOf, o, Slice
<1>7. Len(o) = Len(x) \div 8 /\ n = Len(o) /\ N = Len(x)
  BY <1>5
<1> HIDE DEF n, N
<1> QED BY <1>2, <1>4, <1>5, <1>6, <1>7 DEF OctetsAreOf

\* Octets sent bit by bit are the same octets.
LEMMA OctetsBack ==
  ASSUME NEW o \in Seq(Byte)
  PROVE  OctetsOf(BitsOf(o)) = o
<1> DEFINE x == BitsOf(o)
           n == Len(o)
<1>1. BitsAreOf(x, o)
  BY BitsOfIs
<1> HIDE DEF x
<1>2. x \in Seq(Bit) /\ Len(x) = 8 * n /\ n \in Nat
  BY <1>1 DEF BitsAreOf
<1> DEFINE p == OctetsOf(x)
<1>3. OctetsAreOf(p, x)
  BY <1>2, OctetsOfIs
<1> HIDE DEF p
<1>4. p \in Seq(Byte) /\ Len(p) = n
  <2>1. Len(p) = Len(x) \div 8
    BY <1>3 DEF OctetsAreOf
  <2>2. (8 * n) \div 8 = n
    <3> HIDE DEF n
    <3> QED BY <1>2, SMT
  <2> QED BY <1>2, <1>3, <2>1, <2>2 DEF OctetsAreOf
<1>5. ASSUME NEW j \in 1 .. n PROVE p[j] = o[j]
  <2>1. o[j] \in Byte /\ j \in Int
    BY <1>2
  <2> DEFINE s == Slice(x, j)
             t == Bits(o[j], 8)
  <2>2. t \in [1 .. 8 -> Bit] /\ Number(t) = o[j]
    BY <2>1, Back8
  <2>3. s \in [1 .. 8 -> Bit] /\ p[j] = Number(s)
    BY <1>3, <1>4 DEF OctetsAreOf
  <2>4. ASSUME NEW i \in 1 .. 8 PROVE s[i] = t[i]
    <3>1. 8 * j - 8 + i \in 1 .. Len(x) /\ s[i] = x[8 * j - 8 + i]
      BY <1>3, <1>4 DEF OctetsAreOf
    <3>2. x[8 * j - 8 + i] = Bits(o[((8 * j - 8 + i) + 7) \div 8], 8)[(((8 * j - 8 + i) - 1) % 8) + 1]
      BY <1>1, <3>1 DEF BitsAreOf
    <3>3. ((8 * j - 8 + i) + 7) \div 8 = j /\ (((8 * j - 8 + i) - 1) % 8) + 1 = i
      BY <2>1, SMT
    <3> QED BY <3>1, <3>2, <3>3
  <2> HIDE DEF s, t
  <2>5. s = t
    BY <2>2, <2>3, <2>4
  <2> QED BY <2>2, <2>3, <2>5
<1> HIDE DEF n
<1>6. n = Len(o)
  BY DEF n
<1>7. p = o
  BY <1>4, <1>5, <1>6, SeqEqual
<1> QED BY <1>7 DEF p, x

\* Whole octets of bits put together are the same bits.
LEMMA BitsBack ==
  ASSUME NEW n \in Nat, NEW x \in Seq(Bit), Len(x) = 8 * n
  PROVE  /\ OctetsOf(x) \in Seq(Byte) /\ Len(OctetsOf(x)) = n
         /\ BitsOf(OctetsOf(x)) = x
<1> DEFINE o == OctetsOf(x)
<1>1. OctetsAreOf(o, x)
  BY OctetsOfIs
<1> HIDE DEF o
<1>2. o \in Seq(Byte) /\ Len(o) = n
  <2>1. (8 * n) \div 8 = n
    BY SMT
  <2> QED BY <1>1, <2>1 DEF OctetsAreOf
<1> DEFINE y == BitsOf(o)
<1>3. BitsAreOf(y, o)
  BY <1>2, BitsOfIs
<1> HIDE DEF y
<1>4. y \in Seq(Bit) /\ Len(y) = 8 * n
  BY <1>2, <1>3 DEF BitsAreOf
<1>5. ASSUME NEW k \in 1 .. 8 * n PROVE y[k] = x[k]
  <2> DEFINE j == (k + 7) \div 8
             i == ((k - 1) % 8) + 1
  <2>1. j \in 1 .. n /\ i \in 1 .. 8 /\ y[k] = Bits(o[j], 8)[i]
    BY <1>2, <1>3, <1>4 DEF BitsAreOf
  <2>2. k = 8 * j - 8 + i
    BY SMT
  <2> HIDE DEF i, j
  <2>3. Slice(x, j) \in [1 .. 8 -> Bit] /\ o[j] = Number(Slice(x, j)) /\ Slice(x, j)[i] = x[8 * j - 8 + i]
    BY <1>1, <1>2, <2>1 DEF OctetsAreOf
  <2>4. Bits(o[j], 8) = Slice(x, j)
    BY <2>3, Forth8
  <2> QED BY <2>1, <2>2, <2>3, <2>4
<1>6. y = x
  <2>1. Len(x) = Len(y)
    BY <1>4
  <2>2. \A k \in 1 .. Len(y) : y[k] = x[k]
    BY <1>4, <1>5
  <2> QED BY <1>4, <2>1, <2>2, SeqEqual
<1> QED BY <1>2, <1>6 DEF o, y

-----------------------------------------------------------------------------
(* Scrambler and descrambler: the loop of il2p_scramble_block drops the first *)
(* five bits that come out of the register, and il2p_descramble_block gets the *)
(* later ones.                                                               *)

\* How the two registers hang together once bits are passed on: the transmit
\* register holds what it made of the last five bits, the receive register what
\* the transmit register has put out, twice over.
Linked(t, r, k) ==
  /\ r[9] = t[4] /\ r[8] = t[3] /\ r[7] = t[2] /\ r[6] = t[1]
  /\ r[5] = Flip(k[1], t[9])
  /\ r[4] = Flip(Flip(k[2], t[8]), t[4])
  /\ r[3] = Flip(Flip(k[3], t[7]), t[3])
  /\ r[2] = Flip(Flip(k[4], t[6]), t[2])
  /\ r[1] = Flip(Flip(k[5], t[5]), t[1])

\* The transmit register after j of the first five bits.
Filled(t, k, j) ==
  /\ t[1] = 1 /\ t[2] = 1 /\ t[3] = 1 /\ t[4] = 1
  /\ t[9] = IF j >= 1 THEN Flip(k[1], 1) ELSE 0
  /\ t[8] = IF j >= 2 THEN Flip(k[2], 1) ELSE 0
  /\ t[7] = IF j >= 3 THEN Flip(k[3], 1) ELSE 0
  /\ t[6] = IF j >= 4 THEN Flip(k[4], 1) ELSE 0
  /\ t[5] = IF j >= 5 THEN Flip(k[5], 1) ELSE 0

BitTuple(s, m) == s \in [1 .. m -> Bit]

\* A register keeps its nine bits whatever is shifted in.
LEMMA Registers ==
  ASSUME NEW t, BitTuple(t, 9), NEW in \in Bit
  PROVE  /\ BitTuple(scramble_bit(in, t).state, 9) /\ scramble_bit(in, t).out \in Bit
         /\ BitTuple(descramble_bit(in, t).state, 9) /\ descramble_bit(in, t).out \in Bit
  BY SMT DEF BitTuple, scramble_bit, descramble_bit, Bit, Flip

\* One bit more while skipping, which is the last time the register is filled.
LEMMA Filling ==
  ASSUME NEW t, BitTuple(t, 9), NEW k, BitTuple(k, 5), NEW in \in Bit,
         NEW j \in 0 .. Delay - 1, Filled(t, k, j)
  PROVE  Filled(scramble_bit(in, t).state, <<in, k[1], k[2], k[3], k[4]>>, j + 1)
  BY SMT DEF BitTuple, Filled, scramble_bit, Bit, Flip, Delay

\* The value INIT_RX_LSFR links the registers when the first bit is passed on.
LEMMA FilledIsLinked ==
  ASSUME NEW t, BitTuple(t, 9), NEW k, BitTuple(k, 5), Filled(t, k, Delay)
  PROVE  Linked(t, INIT_RX_LSFR, k)
  BY SMT DEF BitTuple, Filled, Linked, INIT_RX_LSFR, Bit, Flip, Delay

\* Linked registers give the bit of five bits ago, and remain linked.
LEMMA Linking ==
  ASSUME NEW t, BitTuple(t, 9), NEW r, BitTuple(r, 9), NEW k, BitTuple(k, 5),
         NEW in \in Bit, Linked(t, r, k)
  PROVE  LET s == scramble_bit(in, t)
             d == descramble_bit(s.out, r)
         IN  /\ d.out = k[5]
             /\ Linked(s.state, d.state, <<in, k[1], k[2], k[3], k[4]>>)
  BY SMT DEF BitTuple, Linked, scramble_bit, descramble_bit, Bit, Flip

\* A register on its way through a block.
Running == [out : Seq(Bit), state : [1 .. 9 -> Bit]]

\* Both begin with nine bits.
LEMMA InitialRegisters == BitTuple(INIT_TX_LSFR, 9) /\ BitTuple(INIT_RX_LSFR, 9)
  BY SMT DEF INIT_TX_LSFR, INIT_RX_LSFR, BitTuple, Bit

\* The scrambler, bit by bit: its register before each bit, and what it puts out.
ScrambleRun(t, x, y) ==
  /\ t[0] = INIT_TX_LSFR /\ y \in Seq(Bit) /\ Len(y) = Len(x)
  /\ \A k \in 0 .. Len(x) : BitTuple(t[k], 9)
  /\ \A k \in 1 .. Len(x) : /\ t[k] = scramble_bit(x[k], t[k - 1]).state
                            /\ y[k] = scramble_bit(x[k], t[k - 1]).out

\* One pass through the loop.
ScrambleOne(acc, in) ==
  [out |-> Append(acc.out, scramble_bit(in, acc.state).out), state |-> scramble_bit(in, acc.state).state]

\* A pass keeps the types.
LEMMA ScrambleTyped ==
  ASSUME NEW acc \in Running, NEW in \in Bit
  PROVE  ScrambleOne(acc, in) \in Running
<1>1. BitTuple(acc.state, 9) /\ acc.out \in Seq(Bit)
  BY DEF Running, BitTuple
<1>2. BitTuple(scramble_bit(in, acc.state).state, 9) /\ scramble_bit(in, acc.state).out \in Bit
  BY <1>1, Registers
<1> QED BY <1>1, <1>2 DEF ScrambleOne, Running, BitTuple

\* The loop over the block goes that way.
LEMMA ScrambleRuns ==
  ASSUME NEW x \in Seq(Bit)
  PROVE  \E t : ScrambleRun(t, x, Through(scramble_bit, INIT_TX_LSFR, x))
<1> DEFINE N == Len(x)
           first == [out |-> <<>>, state |-> INIT_TX_LSFR]
           step == [z \in Running \X (1 .. N) |-> ScrambleOne(z[1], x[z[2]])]
           Eq(f) == f = [n \in 0 .. N |-> IF n = 0 THEN first ELSE ScrambleOne(f[n - 1], x[n])]
           run == CHOOSE f : Eq(f)
<1>1. N \in Nat /\ \A i \in 1 .. N : x[i] \in Bit
  OBVIOUS
<1>2. first \in Running
  BY InitialRegisters DEF Running, BitTuple
<1>3. step \in [Running \X (1 .. N) -> Running]
  BY <1>1, ScrambleTyped
<1>4. PICK g \in [0 .. N -> Running] : Recurs(g, N, first, step)
  <2> HIDE DEF step, N, first
  <2> QED BY <1>1, <1>2, <1>3, Recursion
<1>5. ASSUME NEW n \in 1 .. N PROVE g[n - 1] \in Running /\ g[n] = ScrambleOne(g[n - 1], x[n])
  <2>1. n - 1 \in 0 .. N
    BY <1>1, SMT
  <2>2. g[n - 1] \in Running
    BY <1>4, <2>1
  <2>3. g[n] = step[<<g[n - 1], n>>] /\ <<g[n - 1], n>> \in Running \X (1 .. N)
    BY <1>4, <2>2 DEF Recurs
  <2> HIDE DEF N
  <2> QED BY <2>2, <2>3
<1>6. Eq(g)
  <2>1. g[0] = first
    BY <1>4 DEF Recurs
  <2> HIDE DEF N, first
  <2>2. ASSUME NEW n \in 0 .. N PROVE g[n] = IF n = 0 THEN first ELSE ScrambleOne(g[n - 1], x[n])
    <3>1. CASE n = 0
      BY <2>1, <3>1
    <3>2. CASE n # 0
      <4>1. n \in 1 .. N
        BY <1>1, <3>2, SMT
      <4> QED BY <1>5, <3>2, <4>1
    <3> QED BY <3>1, <3>2
  <2> QED BY <1>4, <2>2
<1>7. Through(scramble_bit, INIT_TX_LSFR, x) = run[N].out
  BY DEF Through, Fold, ScrambleOne
<1> HIDE DEF Eq, first
<1>8. Eq(run)
  BY <1>6
<1> HIDE DEF run
<1>9. run[0] = first
  <2>1. 0 \in 0 .. N
    BY <1>1, SMT
  <2> QED BY <1>8, <2>1 DEF Eq
<1>10. \A n \in 0 .. N : run[n] = g[n]
  <2> DEFINE T == {k \in 0 .. N : run[k] = g[k]}
  <2>1. 0 \in T
    BY <1>1, <1>4, <1>9 DEF Recurs
  <2>2. ASSUME NEW k \in 0 .. N - 1, k \in T PROVE k + 1 \in T
    <3>1. k + 1 \in 1 .. N /\ k + 1 \in 0 .. N /\ (k + 1) - 1 = k /\ k + 1 # 0
      BY <1>1, SMT
    <3>2. run[k + 1] = ScrambleOne(run[k], x[k + 1])
      BY <1>8, <3>1 DEF Eq
    <3>3. g[k + 1] = ScrambleOne(g[k], x[k + 1])
      BY <1>5, <3>1
    <3> QED BY <2>2, <3>1, <3>2, <3>3
  <2>3. 0 .. N \subseteq T
    <3> HIDE DEF T, N
    <3> QED BY <1>1, <2>1, <2>2, UpTo
  <2> QED BY <2>3
<1> DEFINE t == [k \in 0 .. N |-> g[k].state]
           Out(k) == scramble_bit(x[k], t[k - 1]).out
<1>11. \A k \in 0 .. N : t[k] = g[k].state /\ BitTuple(t[k], 9) /\ g[k].out \in Seq(Bit)
  BY <1>4 DEF Running, BitTuple
<1>12. t[0] = INIT_TX_LSFR
  BY <1>1, <1>4, <1>11 DEF Recurs, first
<1> HIDE DEF t
<1>13. ASSUME NEW k \in 1 .. N
       PROVE  /\ k - 1 \in 0 .. N /\ k \in 0 .. N
              /\ t[k] = scramble_bit(x[k], t[k - 1]).state /\ Out(k) \in Bit
              /\ g[k].out = Append(g[k - 1].out, Out(k))
  <2>1. k - 1 \in 0 .. N /\ k \in 0 .. N
    BY <1>1, SMT
  <2>2. g[k] = ScrambleOne(g[k - 1], x[k])
    BY <1>5
  <2>3. BitTuple(t[k - 1], 9) /\ x[k] \in Bit
    BY <1>1, <1>11, <2>1
  <2>4. Out(k) \in Bit
    BY <2>3, Registers
  <2>5. t[k] = g[k].state /\ t[k - 1] = g[k - 1].state
    BY <1>11, <2>1
  <2> QED BY <2>1, <2>2, <2>4, <2>5 DEF ScrambleOne
<1> DEFINE T == {k \in 0 .. N : Len(g[k].out) = k /\ \A i \in 1 .. k : g[k].out[i] = Out(i)}
<1>14. 0 \in T
  <2>1. g[0].out = <<>>
    BY <1>4 DEF Recurs, first
  <2>2. Len(<<>>) = 0 /\ 0 \in 0 .. N /\ \A i \in 1 .. 0 : FALSE
    BY <1>1, SMT
  <2> QED BY <2>1, <2>2
<1>15. ASSUME NEW k \in 0 .. N - 1, k \in T PROVE k + 1 \in T
  <2>1. k + 1 \in 1 .. N /\ k + 1 \in 0 .. N /\ (k + 1) - 1 = k /\ k \in 0 .. N /\ k \in Nat
    BY <1>1, SMT
  <2>2. g[k + 1].out = Append(g[k].out, Out(k + 1)) /\ g[k].out \in Seq(Bit) /\ Len(g[k].out) = k
    BY <1>11, <1>13, <1>15, <2>1
  <2>3. Len(g[k + 1].out) = k + 1
    BY <2>2
  <2>4. ASSUME NEW i \in 1 .. k + 1 PROVE g[k + 1].out[i] = Out(i)
    <3>1. CASE i = k + 1
      <4> HIDE DEF Out
      <4> QED BY <2>1, <2>2, <3>1
    <3>2. CASE i # k + 1
      <4>1. i \in 1 .. k
        BY <2>1, <3>2, SMT
      <4>2. g[k + 1].out[i] = g[k].out[i]
        <5> HIDE DEF Out
        <5> QED BY <2>2, <4>1
      <4> QED BY <1>15, <4>1, <4>2
    <3> QED BY <3>1, <3>2
  <2> HIDE DEF Out
  <2> QED BY <2>1, <2>3, <2>4
<1>16. N \in T
  <2> HIDE DEF T, N
  <2>1. 0 .. N \subseteq T
    BY <1>1, <1>14, <1>15, UpTo
  <2> QED BY <1>1, <2>1
<1> DEFINE y == g[N].out
<1>17. Through(scramble_bit, INIT_TX_LSFR, x) = y /\ y \in Seq(Bit)
  BY <1>1, <1>7, <1>10, <1>11
<1>18. Len(y) = N /\ \A k \in 1 .. N : y[k] = Out(k)
  BY <1>16
<1> HIDE DEF y
<1>19. ScrambleRun(t, x, y)
  BY <1>11, <1>12, <1>13, <1>17, <1>18 DEF ScrambleRun
<1> QED BY <1>17, <1>19

\* The descrambler, bit by bit: its register before each bit, and what it puts out.
DescrambleRun(t, x, y) ==
  /\ t[0] = INIT_RX_LSFR /\ y \in Seq(Bit) /\ Len(y) = Len(x)
  /\ \A k \in 0 .. Len(x) : BitTuple(t[k], 9)
  /\ \A k \in 1 .. Len(x) : /\ t[k] = descramble_bit(x[k], t[k - 1]).state
                            /\ y[k] = descramble_bit(x[k], t[k - 1]).out

\* One pass through the loop.
DescrambleOne(acc, in) ==
  [out |-> Append(acc.out, descramble_bit(in, acc.state).out), state |-> descramble_bit(in, acc.state).state]

\* A pass keeps the types.
LEMMA DescrambleTyped ==
  ASSUME NEW acc \in Running, NEW in \in Bit
  PROVE  DescrambleOne(acc, in) \in Running
<1>1. BitTuple(acc.state, 9) /\ acc.out \in Seq(Bit)
  BY DEF Running, BitTuple
<1>2. BitTuple(descramble_bit(in, acc.state).state, 9) /\ descramble_bit(in, acc.state).out \in Bit
  BY <1>1, Registers
<1> QED BY <1>1, <1>2 DEF DescrambleOne, Running, BitTuple

\* The loop over the block goes that way.
LEMMA DescrambleRuns ==
  ASSUME NEW x \in Seq(Bit)
  PROVE  \E t : DescrambleRun(t, x, Through(descramble_bit, INIT_RX_LSFR, x))
<1> DEFINE N == Len(x)
           first == [out |-> <<>>, state |-> INIT_RX_LSFR]
           step == [z \in Running \X (1 .. N) |-> DescrambleOne(z[1], x[z[2]])]
           Eq(f) == f = [n \in 0 .. N |-> IF n = 0 THEN first ELSE DescrambleOne(f[n - 1], x[n])]
           run == CHOOSE f : Eq(f)
<1>1. N \in Nat /\ \A i \in 1 .. N : x[i] \in Bit
  OBVIOUS
<1>2. first \in Running
  BY InitialRegisters DEF Running, BitTuple
<1>3. step \in [Running \X (1 .. N) -> Running]
  BY <1>1, DescrambleTyped
<1>4. PICK g \in [0 .. N -> Running] : Recurs(g, N, first, step)
  <2> HIDE DEF step, N, first
  <2> QED BY <1>1, <1>2, <1>3, Recursion
<1>5. ASSUME NEW n \in 1 .. N PROVE g[n - 1] \in Running /\ g[n] = DescrambleOne(g[n - 1], x[n])
  <2>1. n - 1 \in 0 .. N
    BY <1>1, SMT
  <2>2. g[n - 1] \in Running
    BY <1>4, <2>1
  <2>3. g[n] = step[<<g[n - 1], n>>] /\ <<g[n - 1], n>> \in Running \X (1 .. N)
    BY <1>4, <2>2 DEF Recurs
  <2> HIDE DEF N
  <2> QED BY <2>2, <2>3
<1>6. Eq(g)
  <2>1. g[0] = first
    BY <1>4 DEF Recurs
  <2> HIDE DEF N, first
  <2>2. ASSUME NEW n \in 0 .. N PROVE g[n] = IF n = 0 THEN first ELSE DescrambleOne(g[n - 1], x[n])
    <3>1. CASE n = 0
      BY <2>1, <3>1
    <3>2. CASE n # 0
      <4>1. n \in 1 .. N
        BY <1>1, <3>2, SMT
      <4> QED BY <1>5, <3>2, <4>1
    <3> QED BY <3>1, <3>2
  <2> QED BY <1>4, <2>2
<1>7. Through(descramble_bit, INIT_RX_LSFR, x) = run[N].out
  BY DEF Through, Fold, DescrambleOne
<1> HIDE DEF Eq, first
<1>8. Eq(run)
  BY <1>6
<1> HIDE DEF run
<1>9. run[0] = first
  <2>1. 0 \in 0 .. N
    BY <1>1, SMT
  <2> QED BY <1>8, <2>1 DEF Eq
<1>10. \A n \in 0 .. N : run[n] = g[n]
  <2> DEFINE T == {k \in 0 .. N : run[k] = g[k]}
  <2>1. 0 \in T
    BY <1>1, <1>4, <1>9 DEF Recurs
  <2>2. ASSUME NEW k \in 0 .. N - 1, k \in T PROVE k + 1 \in T
    <3>1. k + 1 \in 1 .. N /\ k + 1 \in 0 .. N /\ (k + 1) - 1 = k /\ k + 1 # 0
      BY <1>1, SMT
    <3>2. run[k + 1] = DescrambleOne(run[k], x[k + 1])
      BY <1>8, <3>1 DEF Eq
    <3>3. g[k + 1] = DescrambleOne(g[k], x[k + 1])
      BY <1>5, <3>1
    <3> QED BY <2>2, <3>1, <3>2, <3>3
  <2>3. 0 .. N \subseteq T
    <3> HIDE DEF T, N
    <3> QED BY <1>1, <2>1, <2>2, UpTo
  <2> QED BY <2>3
<1> DEFINE t == [k \in 0 .. N |-> g[k].state]
           Out(k) == descramble_bit(x[k], t[k - 1]).out
<1>11. \A k \in 0 .. N : t[k] = g[k].state /\ BitTuple(t[k], 9) /\ g[k].out \in Seq(Bit)
  BY <1>4 DEF Running, BitTuple
<1>12. t[0] = INIT_RX_LSFR
  BY <1>1, <1>4, <1>11 DEF Recurs, first
<1> HIDE DEF t
<1>13. ASSUME NEW k \in 1 .. N
       PROVE  /\ k - 1 \in 0 .. N /\ k \in 0 .. N
              /\ t[k] = descramble_bit(x[k], t[k - 1]).state /\ Out(k) \in Bit
              /\ g[k].out = Append(g[k - 1].out, Out(k))
  <2>1. k - 1 \in 0 .. N /\ k \in 0 .. N
    BY <1>1, SMT
  <2>2. g[k] = DescrambleOne(g[k - 1], x[k])
    BY <1>5
  <2>3. BitTuple(t[k - 1], 9) /\ x[k] \in Bit
    BY <1>1, <1>11, <2>1
  <2>4. Out(k) \in Bit
    BY <2>3, Registers
  <2>5. t[k] = g[k].state /\ t[k - 1] = g[k - 1].state
    BY <1>11, <2>1
  <2> QED BY <2>1, <2>2, <2>4, <2>5 DEF DescrambleOne
<1> DEFINE T == {k \in 0 .. N : Len(g[k].out) = k /\ \A i \in 1 .. k : g[k].out[i] = Out(i)}
<1>14. 0 \in T
  <2>1. g[0].out = <<>>
    BY <1>4 DEF Recurs, first
  <2>2. Len(<<>>) = 0 /\ 0 \in 0 .. N /\ \A i \in 1 .. 0 : FALSE
    BY <1>1, SMT
  <2> QED BY <2>1, <2>2
<1>15. ASSUME NEW k \in 0 .. N - 1, k \in T PROVE k + 1 \in T
  <2>1. k + 1 \in 1 .. N /\ k + 1 \in 0 .. N /\ (k + 1) - 1 = k /\ k \in 0 .. N /\ k \in Nat
    BY <1>1, SMT
  <2>2. g[k + 1].out = Append(g[k].out, Out(k + 1)) /\ g[k].out \in Seq(Bit) /\ Len(g[k].out) = k
    BY <1>11, <1>13, <1>15, <2>1
  <2>3. Len(g[k + 1].out) = k + 1
    BY <2>2
  <2>4. ASSUME NEW i \in 1 .. k + 1 PROVE g[k + 1].out[i] = Out(i)
    <3>1. CASE i = k + 1
      <4> HIDE DEF Out
      <4> QED BY <2>1, <2>2, <3>1
    <3>2. CASE i # k + 1
      <4>1. i \in 1 .. k
        BY <2>1, <3>2, SMT
      <4>2. g[k + 1].out[i] = g[k].out[i]
        <5> HIDE DEF Out
        <5> QED BY <2>2, <4>1
      <4> QED BY <1>15, <4>1, <4>2
    <3> QED BY <3>1, <3>2
  <2> HIDE DEF Out
  <2> QED BY <2>1, <2>3, <2>4
<1>16. N \in T
  <2> HIDE DEF T, N
  <2>1. 0 .. N \subseteq T
    BY <1>1, <1>14, <1>15, UpTo
  <2> QED BY <1>1, <2>1
<1> DEFINE y == g[N].out
<1>17. Through(descramble_bit, INIT_RX_LSFR, x) = y /\ y \in Seq(Bit)
  BY <1>1, <1>7, <1>10, <1>11
<1>18. Len(y) = N /\ \A k \in 1 .. N : y[k] = Out(k)
  BY <1>16
<1> HIDE DEF y
<1>19. DescrambleRun(t, x, y)
  BY <1>11, <1>12, <1>13, <1>17, <1>18 DEF DescrambleRun
<1> QED BY <1>17, <1>19

\* Bit i of a block, and 0 before it; the last five bits up to bit k.
BitAt(z, i) == IF i \in 1 .. Len(z) THEN z[i] ELSE 0
LastFive(z, k) == <<BitAt(z, k), BitAt(z, k - 1), BitAt(z, k - 2), BitAt(z, k - 3), BitAt(z, k - 4)>>

\* They are bits.
LEMMA LastFiveTyped ==
  ASSUME NEW z \in Seq(Bit), NEW k \in Int
  PROVE  BitTuple(LastFive(z, k), 5)
<1>1. \A i \in Int : BitAt(z, i) \in Bit
  BY DEF BitAt, Bit
<1>2. k - 1 \in Int /\ k - 2 \in Int /\ k - 3 \in Int /\ k - 4 \in Int
  BY SMT
<1>3. /\ BitAt(z, k) \in Bit /\ BitAt(z, k - 1) \in Bit /\ BitAt(z, k - 2) \in Bit
      /\ BitAt(z, k - 3) \in Bit /\ BitAt(z, k - 4) \in Bit
  BY <1>1, <1>2
<1> QED BY <1>3, SMT DEF LastFive, BitTuple

\* One bit on, the oldest is dropped.
LEMMA LastFiveNext ==
  ASSUME NEW z \in Seq(Bit), NEW k \in Nat, k + 1 \in 1 .. Len(z)
  PROVE  /\ LastFive(z, k + 1) = <<z[k + 1], LastFive(z, k)[1], LastFive(z, k)[2],
                                   LastFive(z, k)[3], LastFive(z, k)[4]>>
         /\ k >= 4 => LastFive(z, k)[5] = BitAt(z, k - 4)
<1>1. (k + 1) - 1 = k /\ (k + 1) - 2 = k - 1 /\ (k + 1) - 3 = k - 2 /\ (k + 1) - 4 = k - 3
  BY SMT
<1>2. BitAt(z, k + 1) = z[k + 1]
  BY DEF BitAt
<1> QED BY <1>1, <1>2 DEF LastFive

\* Whatever block is sent, il2p_scramble_block puts out as many bits, and
\* il2p_descramble_block makes the block of them again, every bit in its place:
\* the five bits that the scrambler is late are dropped and made up for.
THEOREM DescramblerUndoes ==
  ASSUME NEW x \in Seq(Bit)
  PROVE  /\ il2p_scramble_block(x) \in Seq(Bit) /\ Len(il2p_scramble_block(x)) = Len(x)
         /\ il2p_descramble_block(il2p_scramble_block(x)) = x
<1> DEFINE N == Len(x)
           zeros == [k \in 1 .. Delay |-> 0]
           z == x \o zeros
           y == Through(scramble_bit, INIT_TX_LSFR, z)
           s == il2p_scramble_block(x)
<1>1. N \in Nat /\ zeros \in Seq(Bit) /\ Len(zeros) = 5 /\ \A k \in 1 .. 5 : zeros[k] = 0
  <2>1. zeros \in [1 .. 5 -> Bit]
    BY DEF Delay, Bit
  <2>2. 5 \in Nat
    OBVIOUS
  <2> HIDE DEF zeros
  <2>3. zeros \in Seq(Bit) /\ Len(zeros) = 5
    BY <2>1, <2>2, TupleIsSeq
  <2> QED BY <2>3 DEF zeros, Delay
<1> HIDE DEF zeros
<1>2. z \in Seq(Bit) /\ Len(z) = N + 5 /\ \A i \in 1 .. N : z[i] = x[i]
  <2>1. z \in Seq(Bit) /\ Len(z) = Len(x) + Len(zeros)
    BY <1>1, ConcatProperties
  <2>2. \A i \in 1 .. Len(x) + Len(zeros) : z[i] = IF i <= Len(x) THEN x[i] ELSE zeros[i - Len(x)]
    BY <1>1, ConcatProperties
  <2>3. \A i \in 1 .. N : i \in 1 .. Len(x) + Len(zeros) /\ i <= N
    <3> HIDE DEF N
    <3>1. N = Len(x)
      BY DEF N
    <3> QED BY <1>1, <3>1, SMT
  <2> HIDE DEF z
  <2> QED BY <1>1, <2>1, <2>2, <2>3
<1> HIDE DEF z
<1>3. PICK t : ScrambleRun(t, z, y)
  BY <1>2, ScrambleRuns
<1>4. s = SubSeq(y, 6, 5 + N) /\ Delay = 5
  BY DEF il2p_scramble_block, z, zeros, Delay
<1> HIDE DEF y, s
<1>5. y \in Seq(Bit) /\ Len(y) = N + 5
  BY <1>2, <1>3 DEF ScrambleRun
<1>6. s \in Seq(Bit) /\ Len(s) = N /\ \A j \in 1 .. N : s[j] = y[5 + j]
  <2> HIDE DEF N
  <2>1. 6 \in 1 .. Len(y) + 1 /\ 5 + N \in 0 .. Len(y) /\ (5 + N) - 6 + 1 = N
    BY <1>1, <1>5, SMT
  <2>2. \A j \in 1 .. N : j + 6 - 1 = 5 + j /\ 5 + j \in 1 .. Len(y)
    BY <1>1, <1>5, SMT
  <2>3. s = [j \in 1 .. N |-> y[j + 6 - 1]]
    BY <1>4, <2>1 DEF SubSeq
  <2>4. s = [j \in 1 .. N |-> y[5 + j]]
    BY <2>2, <2>3
  <2>5. \A j \in 1 .. N : y[5 + j] \in Bit
    BY <1>5, <2>2
  <2>6. s \in [1 .. N -> Bit]
    BY <2>4, <2>5
  <2> QED BY <1>1, <2>4, <2>6, TupleIsSeq
<1> DEFINE d == Through(descramble_bit, INIT_RX_LSFR, s)
<1>7. PICK r : DescrambleRun(r, s, d)
  BY <1>6, DescrambleRuns
<1>8. il2p_descramble_block(s) = d
  BY DEF il2p_descramble_block
<1> HIDE DEF d
<1>9. d \in Seq(Bit) /\ Len(d) = N
  BY <1>6, <1>7 DEF DescrambleRun
<1> DEFINE K(k) == LastFive(z, k)
<1>10. \A k \in Int : BitTuple(K(k), 5)
  BY <1>2, LastFiveTyped
<1>11. ASSUME NEW k \in 0 .. N + 4
       PROVE  /\ k \in 0 .. N + 5 /\ k + 1 \in 0 .. N + 5 /\ k \in Int
              /\ BitTuple(t[k], 9) /\ z[k + 1] \in Bit
              /\ t[k + 1] = scramble_bit(z[k + 1], t[k]).state
              /\ y[k + 1] = scramble_bit(z[k + 1], t[k]).out
              /\ K(k + 1) = <<z[k + 1], K(k)[1], K(k)[2], K(k)[3], K(k)[4]>>
  <2>1. k \in 0 .. N + 5 /\ k + 1 \in 1 .. N + 5 /\ k + 1 \in 0 .. N + 5 /\ (k + 1) - 1 = k /\ k \in Nat
    <3> HIDE DEF N
    <3> QED BY <1>1, SMT
  <2>2. z[k + 1] \in Bit
    BY <1>2, <2>1
  <2>3. /\ t[k + 1] = scramble_bit(z[k + 1], t[k]).state
        /\ y[k + 1] = scramble_bit(z[k + 1], t[k]).out /\ BitTuple(t[k], 9)
    <3>1. BitTuple(t[k], 9)
      BY <1>2, <1>3, <2>1 DEF ScrambleRun
    <3>2. /\ t[k + 1] = scramble_bit(z[k + 1], t[(k + 1) - 1]).state
          /\ y[k + 1] = scramble_bit(z[k + 1], t[(k + 1) - 1]).out
      BY <1>2, <1>3, <2>1, Zenon DEF ScrambleRun
    <3> QED BY <2>1, <3>1, <3>2
  <2>4. K(k + 1) = <<z[k + 1], K(k)[1], K(k)[2], K(k)[3], K(k)[4]>>
    BY <1>2, <2>1, LastFiveNext
  <2> QED BY <2>1, <2>2, <2>3, <2>4
<1> HIDE DEF K
<1>12. ASSUME NEW k \in 0 .. 4, Filled(t[k], K(k), k) PROVE Filled(t[k + 1], K(k + 1), k + 1)
  <2>1. k \in 0 .. N + 4 /\ k \in 0 .. Delay - 1
    <3> HIDE DEF N
    <3> QED BY <1>1, SMT DEF Delay
  <2>2. /\ k \in Int /\ BitTuple(t[k], 9) /\ z[k + 1] \in Bit
        /\ t[k + 1] = scramble_bit(z[k + 1], t[k]).state
        /\ K(k + 1) = <<z[k + 1], K(k)[1], K(k)[2], K(k)[3], K(k)[4]>>
    BY <1>11, <2>1
  <2>3. BitTuple(K(k), 5)
    BY <1>10, <2>2
  <2>4. Filled(scramble_bit(z[k + 1], t[k]).state, <<z[k + 1], K(k)[1], K(k)[2], K(k)[3], K(k)[4]>>, k + 1)
    BY <1>12, <2>1, <2>2, <2>3, Filling
  <2> QED BY <2>2, <2>4
<1>13. Filled(t[5], K(5), 5)
  <2>0. t[0] = INIT_TX_LSFR
    BY <1>3 DEF ScrambleRun
  <2>1. Filled(t[0], K(0), 0)
    BY <2>0, SMT DEF Filled, INIT_TX_LSFR
  <2>2. Filled(t[1], K(1), 1)
    <3>1. 0 \in 0 .. 4 /\ 0 + 1 = 1
      BY SMT
    <3> QED BY <1>12, <2>1, <3>1
  <2>3. Filled(t[2], K(2), 2)
    <3>1. 1 \in 0 .. 4 /\ 1 + 1 = 2
      BY SMT
    <3> QED BY <1>12, <2>2, <3>1
  <2>4. Filled(t[3], K(3), 3)
    <3>1. 2 \in 0 .. 4 /\ 2 + 1 = 3
      BY SMT
    <3> QED BY <1>12, <2>3, <3>1
  <2>5. Filled(t[4], K(4), 4)
    <3>1. 3 \in 0 .. 4 /\ 3 + 1 = 4
      BY SMT
    <3> QED BY <1>12, <2>4, <3>1
  <2>6. 4 \in 0 .. 4 /\ 4 + 1 = 5
    BY SMT
  <2> QED BY <1>12, <2>5, <2>6
<1>14. Linked(t[5 + 0], r[0], K(5 + 0))
  <2>1. BitTuple(t[5], 9) /\ BitTuple(K(5), 5)
    <3>1. 5 \in 0 .. Len(z) /\ 5 \in Int
      <4> HIDE DEF N
      <4> QED BY <1>1, <1>2, SMT
    <3> QED BY <1>3, <1>10, <3>1 DEF ScrambleRun
  <2>2. Linked(t[5], INIT_RX_LSFR, K(5))
    BY <1>4, <1>13, <2>1, FilledIsLinked
  <2>3. r[0] = INIT_RX_LSFR /\ 5 + 0 = 5
    BY <1>7 DEF DescrambleRun
  <2> QED BY <2>2, <2>3
<1> DEFINE T == {j \in 0 .. N : Linked(t[5 + j], r[j], K(5 + j)) /\ \A i \in 1 .. j : d[i] = x[i]}
<1>15. 0 \in T
  <2>1. 0 \in 0 .. N /\ \A i \in 1 .. 0 : FALSE
    <3> HIDE DEF N
    <3> QED BY <1>1, SMT
  <2> QED BY <1>14, <2>1
<1>16. ASSUME NEW j \in 0 .. N - 1, j \in T PROVE j + 1 \in T
  <2>1. /\ j \in 0 .. N /\ j + 1 \in 0 .. N /\ j + 1 \in 1 .. N /\ (j + 1) - 1 = j /\ j \in Nat
        /\ 5 + j \in 0 .. N + 4 /\ (5 + j) + 1 = 5 + (j + 1) /\ 5 + j \in Nat /\ 5 + j >= 4
        /\ (5 + j) - 4 = j + 1 /\ (5 + j) + 1 \in 1 .. N + 5
    <3> HIDE DEF N
    <3> QED BY <1>1, SMT
  <2> DEFINE a == t[5 + j]
             k == K(5 + j)
             in == z[(5 + j) + 1]
             c == scramble_bit(in, a)
             e == descramble_bit(c.out, r[j])
  <2>2. /\ BitTuple(a, 9) /\ in \in Bit /\ t[5 + (j + 1)] = c.state /\ s[j + 1] = c.out
        /\ K(5 + (j + 1)) = <<in, k[1], k[2], k[3], k[4]>>
    BY <1>6, <1>11, <2>1
  <2>3. BitTuple(r[j], 9) /\ r[j + 1] = e.state /\ d[j + 1] = e.out
    <3>1. BitTuple(r[j], 9)
      BY <1>6, <1>7, <2>1 DEF DescrambleRun
    <3>2. r[j + 1] = descramble_bit(s[j + 1], r[(j + 1) - 1]).state /\ d[j + 1] = descramble_bit(s[j + 1], r[(j + 1) - 1]).out
      BY <1>6, <1>7, <2>1, Zenon DEF DescrambleRun
    <3> QED BY <2>1, <2>2, <3>1, <3>2
  <2>4. BitTuple(k, 5)
    BY <1>10, <2>1
  <2>5. Linked(a, r[j], k)
    BY <1>16
  <2>6. k[5] = z[j + 1]
    <3>1. LastFive(z, 5 + j)[5] = BitAt(z, (5 + j) - 4)
      BY <1>2, <2>1, LastFiveNext
    <3>2. j + 1 \in 1 .. Len(z)
      <4> HIDE DEF N
      <4> QED BY <1>1, <1>2, SMT
    <3> QED BY <2>1, <3>1, <3>2 DEF K, BitAt
  <2>7. e.out = k[5] /\ Linked(c.state, e.state, <<in, k[1], k[2], k[3], k[4]>>)
    <3> HIDE DEF a, k, in
    <3> QED BY <2>2, <2>3, <2>4, <2>5, Linking
  <2> HIDE DEF a, k, in, c, e
  <2>8. Linked(t[5 + (j + 1)], r[j + 1], K(5 + (j + 1)))
    BY <2>2, <2>3, <2>7
  <2>9. d[j + 1] = x[j + 1]
    BY <1>2, <2>1, <2>3, <2>6, <2>7
  <2>10. \A i \in 1 .. j + 1 : d[i] = x[i]
    <3>1. \A i \in 1 .. j + 1 : i = j + 1 \/ i \in 1 .. j
      BY <2>1, SMT
    <3>2. \A i \in 1 .. j : d[i] = x[i]
      BY <1>16
    <3> QED BY <2>9, <3>1, <3>2
  <2> QED BY <2>1, <2>8, <2>10
<1>17. N \in T
  <2> HIDE DEF T, N
  <2>1. 0 .. N \subseteq T
    BY <1>1, <1>15, <1>16, UpTo
  <2> QED BY <1>1, <2>1
<1>18. d = x
  <2>1. \A i \in 1 .. Len(d) : d[i] = x[i]
    BY <1>9, <1>17
  <2> QED BY <1>9, <2>1, SeqEqual
<1> QED BY <1>6, <1>8, <1>18 DEF s

-----------------------------------------------------------------------------
(* Exclusive or, and the field of 256 elements.  Exclusive or adds bits, each  *)
(* without a carry, and its laws follow from those of adding two bits.         *)

\* Eight bits added to eight others.
AddBits(s, t) == [k \in 1 .. 8 |-> (s[k] + t[k]) % 2]

\* Adding bits is a group in which every element is its own inverse.
LEMMA AddLaws ==
  ASSUME NEW s \in [1 .. 8 -> Bit], NEW t \in [1 .. 8 -> Bit], NEW u \in [1 .. 8 -> Bit]
  PROVE  /\ AddBits(s, t) \in [1 .. 8 -> Bit] /\ AddBits(s, t) = AddBits(t, s)
         /\ AddBits(AddBits(s, t), u) = AddBits(s, AddBits(t, u))
         /\ AddBits(s, s) = [k \in 1 .. 8 |-> 0] /\ AddBits([k \in 1 .. 8 |-> 0], s) = s
<1>1. ASSUME NEW i \in {0, 1}, NEW j \in {0, 1}, NEW l \in {0, 1}
      PROVE  /\ (i + j) % 2 \in {0, 1} /\ (i + j) % 2 = (j + i) % 2
             /\ (((i + j) % 2) + l) % 2 = (i + ((j + l) % 2)) % 2
             /\ (i + i) % 2 = 0 /\ (0 + i) % 2 = i
  BY SMT
<1>2. \A k \in 1 .. 8 : s[k] \in {0, 1} /\ t[k] \in {0, 1} /\ u[k] \in {0, 1}
  BY DEF Bit
<1>3. AddBits(s, t) \in [1 .. 8 -> Bit] /\ AddBits(t, u) \in [1 .. 8 -> Bit]
  BY <1>1, <1>2 DEF AddBits, Bit
<1>4. AddBits(s, t) = AddBits(t, s)
  BY <1>1, <1>2 DEF AddBits
<1>5. AddBits(AddBits(s, t), u) = AddBits(s, AddBits(t, u))
  <2>1. \A k \in 1 .. 8 : AddBits(s, t)[k] = (s[k] + t[k]) % 2 /\ AddBits(t, u)[k] = (t[k] + u[k]) % 2
    BY DEF AddBits
  <2>2. \A k \in 1 .. 8 : (AddBits(s, t)[k] + u[k]) % 2 = (s[k] + AddBits(t, u)[k]) % 2
    BY <1>1, <1>2, <2>1
  <2> QED BY <2>2 DEF AddBits
<1>6. AddBits(s, s) = [k \in 1 .. 8 |-> 0]
  BY <1>1, <1>2 DEF AddBits
<1>7. AddBits([k \in 1 .. 8 |-> 0], s) = s
  BY <1>1, <1>2 DEF AddBits
<1> QED BY <1>3, <1>4, <1>5, <1>6, <1>7

\* The table for half octets adds their four bits.
LEMMA NibbleXorIs ==
  ASSUME NEW x \in 0 .. 15, NEW y \in 0 .. 15
  PROVE  NibbleXor[x][y] = ((x + y) % 2) + 2 * (((x \div 2) + (y \div 2)) % 2)
                            + 4 * (((x \div 4) + (y \div 4)) % 2) + 8 * (((x \div 8) + (y \div 8)) % 2)
<1> DEFINE w == <<1, 2, 4, 8>>
           Term(n) == w[n] * (((x \div w[n]) + (y \div w[n])) % 2)
           Eq(f) == f = [n \in 0 .. Len(w) |-> IF n = 0 THEN 0 ELSE f[n - 1] + Term(n)]
           run == CHOOSE f : Eq(f)
           g == [n \in 0 .. 4 |-> IF n = 0 THEN 0 ELSE IF n = 1 THEN Term(1)
                                  ELSE IF n = 2 THEN Term(1) + Term(2)
                                  ELSE IF n = 3 THEN Term(1) + Term(2) + Term(3)
                                  ELSE Term(1) + Term(2) + Term(3) + Term(4)]
<1>1. Len(w) = 4 /\ w[1] = 1 /\ w[2] = 2 /\ w[3] = 4 /\ w[4] = 8
  OBVIOUS
<1>2. NibbleXor[x][y] = run[4]
  BY <1>1, Zenon DEF NibbleXor, Fold
<1>3. Term(1) \in Int /\ Term(2) \in Int /\ Term(3) \in Int /\ Term(4) \in Int
  BY <1>1, SMT
<1>4. Eq(g)
  <2> HIDE DEF Term, w
  <2>1. ASSUME NEW n \in 0 .. 4 PROVE g[n] = IF n = 0 THEN 0 ELSE g[n - 1] + Term(n)
    BY <1>3, SMT
  <2> HIDE DEF g
  <2>2. g = [n \in 0 .. 4 |-> IF n = 0 THEN 0 ELSE g[n - 1] + Term(n)]
    <3>1. g = [n \in 0 .. 4 |-> g[n]]
      BY DEF g
    <3> QED BY <2>1, <3>1
  <2> QED BY <1>1, <2>2
<1> HIDE DEF Eq
<1>5. Eq(run)
  BY <1>4
<1> HIDE DEF run, g
<1>6. run[4] = Term(1) + Term(2) + Term(3) + Term(4)
  <2> HIDE DEF Term, w
  <2>1. \A n \in 0 .. 4 : run[n] = IF n = 0 THEN 0 ELSE run[n - 1] + Term(n)
    BY <1>1, <1>5 DEF Eq
  <2>2. run[0] = 0 /\ run[1] = run[0] + Term(1) /\ run[2] = run[1] + Term(2)
        /\ run[3] = run[2] + Term(3) /\ run[4] = run[3] + Term(4)
    BY <2>1, SMT
  <2> QED BY <1>3, <2>2, SMT
<1>7. /\ Term(1) = (x + y) % 2 /\ Term(2) = 2 * (((x \div 2) + (y \div 2)) % 2)
      /\ Term(3) = 4 * (((x \div 4) + (y \div 4)) % 2) /\ Term(4) = 8 * (((x \div 8) + (y \div 8)) % 2)
  BY <1>1, SMT
<1> QED BY <1>2, <1>6, <1>7

\* Xor adds the eight bits.
LEMMA XorIsSum ==
  ASSUME NEW x \in Byte, NEW y \in Byte
  PROVE  Xor(x, y) = Number(AddBits(Bits(x, 8), Bits(y, 8)))
<1> DEFINE B(d) == ((x \div d) + (y \div d)) % 2
           s == Bits(x, 8)
           t == Bits(y, 8)
<1>1. x \div 16 \in 0 .. 15 /\ y \div 16 \in 0 .. 15 /\ x % 16 \in 0 .. 15 /\ y % 16 \in 0 .. 15
  BY SMT DEF Byte
<1>2. NibbleXor[x \div 16][y \div 16] = B(16) + 2 * B(32) + 4 * B(64) + 8 * B(128)
  <2>1. ASSUME NEW z \in Byte
        PROVE  /\ (z \div 16) \div 2 = z \div 32 /\ (z \div 16) \div 4 = z \div 64
               /\ (z \div 16) \div 8 = z \div 128
    BY SMT DEF Byte
  <2> QED BY <1>1, <2>1, NibbleXorIs
<1>3. NibbleXor[x % 16][y % 16] = B(1) + 2 * B(2) + 4 * B(4) + 8 * B(8)
  <2>1. ASSUME NEW z \in Byte, NEW c \in Byte
        PROVE  /\ ((z % 16) + (c % 16)) % 2 = ((z \div 1) + (c \div 1)) % 2
               /\ (((z % 16) \div 2) + ((c % 16) \div 2)) % 2 = ((z \div 2) + (c \div 2)) % 2
               /\ (((z % 16) \div 4) + ((c % 16) \div 4)) % 2 = ((z \div 4) + (c \div 4)) % 2
               /\ (((z % 16) \div 8) + ((c % 16) \div 8)) % 2 = ((z \div 8) + (c \div 8)) % 2
    <3>1. ASSUME NEW v \in Byte
          PROVE  /\ \E q \in Nat : v % 16 = v - 16 * q /\ v \div 1 = v
                      /\ (v % 16) \div 2 = (v \div 2) - 8 * q
                      /\ (v % 16) \div 4 = (v \div 4) - 4 * q
                      /\ (v % 16) \div 8 = (v \div 8) - 2 * q
      <4>1. v \div 16 \in Nat /\ v % 16 = v - 16 * (v \div 16)
        BY SMT DEF Byte
      <4>2. /\ v \div 1 = v
            /\ (v % 16) \div 2 = (v \div 2) - 8 * (v \div 16)
            /\ (v % 16) \div 4 = (v \div 4) - 4 * (v \div 16)
            /\ (v % 16) \div 8 = (v \div 8) - 2 * (v \div 16)
        BY SMT DEF Byte
      <4> QED BY <4>1, <4>2
    <3>2. PICK q \in Nat : z % 16 = z - 16 * q /\ z \div 1 = z
                      /\ (z % 16) \div 2 = (z \div 2) - 8 * q
                      /\ (z % 16) \div 4 = (z \div 4) - 4 * q
                      /\ (z % 16) \div 8 = (z \div 8) - 2 * q
      BY <3>1
    <3>3. PICK r \in Nat : c % 16 = c - 16 * r /\ c \div 1 = c
                      /\ (c % 16) \div 2 = (c \div 2) - 8 * r
                      /\ (c % 16) \div 4 = (c \div 4) - 4 * r
                      /\ (c % 16) \div 8 = (c \div 8) - 2 * r
      BY <3>1
    <3>4. ASSUME NEW m \in Nat, NEW n \in Nat, NEW d \in Int
          PROVE  (m - 2 * d + n) % 2 = (m + n) % 2
      BY SMT
    <3> QED BY <3>2, <3>3, SMT DEF Byte
  <2> QED BY <1>1, <2>1, NibbleXorIs
<1>4. Xor(x, y) = 128 * B(128) + 64 * B(64) + 32 * B(32) + 16 * B(16)
                  + 8 * B(8) + 4 * B(4) + 2 * B(2) + B(1)
  <2>1. \A d \in {1, 2, 4, 8, 16, 32, 64, 128} : B(d) \in Int
    BY SMT DEF Byte
  <2> HIDE DEF B
  <2> QED BY <1>2, <1>3, <2>1, SMT DEF Xor
<1>5. s \in [1 .. 8 -> Bit] /\ t \in [1 .. 8 -> Bit] /\ x \in Nat /\ y \in Nat
  <2>1. x \in Nat /\ y \in Nat
    BY SMT DEF Byte
  <2> QED BY <2>1, Bits8Are
<1>6. /\ AddBits(s, t)[1] = B(128) /\ AddBits(s, t)[2] = B(64) /\ AddBits(s, t)[3] = B(32)
      /\ AddBits(s, t)[4] = B(16)
      /\ AddBits(s, t)[5] = B(8) /\ AddBits(s, t)[6] = B(4) /\ AddBits(s, t)[7] = B(2)
      /\ AddBits(s, t)[8] = B(1)
  <2>1. \A k \in {1, 2, 3, 4, 5, 6, 7, 8} : AddBits(s, t)[k] = (s[k] + t[k]) % 2
    BY SMT DEF AddBits
  <2>2. ASSUME NEW i \in Nat, NEW j \in Nat PROVE ((i % 2) + (j % 2)) % 2 = (i + j) % 2
    BY SMT
  <2>3. \A z \in Nat : /\ z \div 1 = z
                       /\ \A d \in {1, 2, 4, 8, 16, 32, 64, 128} : z \div d \in Nat
    BY SMT
  <2>5. \A d \in {1, 2, 4, 8, 16, 32, 64, 128} :
          (((x \div d) % 2) + ((y \div d) % 2)) % 2 = B(d)
    BY <1>5, <2>2, <2>3
  <2>6. /\ s[1] = (x \div 128) % 2 /\ s[2] = (x \div 64) % 2 /\ s[3] = (x \div 32) % 2
        /\ s[4] = (x \div 16) % 2 /\ s[5] = (x \div 8) % 2 /\ s[6] = (x \div 4) % 2
        /\ s[7] = (x \div 2) % 2 /\ s[8] = x % 2
    BY <1>5, Bits8Are, Zenon
  <2>7. /\ t[1] = (y \div 128) % 2 /\ t[2] = (y \div 64) % 2 /\ t[3] = (y \div 32) % 2
        /\ t[4] = (y \div 16) % 2 /\ t[5] = (y \div 8) % 2 /\ t[6] = (y \div 4) % 2
        /\ t[7] = (y \div 2) % 2 /\ t[8] = y % 2
    BY <1>5, Bits8Are, Zenon
  <2>8. ((x % 2) + (y % 2)) % 2 = B(1)
    BY <1>5, <2>2, <2>3
  <2> HIDE DEF B, s, t
  <2> QED BY <2>1, <2>5, <2>6, <2>7, <2>8
<1>7. AddBits(s, t) \in [1 .. 8 -> Bit]
  BY <1>5, AddLaws
<1> HIDE DEF B, s, t
<1>8. Number(AddBits(s, t)) = 128 * B(128) + 64 * B(64) + 32 * B(32) + 16 * B(16)
                  + 8 * B(8) + 4 * B(4) + 2 * B(2) + B(1)
  BY <1>6, <1>7, NumberOf8
<1> QED BY <1>4, <1>8 DEF s, t

\* The laws of exclusive or.
LEMMA XorBits ==
  ASSUME NEW x \in Byte, NEW y \in Byte
  PROVE  Xor(x, y) \in Byte /\ Bits(Xor(x, y), 8) = AddBits(Bits(x, 8), Bits(y, 8))
  BY XorIsSum, Back8, AddLaws, Forth8

\* So are octets under Xor.
LEMMA XorLaws ==
  ASSUME NEW x \in Byte, NEW y \in Byte, NEW z \in Byte
  PROVE  /\ Xor(x, y) \in Byte /\ Xor(x, y) = Xor(y, x)
         /\ Xor(Xor(x, y), z) = Xor(x, Xor(y, z))
         /\ Xor(x, x) = 0 /\ Xor(0, x) = x /\ Xor(x, 0) = x
<1> DEFINE s == Bits(x, 8)
           t == Bits(y, 8)
           u == Bits(z, 8)
           o == [k \in 1 .. 8 |-> 0]
<1>1. /\ s \in [1 .. 8 -> Bit] /\ t \in [1 .. 8 -> Bit] /\ u \in [1 .. 8 -> Bit]
      /\ Number(s) = x /\ Number(t) = y /\ Number(u) = z
  BY Back8
<1>2. o \in [1 .. 8 -> Bit] /\ Number(o) = 0
  <2>1. o \in [1 .. 8 -> Bit]
    BY DEF Bit
  <2>2. \A k \in {1, 2, 3, 4, 5, 6, 7, 8} : o[k] = 0
    BY SMT
  <2> HIDE DEF o
  <2> QED BY <2>1, <2>2, NumberOf8, SMT
<1>3. 0 \in Byte /\ Bits(0, 8) = o
  <2>1. 0 \in Byte
    BY SMT DEF Byte
  <2> HIDE DEF o
  <2> QED BY <1>2, <2>1, Forth8
<1>4. Xor(x, y) \in Byte /\ Bits(Xor(x, y), 8) = AddBits(s, t) /\ Xor(y, z) \in Byte
      /\ Bits(Xor(y, z), 8) = AddBits(t, u)
  BY XorBits
<1> HIDE DEF s, t, u, o
<1>5. /\ Xor(x, y) = Number(AddBits(s, t)) /\ Xor(y, x) = Number(AddBits(t, s))
      /\ Xor(x, x) = Number(AddBits(s, s))
      /\ Xor(0, x) = Number(AddBits(o, s)) /\ Xor(x, 0) = Number(AddBits(s, o))
  BY <1>3, XorIsSum DEF s, t
<1>6. Xor(Xor(x, y), z) = Number(AddBits(AddBits(s, t), u)) /\ Xor(x, Xor(y, z)) = Number(AddBits(s, AddBits(t, u)))
  BY <1>4, XorIsSum DEF s, u
<1>7. AddBits(s, t) = AddBits(t, s) /\ AddBits(AddBits(s, t), u) = AddBits(s, AddBits(t, u))
      /\ AddBits(s, s) = o
      /\ AddBits(o, s) = s /\ AddBits(s, o) = s
  BY <1>1, <1>2, AddLaws DEF o
<1> QED BY <1>1, <1>2, <1>4, <1>5, <1>6, <1>7

\* The bits of a sum of powers of two.
LEMMA BitsAre ==
  ASSUME NEW s \in [1 .. 8 -> Bit], NEW v \in Int,
         v = 128 * s[1] + 64 * s[2] + 32 * s[3] + 16 * s[4] + 8 * s[5] + 4 * s[6] + 2 * s[7] + s[8]
  PROVE  v \in Byte /\ Bits(v, 8) = s
<1>1. Number(s) = v
  BY NumberOf8
<1> QED BY <1>1, Forth8

\* A symbol times alpha: shifted, and reduced by the field's polynomial.
TimesAlpha(x) == IF x = 0 THEN 0 ELSE Shifted[x]
Up(s) == <<s[2], s[3], s[4], (s[5] + s[1]) % 2, (s[6] + s[1]) % 2, (s[7] + s[1]) % 2, s[8], s[1]>>

\* The bits of a symbol times alpha, one by one.
LEMMA UpIs ==
  ASSUME NEW s \in [1 .. 8 -> Bit]
  PROVE  /\ Up(s) \in [1 .. 8 -> Bit]
         /\ Up(s)[1] = s[2] /\ Up(s)[2] = s[3] /\ Up(s)[3] = s[4] /\ Up(s)[4] = (s[5] + s[1]) % 2
         /\ Up(s)[5] = (s[6] + s[1]) % 2 /\ Up(s)[6] = (s[7] + s[1]) % 2 /\ Up(s)[7] = s[8] /\ Up(s)[8] = s[1]
<1>1. \A k \in {1, 2, 3, 4, 5, 6, 7, 8} : s[k] \in Bit
  BY SMT
<1>2. \A i, j \in Bit : (i + j) % 2 \in Bit
  BY SMT DEF Bit
<1>3. /\ s[2] \in Bit /\ s[3] \in Bit /\ s[4] \in Bit /\ (s[5] + s[1]) % 2 \in Bit
      /\ (s[6] + s[1]) % 2 \in Bit /\ (s[7] + s[1]) % 2 \in Bit /\ s[8] \in Bit /\ s[1] \in Bit
  BY <1>1, <1>2
<1> QED BY <1>3 DEF Up

\* A sum times alpha, bit by bit.
LEMMA UpLinear ==
  ASSUME NEW s \in [1 .. 8 -> Bit], NEW t \in [1 .. 8 -> Bit]
  PROVE  Up(AddBits(s, t)) = AddBits(Up(s), Up(t))
<1>1. \A i, j, m, n \in {0, 1} :
         (((i + j) % 2) + ((m + n) % 2)) % 2 = (((i + m) % 2) + ((j + n) % 2)) % 2
  BY SMT
<1>2. \A k \in {1, 2, 3, 4, 5, 6, 7, 8} : s[k] \in {0, 1} /\ t[k] \in {0, 1}
  BY SMT DEF Bit
<1>3. AddBits(s, t) \in [1 .. 8 -> Bit]
  BY AddLaws
<1>4. \A k \in {1, 2, 3, 4, 5, 6, 7, 8} :
         AddBits(s, t)[k] = (s[k] + t[k]) % 2 /\ AddBits(Up(s), Up(t))[k] = (Up(s)[k] + Up(t)[k]) % 2
  BY SMT DEF AddBits
<1>5. \A k \in {1, 2, 3, 4, 5, 6, 7, 8} : Up(AddBits(s, t))[k] = AddBits(Up(s), Up(t))[k]
  <2> DEFINE u == AddBits(s, t)
             a == Up(s)
             c == Up(t)
             d == Up(u)
  <2>1. /\ a[1] = s[2] /\ a[2] = s[3] /\ a[3] = s[4] /\ a[4] = (s[5] + s[1]) % 2
        /\ a[5] = (s[6] + s[1]) % 2 /\ a[6] = (s[7] + s[1]) % 2 /\ a[7] = s[8] /\ a[8] = s[1]
    BY UpIs
  <2>2. /\ c[1] = t[2] /\ c[2] = t[3] /\ c[3] = t[4] /\ c[4] = (t[5] + t[1]) % 2
        /\ c[5] = (t[6] + t[1]) % 2 /\ c[6] = (t[7] + t[1]) % 2 /\ c[7] = t[8] /\ c[8] = t[1]
    BY UpIs
  <2>3. /\ d[1] = u[2] /\ d[2] = u[3] /\ d[3] = u[4] /\ d[4] = (u[5] + u[1]) % 2
        /\ d[5] = (u[6] + u[1]) % 2 /\ d[6] = (u[7] + u[1]) % 2 /\ d[7] = u[8] /\ d[8] = u[1]
    BY <1>3, UpIs
  <2>4. \A k \in {1, 2, 3, 4, 5, 6, 7, 8} : u[k] = (s[k] + t[k]) % 2
    BY <1>4
  <2> HIDE DEF u, a, c, d
  <2>5. /\ d[1] = (a[1] + c[1]) % 2 /\ d[2] = (a[2] + c[2]) % 2 /\ d[3] = (a[3] + c[3]) % 2
        /\ d[7] = (a[7] + c[7]) % 2 /\ d[8] = (a[8] + c[8]) % 2
    BY <2>1, <2>2, <2>3, <2>4
  <2>6. d[4] = (a[4] + c[4]) % 2 /\ d[5] = (a[5] + c[5]) % 2 /\ d[6] = (a[6] + c[6]) % 2
    BY <1>1, <1>2, <2>1, <2>2, <2>3, <2>4
  <2>7. \A k \in {1, 2, 3, 4, 5, 6, 7, 8} : d[k] = (a[k] + c[k]) % 2
    BY <2>5, <2>6
  <2> QED BY <1>4, <2>7 DEF a, c, d, u
<1>6. AddBits(Up(s), Up(t)) \in [1 .. 8 -> Bit] /\ Up(AddBits(s, t)) \in [1 .. 8 -> Bit]
  BY <1>3, UpIs, AddLaws
<1>7. 1 .. 8 = {1, 2, 3, 4, 5, 6, 7, 8}
  BY SMT
<1> QED BY <1>5, <1>6, <1>7

\* That is what Shifted is, bit by bit and as a number.
LEMMA TimesAlphaBits ==
  ASSUME NEW x \in Byte
  PROVE  /\ TimesAlpha(x) \in Byte /\ Bits(TimesAlpha(x), 8) = Up(Bits(x, 8))
         /\ x > 0 => TimesAlpha(x) = Shifted[x]
         /\ x > 0 => TimesAlpha(x) = IF x < 128 THEN 2 * x ELSE 2 * x - 227 - 8 * ((x \div 2) % 8)
<1> DEFINE s == Bits(x, 8)
           e == <<0, 0, 0, 1, 1, 1, 0, 1>>
           r == <<s[2], s[3], s[4], s[5], s[6], s[7], s[8], 0>>
<1>1. s \in [1 .. 8 -> Bit] /\ Number(s) = x
  BY Back8
<1>2. /\ x \in 0 .. 255 /\ s[1] \in {0, 1} /\ s[2] \in {0, 1} /\ s[3] \in {0, 1} /\ s[4] \in {0, 1}
      /\ s[5] \in {0, 1} /\ s[6] \in {0, 1} /\ s[7] \in {0, 1} /\ s[8] \in {0, 1}
  <2>1. \A n \in {1, 2, 3, 4, 5, 6, 7, 8} : s[n] \in {0, 1}
    BY <1>1, SMT DEF Bit
  <2> QED BY <2>1 DEF Byte
<1> HIDE DEF s
<1>3. x = 128 * s[1] + 64 * s[2] + 32 * s[3] + 16 * s[4] + 8 * s[5] + 4 * s[6] + 2 * s[7] + s[8]
  BY <1>1, NumberOf8
<1> PICK a \in {0, 1}, y \in {0, 1}, c \in {0, 1}, d \in {0, 1},
         h \in {0, 1}, i \in {0, 1}, j \in {0, 1}, k \in {0, 1} :
           /\ s[1] = a /\ s[2] = y /\ s[3] = c /\ s[4] = d
           /\ s[5] = h /\ s[6] = i /\ s[7] = j /\ s[8] = k
  BY <1>2, Zenon
<1>4. /\ Up(s) \in [1 .. 8 -> Bit]
      /\ Up(s)[1] = s[2] /\ Up(s)[2] = s[3] /\ Up(s)[3] = s[4] /\ Up(s)[4] = (s[5] + s[1]) % 2
      /\ Up(s)[5] = (s[6] + s[1]) % 2 /\ Up(s)[6] = (s[7] + s[1]) % 2 /\ Up(s)[7] = s[8] /\ Up(s)[8] = s[1]
  BY <1>1, UpIs
<1> DEFINE U == Up(s)
           up == 128 * U[1] + 64 * U[2] + 32 * U[3] + 16 * U[4] + 8 * U[5] + 4 * U[6] + 2 * U[7] + U[8]
<1>5. up \in Byte /\ Bits(up, 8) = U
  <2>1. \A n \in {1, 2, 3, 4, 5, 6, 7, 8} : U[n] \in {0, 1}
    BY <1>4, SMT DEF Bit
  <2> HIDE DEF U
  <2>2. up \in Int
    BY <2>1, SMT
  <2> QED BY <1>4, <2>2, BitsAre DEF U
<1>6. CASE s[1] = 0
  <2>1. (s[5] + 0) % 2 = s[5] /\ (s[6] + 0) % 2 = s[6] /\ (s[7] + 0) % 2 = s[7]
    BY <1>2, SMT
  <2>2. up = 2 * x /\ x < 128
    <3>1. U[1] = s[2] /\ U[2] = s[3] /\ U[3] = s[4] /\ U[4] = s[5] /\ U[5] = s[6]
          /\ U[6] = s[7] /\ U[7] = s[8] /\ U[8] = 0
      BY <1>4, <1>6, <2>1
    <3> HIDE DEF U
    <3>2. x = 64 * y + 32 * c + 16 * d + 8 * h + 4 * i + 2 * j + k
      <4>1. x = 128 * 0 + 64 * y + 32 * c + 16 * d + 8 * h + 4 * i + 2 * j + k
        BY <1>3, <1>6
      <4> QED BY <4>1, SMT
    <3>3. up = 128 * y + 64 * c + 32 * d + 16 * h + 8 * i + 4 * j + 2 * k + 0
      BY <3>1
    <3> HIDE DEF up
    <3> QED BY <3>2, <3>3, SMT
  <2>3. TimesAlpha(x) = 2 * x /\ (x > 0 => Shifted[x] = 2 * x)
    <3>1. CASE x = 0
      BY <3>1, SMT DEF TimesAlpha
    <3>2. CASE x # 0
      BY <2>2, <3>2, SMT DEF TimesAlpha, Shifted, NN, Byte
    <3> QED BY <3>1, <3>2
  <2> HIDE DEF U, up
  <2> QED BY <1>5, <2>2, <2>3 DEF U, s
<1>7. CASE s[1] = 1
  <2>1. /\ (s[5] + 1) % 2 = 1 - s[5] /\ (s[6] + 1) % 2 = 1 - s[6] /\ (s[7] + 1) % 2 = 1 - s[7]
    BY <1>2, SMT
  <2>2. x >= 128 /\ x <= 255 /\ up = 2 * x - 227 - 8 * (4 * s[5] + 2 * s[6] + s[7])
    <3>1. U[1] = s[2] /\ U[2] = s[3] /\ U[3] = s[4] /\ U[4] = 1 - s[5] /\ U[5] = 1 - s[6]
          /\ U[6] = 1 - s[7] /\ U[7] = s[8] /\ U[8] = 1
      BY <1>4, <1>7, <2>1
    <3> HIDE DEF U
    <3>2. x = 128 * 1 + 64 * y + 32 * c + 16 * d + 8 * h + 4 * i + 2 * j + k
      BY <1>3, <1>7
    <3>3. up = 128 * y + 64 * c + 32 * d + 16 * (1 - h) + 8 * (1 - i) + 4 * (1 - j) + 2 * k + 1
      BY <3>1
    <3>4. x >= 128 /\ x <= 255 /\ up = 2 * x - 227 - 8 * (4 * h + 2 * i + j)
      <4> HIDE DEF up
      <4> QED BY <3>2, <3>3, SMT
    <3> QED BY <3>4
  <2>3. (x \div 2) % 8 = 4 * s[5] + 2 * s[6] + s[7]
    <3> DEFINE m == 8 * a + 4 * y + 2 * c + d
               l == 4 * h + 2 * i + j
    <3>1. m \in 0 .. 15 /\ l \in 0 .. 7 /\ x = 16 * m + 2 * l + k
      <4>1. x = 128 * a + 64 * y + 32 * c + 16 * d + 8 * h + 4 * i + 2 * j + k
        BY <1>3
      <4> QED BY <4>1, SMT
    <3> HIDE DEF m, l
    <3>2. x \div 2 = 8 * m + l
      BY <3>1, SMT
    <3>3. (8 * m + l) % 8 = l
      BY <3>1, SMT
    <3> QED BY <3>2, <3>3 DEF l
  <2>4. Shifted[x] = Xor(2 * x - 256, 29) /\ TimesAlpha(x) = Shifted[x]
    <3>1. (2 * x) % 256 = 2 * x - 256 /\ gfpoly % 256 = 29 /\ x \in 1 .. NN /\ ~(x < 128) /\ x # 0
      BY <1>2, <2>2, SMT DEF gfpoly, NN
    <3> QED BY <3>1 DEF Shifted, TimesAlpha
  <2>5. e \in [1 .. 8 -> Bit] /\ r \in [1 .. 8 -> Bit]
    <3>1. \A n \in {1, 2, 3, 4, 5, 6, 7, 8} : s[n] \in Bit
      BY <1>2 DEF Bit
    <3> QED BY <3>1 DEF Bit
  <2>6. Bits(29, 8) = e /\ 29 \in Byte
    <3>1. 29 = 128 * e[1] + 64 * e[2] + 32 * e[3] + 16 * e[4] + 8 * e[5] + 4 * e[6] + 2 * e[7] + e[8]
      BY SMT
    <3>2. 29 \in Int
      BY SMT
    <3> HIDE DEF e
    <3> QED BY <2>5, <3>1, <3>2, BitsAre
  <2>7. Bits(2 * x - 256, 8) = r /\ 2 * x - 256 \in Byte
    <3>1. 2 * x - 256 = 128 * r[1] + 64 * r[2] + 32 * r[3] + 16 * r[4] + 8 * r[5] + 4 * r[6] + 2 * r[7] + r[8]
      <4>1. r[1] = s[2] /\ r[2] = s[3] /\ r[3] = s[4] /\ r[4] = s[5] /\ r[5] = s[6] /\ r[6] = s[7]
            /\ r[7] = s[8] /\ r[8] = 0
        OBVIOUS
      <4> HIDE DEF r
      <4>2. x = 128 * 1 + 64 * y + 32 * c + 16 * d + 8 * h + 4 * i + 2 * j + k
        BY <1>3, <1>7
      <4>3. 2 * x - 256 = 128 * y + 64 * c + 32 * d + 16 * h + 8 * i + 4 * j + 2 * k + 0
        BY <4>2, SMT
      <4> QED BY <4>1, <4>3
    <3>2. 2 * x - 256 \in Int
      BY <2>2, SMT DEF Byte
    <3> HIDE DEF r
    <3> QED BY <2>5, <3>1, <3>2, BitsAre
  <2>8. AddBits(r, e) = U
    <3>1. \A n \in {1, 2, 3, 4, 5, 6, 7, 8} : AddBits(r, e)[n] = (r[n] + e[n]) % 2
      BY SMT DEF AddBits
    <3>2. /\ r[1] = s[2] /\ r[2] = s[3] /\ r[3] = s[4] /\ r[4] = s[5] /\ r[5] = s[6] /\ r[6] = s[7]
          /\ r[7] = s[8] /\ r[8] = 0 /\ e[1] = 0 /\ e[2] = 0 /\ e[3] = 0 /\ e[4] = 1 /\ e[5] = 1
          /\ e[6] = 1 /\ e[7] = 0 /\ e[8] = 1
      OBVIOUS
    <3>3. \A n \in {1, 2, 3, 4, 5, 6, 7, 8} : (s[n] + 0) % 2 = s[n]
      <4>1. (0 + 0) % 2 = 0 /\ (1 + 0) % 2 = 1
        BY SMT
      <4> QED BY <1>2, <4>1
    <3>4. (0 + 1) % 2 = 1
      BY SMT
    <3>5. AddBits(r, e) \in [1 .. 8 -> Bit]
      BY <2>5, AddLaws
    <3> HIDE DEF r, e
    <3>6. \A n \in {1, 2, 3, 4, 5, 6, 7, 8} : AddBits(r, e)[n] = Up(s)[n]
      <4>1. /\ AddBits(r, e)[1] = Up(s)[1] /\ AddBits(r, e)[2] = Up(s)[2] /\ AddBits(r, e)[3] = Up(s)[3]
            /\ AddBits(r, e)[7] = Up(s)[7] /\ AddBits(r, e)[8] = Up(s)[8]
        <5>1. /\ AddBits(r, e)[1] = (s[2] + 0) % 2 /\ AddBits(r, e)[2] = (s[3] + 0) % 2
              /\ AddBits(r, e)[3] = (s[4] + 0) % 2 /\ AddBits(r, e)[7] = (s[8] + 0) % 2
              /\ AddBits(r, e)[8] = (0 + 1) % 2
          BY <3>1, <3>2
        <5>2. (s[2] + 0) % 2 = s[2] /\ (s[3] + 0) % 2 = s[3] /\ (s[4] + 0) % 2 = s[4] /\ (s[8] + 0) % 2 = s[8]
          BY <3>3
        <5> QED BY <1>4, <1>7, <3>4, <5>1, <5>2
      <4>2. /\ AddBits(r, e)[4] = Up(s)[4] /\ AddBits(r, e)[5] = Up(s)[5] /\ AddBits(r, e)[6] = Up(s)[6]
        BY <1>4, <1>7, <3>1, <3>2
      <4> QED BY <4>1, <4>2
    <3>7. 1 .. 8 = {1, 2, 3, 4, 5, 6, 7, 8}
      BY SMT
    <3> QED BY <1>4, <3>5, <3>6, <3>7
  <2>9. Xor(2 * x - 256, 29) \in Byte /\ Bits(Xor(2 * x - 256, 29), 8) = U
    <3> HIDE DEF r, e, U
    <3> QED BY <2>6, <2>7, <2>8, XorBits
  <2>10. Xor(2 * x - 256, 29) = up
    <3> HIDE DEF up, U
    <3> QED BY <1>5, <2>9, Back8
  <2> HIDE DEF U, up, e, r
  <2>11. ~(x < 128)
    BY <1>2, <2>2, SMT
  <2> QED BY <1>5, <2>2, <2>3, <2>4, <2>9, <2>10, <2>11 DEF U, s
<1>8. s[1] \in {0, 1}
  BY <1>2
<1> QED BY <1>6, <1>7, <1>8

\* It is linear, and nothing but 0 becomes 0.
LEMMA TimesAlphaLaws ==
  ASSUME NEW x \in Byte, NEW y \in Byte
  PROVE  /\ TimesAlpha(x) \in Byte /\ (TimesAlpha(x) = 0 <=> x = 0)
         /\ TimesAlpha(Xor(x, y)) = Xor(TimesAlpha(x), TimesAlpha(y))
<1>1. TimesAlpha(x) \in Byte /\ TimesAlpha(y) \in Byte /\ Xor(x, y) \in Byte
  BY TimesAlphaBits, XorLaws
<1>2. x # 0 => TimesAlpha(x) # 0
  <2> SUFFICES ASSUME x # 0 PROVE TimesAlpha(x) # 0
    OBVIOUS
  <2>1. TimesAlpha(x) = IF x < 128 THEN 2 * x ELSE 2 * x - 227 - 8 * ((x \div 2) % 8)
    <3>1. x > 0
      BY SMT DEF Byte
    <3> QED BY <3>1, TimesAlphaBits
  <2> QED BY <2>1, SMT DEF Byte
<1>3. TimesAlpha(Xor(x, y)) = Xor(TimesAlpha(x), TimesAlpha(y))
  <2> DEFINE s == Bits(x, 8)
             t == Bits(y, 8)
  <2>1. s \in [1 .. 8 -> Bit] /\ t \in [1 .. 8 -> Bit]
    BY Back8
  <2>2. Bits(TimesAlpha(Xor(x, y)), 8) = Up(AddBits(s, t))
    BY <1>1, XorBits, TimesAlphaBits
  <2>3. Bits(Xor(TimesAlpha(x), TimesAlpha(y)), 8) = AddBits(Up(s), Up(t))
    BY <1>1, XorBits, TimesAlphaBits
  <2>4. Up(AddBits(s, t)) = AddBits(Up(s), Up(t))
    BY <2>1, UpLinear
  <2>5. TimesAlpha(Xor(x, y)) \in Byte /\ Xor(TimesAlpha(x), TimesAlpha(y)) \in Byte
    BY <1>1, XorLaws, TimesAlphaBits
  <2> HIDE DEF s, t
  <2> QED BY <2>2, <2>3, <2>4, <2>5, Back8
<1>4. TimesAlpha(0) = 0
  BY DEF TimesAlpha
<1> QED BY <1>1, <1>2, <1>3, <1>4

-----------------------------------------------------------------------------
(* The tables of the field.  ALPHA_TO has the powers of alpha in turn: its      *)
(* beginnings are put together with what as many steps make of every symbol.    *)
Nonzero == 1 .. NN

\* Shifted leads from symbols other than 0 to such symbols.
LEMMA ShiftedTyped == Shifted \in [Nonzero -> Nonzero]
<1>1. ASSUME NEW x \in Nonzero PROVE Shifted[x] \in Nonzero
  <2>1. x \in Byte /\ x > 0 /\ x # 0
    BY SMT DEF Byte, Nonzero, NN
  <2>2. TimesAlpha(x) \in Byte /\ TimesAlpha(x) # 0
    BY <2>1, TimesAlphaLaws
  <2>3. Shifted[x] = TimesAlpha(x)
    BY <2>1 DEF TimesAlpha
  <2> QED BY <2>2, <2>3, SMT DEF Byte, Nonzero, NN
<1>2. Shifted = [x \in Nonzero |-> Shifted[x]]
  BY DEF Shifted, Nonzero
<1> QED BY <1>1, <1>2

\* The first m powers, and m steps.
Beginning(acc, m) ==
  /\ acc.sr \in Seq(Nonzero) /\ Len(acc.sr) = m /\ acc.sr[1] = 1
  /\ \A j \in 1 .. m - 1 : acc.sr[j + 1] = Shifted[acc.sr[j]]
  /\ acc.steps \in [Nonzero -> Nonzero]
  /\ \A x \in Nonzero : acc.steps[Shifted[x]] = Shifted[acc.steps[x]]
  /\ acc.steps[1] = Shifted[acc.sr[m]]

Doubled(acc) ==
  [sr |-> acc.sr \o [j \in DOMAIN acc.sr |-> acc.steps[acc.sr[j]]],
   steps |-> Evaluated([x \in 1 .. NN |-> acc.steps[acc.steps[x]]])]

Tables == [sr : Seq(Nonzero), steps : [Nonzero -> Nonzero]]

\* What one doubling of the tables does, place by place.
LEMMA DoubledIs ==
  ASSUME NEW acc \in Tables
  PROVE  /\ Doubled(acc) \in Tables
         /\ Len(Doubled(acc).sr) = 2 * Len(acc.sr)
         /\ \A j \in 1 .. Len(acc.sr) : /\ Doubled(acc).sr[j] = acc.sr[j]
                                        /\ Doubled(acc).sr[Len(acc.sr) + j] = acc.steps[acc.sr[j]]
         /\ \A x \in Nonzero : Doubled(acc).steps[x] = acc.steps[acc.steps[x]]
<1> DEFINE m == Len(acc.sr)
           more == [j \in DOMAIN acc.sr |-> acc.steps[acc.sr[j]]]
           twice == [x \in 1 .. NN |-> acc.steps[acc.steps[x]]]
<1>1. acc.sr \in Seq(Nonzero) /\ acc.steps \in [Nonzero -> Nonzero] /\ m \in Nat
  BY DEF Tables
<1>2. DOMAIN acc.sr = 1 .. m /\ \A j \in 1 .. m : acc.sr[j] \in Nonzero
  BY <1>1
<1>3. more \in [1 .. m -> Nonzero]
  BY <1>1, <1>2
<1>4. more \in Seq(Nonzero) /\ Len(more) = m
  <2> HIDE DEF more, m
  <2> QED BY <1>1, <1>3, TupleIsSeq
<1>5. twice \in [Nonzero -> Nonzero]
  BY <1>1 DEF Nonzero
<1>6. Evaluated(twice) = twice
  <2>1. NN \in Nat
    BY SMT DEF NN
  <2>2. twice \in Seq(Nonzero)
    <3>1. twice \in [1 .. NN -> Nonzero]
      BY <1>5 DEF Nonzero
    <3> HIDE DEF twice
    <3> QED BY <2>1, <3>1, TupleIsSeq
  <2> HIDE DEF twice
  <2> QED BY <2>2, EvaluatedIs
<1>7. Doubled(acc) = [sr |-> acc.sr \o more, steps |-> twice]
  <2>1. Doubled(acc) = [sr |-> acc.sr \o more, steps |-> Evaluated(twice)]
    BY DEF Doubled
  <2> HIDE DEF more, twice
  <2> QED BY <1>6, <2>1
<1>8. \A j \in 1 .. m : more[j] = acc.steps[acc.sr[j]]
  BY <1>2
<1>9. \A x \in Nonzero : twice[x] = acc.steps[acc.steps[x]]
  BY DEF Nonzero
<1> HIDE DEF more, twice, m
<1>10. /\ acc.sr \o more \in Seq(Nonzero) /\ Len(acc.sr \o more) = m + m
       /\ \A j \in 1 .. m : (acc.sr \o more)[j] = acc.sr[j]
       /\ \A j \in 1 .. m : (acc.sr \o more)[m + j] = more[j]
  <2> DEFINE a == acc.sr
  <2>1. a \in Seq(Nonzero) /\ Len(a) = m
    BY <1>1 DEF m
  <2> HIDE DEF a
  <2>2. a \o more \in Seq(Nonzero) /\ Len(a \o more) = Len(a) + Len(more)
    BY <1>4, <2>1, ConcatProperties
  <2>3. \A j \in 1 .. m + m : (a \o more)[j] = IF j <= m THEN a[j] ELSE more[j - m]
    BY <1>4, <2>1, ConcatProperties
  <2>4. ASSUME NEW j \in 1 .. m PROVE (a \o more)[j] = a[j] /\ (a \o more)[m + j] = more[j]
    <3>1. j \in 1 .. m + m /\ j <= m /\ m + j \in 1 .. m + m /\ ~(m + j <= m) /\ (m + j) - m = j
      BY <1>1, SMT
    <3> QED BY <2>3, <3>1
  <2> QED BY <1>4, <2>1, <2>2, <2>4 DEF a
<1>11. m + m = 2 * m
  BY <1>1, SMT
<1> QED BY <1>5, <1>7, <1>8, <1>9, <1>10, <1>11 DEF Tables, m

\* It makes a beginning of twice the length.
LEMMA BeginningDoubled ==
  ASSUME NEW acc \in Tables, NEW m \in Nat, m > 0, Beginning(acc, m)
  PROVE  Beginning(Doubled(acc), 2 * m)
<1> DEFINE a == acc.sr
           d == acc.steps
           c == Doubled(acc).sr
           e == Doubled(acc).steps
<1>1. /\ c \in Seq(Nonzero) /\ Len(c) = 2 * m /\ e \in [Nonzero -> Nonzero]
      /\ \A j \in 1 .. m : c[j] = a[j] /\ c[m + j] = d[a[j]]
      /\ \A x \in Nonzero : e[x] = d[d[x]]
  BY DoubledIs DEF Beginning, Tables
<1>2. /\ a[1] = 1 /\ \A j \in 1 .. m - 1 : a[j + 1] = Shifted[a[j]]
      /\ d \in [Nonzero -> Nonzero] /\ \A x \in Nonzero : d[Shifted[x]] = Shifted[d[x]]
      /\ d[1] = Shifted[a[m]] /\ \A j \in 1 .. m : a[j] \in Nonzero
  BY DEF Beginning
<1> HIDE DEF a, c, d, e
<1>3. c[1] = 1
  <2>1. 1 \in 1 .. m
    BY SMT
  <2> QED BY <1>1, <1>2, <2>1
<1>4. ASSUME NEW j \in 1 .. 2 * m - 1 PROVE c[j + 1] = Shifted[c[j]]
  <2>1. CASE j < m
    <3>1. j \in 1 .. m /\ j \in 1 .. m - 1 /\ j + 1 \in 1 .. m
      BY <2>1, SMT
    <3> QED BY <1>1, <1>2, <3>1
  <2>2. CASE j = m
    <3>1. j \in 1 .. m /\ 1 \in 1 .. m /\ j + 1 = m + 1
      BY <2>2, SMT
    <3>2. c[j + 1] = d[a[1]]
      BY <1>1, <3>1
    <3> QED BY <1>1, <1>2, <2>2, <3>1, <3>2
  <2>3. CASE j > m
    <3> DEFINE i == j - m
    <3>1. i \in 1 .. m /\ i \in 1 .. m - 1 /\ i + 1 \in 1 .. m /\ j = m + i /\ j + 1 = m + (i + 1)
      BY <2>3, SMT
    <3> HIDE DEF i
    <3>2. c[j] = d[a[i]] /\ c[j + 1] = d[a[i + 1]] /\ a[i + 1] = Shifted[a[i]] /\ a[i] \in Nonzero
      BY <1>1, <1>2, <3>1
    <3> QED BY <1>2, <3>2
  <2> QED BY <2>1, <2>2, <2>3, SMT
<1>5. ASSUME NEW x \in Nonzero PROVE e[Shifted[x]] = Shifted[e[x]]
  <2>1. Shifted[x] \in Nonzero /\ d[x] \in Nonzero
    BY <1>2, ShiftedTyped
  <2>2. e[Shifted[x]] = d[d[Shifted[x]]] /\ d[Shifted[x]] = Shifted[d[x]] /\ d[Shifted[d[x]]] = Shifted[d[d[x]]]
    BY <1>1, <1>2, <2>1
  <2> QED BY <1>1, <2>2
<1>6. e[1] = Shifted[c[2 * m]]
  <2>1. 1 \in Nonzero /\ m \in 1 .. m /\ m + m = 2 * m
    BY SMT DEF Nonzero, NN
  <2>2. c[2 * m] = d[a[m]] /\ a[m] \in Nonzero /\ e[1] = d[d[1]]
    BY <1>1, <1>2, <2>1
  <2> QED BY <1>2, <2>2
<1> QED BY <1>1, <1>3, <1>4, <1>5, <1>6 DEF Beginning, c, e

\* ALPHA_TO has the first 255 of 256 of them.
LEMMA AlphaTable ==
  \E t : /\ t \in [1 .. 256 -> Nonzero] /\ t[1] = 1
         /\ \A j \in 1 .. 255 : t[j + 1] = Shifted[t[j]]
         /\ ALPHA_TO \in [Nonzero -> Nonzero] /\ \A j \in Nonzero : ALPHA_TO[j] = t[j]
<1> DEFINE w == [k \in 1 .. 8 |-> 2^(k - 1)]
           base == [sr |-> <<1>>, steps |-> Shifted]
           Eq(f) == f = [n \in 0 .. Len(w) |-> IF n = 0 THEN base ELSE Doubled(f[n - 1])]
           run == CHOOSE f : Eq(f)
           step == [z \in Tables \X (1 .. 8) |-> Doubled(z[1])]
<1>1. Len(w) = 8
  OBVIOUS
<1>2. base \in Tables /\ Beginning(base, 1)
  <2>1. 1 \in Nonzero
    BY SMT DEF Nonzero, NN
  <2>2. <<1>> \in Seq(Nonzero) /\ Len(<<1>>) = 1 /\ <<1>>[1] = 1
    BY <2>1
  <2>3. 1 .. 1 - 1 = {}
    BY SMT
  <2> QED BY <2>1, <2>2, <2>3, ShiftedTyped DEF Tables, Beginning
<1> HIDE DEF base, w
<1>3. PICK g \in [0 .. 8 -> Tables] : Recurs(g, 8, base, step)
  <2>1. step \in [Tables \X (1 .. 8) -> Tables]
    BY DoubledIs
  <2>2. 8 \in Nat
    BY SMT
  <2> HIDE DEF step
  <2> QED BY <1>2, <2>1, <2>2, Recursion
<1>4. Eq(g)
  <2>1. ASSUME NEW n \in 0 .. 8 PROVE g[n] = IF n = 0 THEN base ELSE Doubled(g[n - 1])
    <3>1. CASE n = 0
      BY <1>3, <3>1 DEF Recurs
    <3>2. CASE n # 0
      <4>1. n \in 1 .. 8 /\ n - 1 \in 0 .. 8
        BY <3>2, SMT
      <4>2. g[n - 1] \in Tables /\ g[n] = step[<<g[n - 1], n>>]
        BY <1>3, <4>1 DEF Recurs
      <4> QED BY <3>2, <4>1, <4>2
    <3> QED BY <3>1, <3>2
  <2> QED BY <1>1, <1>3, <2>1
<1> HIDE DEF Eq
<1>5. Eq(run)
  BY <1>4
<1>6. ALPHA_TO = SubSeq(run[8].sr, 1, NN)
  BY <1>1, Zenon DEF ALPHA_TO, Fold, Eq, Doubled, base, w
<1> HIDE DEF run
<1>7. run[0] = base /\ \A n \in 1 .. 8 : run[n] = Doubled(run[n - 1])
  <2>1. \A n \in 0 .. 8 : run[n] = IF n = 0 THEN base ELSE Doubled(run[n - 1])
    BY <1>1, <1>5 DEF Eq
  <2>2. 0 \in 0 .. 8 /\ \A n \in 1 .. 8 : n \in 0 .. 8 /\ n # 0
    BY SMT
  <2> QED BY <2>1, <2>2
<1>8. ASSUME NEW n \in 1 .. 8, NEW m \in Nat, m > 0, run[n - 1] \in Tables, Beginning(run[n - 1], m)
      PROVE  run[n] \in Tables /\ Beginning(run[n], 2 * m)
  BY <1>7, <1>8, BeginningDoubled, DoubledIs
<1>9. run[8] \in Tables /\ Beginning(run[8], 256)
  <2>1. run[1 - 1] \in Tables /\ Beginning(run[1 - 1], 1)
    BY <1>2, <1>7, SMT
  <2>2. run[2 - 1] \in Tables /\ Beginning(run[2 - 1], 2)
    BY <1>8, <2>1, SMT
  <2>3. run[3 - 1] \in Tables /\ Beginning(run[3 - 1], 4)
    BY <1>8, <2>2, SMT
  <2>4. run[4 - 1] \in Tables /\ Beginning(run[4 - 1], 8)
    BY <1>8, <2>3, SMT
  <2>5. run[5 - 1] \in Tables /\ Beginning(run[5 - 1], 16)
    BY <1>8, <2>4, SMT
  <2>6. run[6 - 1] \in Tables /\ Beginning(run[6 - 1], 32)
    BY <1>8, <2>5, SMT
  <2>7. run[7 - 1] \in Tables /\ Beginning(run[7 - 1], 64)
    BY <1>8, <2>6, SMT
  <2>8. run[8 - 1] \in Tables /\ Beginning(run[8 - 1], 128)
    BY <1>8, <2>7, SMT
  <2> QED BY <1>8, <2>8, SMT
<1> DEFINE t == run[8].sr
<1>10. t \in Seq(Nonzero) /\ Len(t) = 256 /\ t[1] = 1 /\ \A j \in 1 .. 256 - 1 : t[j + 1] = Shifted[t[j]]
  BY <1>9, Zenon DEF Beginning
<1> HIDE DEF t
<1>11. t \in [1 .. 256 -> Nonzero]
  <2>1. DOMAIN t = 1 .. 256
    BY <1>10, LenProperties
  <2>2. t \in [1 .. Len(t) -> Nonzero]
    BY <1>10, LenProperties
  <2> QED BY <1>10, <2>2
<1>12. 256 - 1 = 255
  BY SMT
<1>13. SubSeq(t, 1, 255) = [i \in 1 .. 255 |-> t[i]]
  BY SMT DEF SubSeq
<1>14. NN = 255 /\ \A j \in 1 .. 255 : j \in 1 .. 256
  BY SMT DEF NN
<1>15. ALPHA_TO = SubSeq(t, 1, 255)
  BY <1>6, <1>14 DEF t
<1>16. ALPHA_TO \in [Nonzero -> Nonzero] /\ \A j \in Nonzero : ALPHA_TO[j] = t[j]
  <2>1. Nonzero = 1 .. 255
    BY <1>14 DEF Nonzero
  <2>2. \A j \in 1 .. 255 : t[j] \in Nonzero
    BY <1>11, <1>14
  <2>3. ALPHA_TO = [i \in 1 .. 255 |-> t[i]]
    BY <1>13, <1>15
  <2>4. [i \in 1 .. 255 |-> t[i]] \in [1 .. 255 -> Nonzero] 
    BY <2>2
  <2>5. \A j \in 1 .. 255 : [i \in 1 .. 255 |-> t[i]][j] = t[j]
    OBVIOUS
  <2> QED BY <2>1, <2>3, <2>4, <2>5, Zenon
<1>17. \A j \in 1 .. 255 : t[j + 1] = Shifted[t[j]]
  BY <1>10, <1>12
<1>18. t[1] = 1
  BY <1>10
<1> QED BY <1>11, <1>16, <1>17, <1>18, Zenon

\* The next power of alpha, as a number.
NextPower(c) == IF c < 128 THEN 2 * c ELSE 2 * c - 227 - 8 * ((c \div 2) % 8)

\* Shifted as a product and as arithmetic.
LEMMA ShiftedIs == \A x \in Nonzero : x \in Byte /\ x # 0 /\ Shifted[x] = TimesAlpha(x) /\ Shifted[x] = NextPower(x)
<1> SUFFICES ASSUME NEW x \in Nonzero
             PROVE  x \in Byte /\ x # 0 /\ Shifted[x] = TimesAlpha(x) /\ Shifted[x] = NextPower(x)
  OBVIOUS
<1>1. x \in Byte /\ x > 0 /\ x # 0
  BY SMT DEF Nonzero, NN, Byte
<1> QED BY <1>1, TimesAlphaBits DEF NextPower

\* The powers of alpha, sixteen at a time: the 256th is 1, and none before but the first.
LEMMA PowersOfAlpha ==
  ASSUME NEW t \in [1 .. 256 -> Nonzero], t[1] = 1, \A j \in 1 .. 255 : t[j + 1] = Shifted[t[j]]
  PROVE  t[256] = 1 /\ \A j \in 2 .. 255 : t[j] # 1
<1>1. \A j \in 1 .. 255 : t[j + 1] = NextPower(t[j])
  <2>1. \A j \in 1 .. 255 : t[j] \in Nonzero
    BY SMT
  <2> QED BY <2>1, ShiftedIs
<1>2. /\ t[2] = 2 /\ t[3] = 4 /\ t[4] = 8 /\ t[5] = 16 /\ t[6] = 32 /\ t[7] = 64
      /\ t[8] = 128 /\ t[9] = 29 /\ t[10] = 58 /\ t[11] = 116 /\ t[12] = 232 /\ t[13] = 205
      /\ t[14] = 135 /\ t[15] = 19 /\ t[16] = 38 /\ t[17] = 76
  <2>1. /\ t[2] = NextPower(t[1]) /\ t[3] = NextPower(t[2]) /\ t[4] = NextPower(t[3])
        /\ t[5] = NextPower(t[4]) /\ t[6] = NextPower(t[5]) /\ t[7] = NextPower(t[6])
        /\ t[8] = NextPower(t[7]) /\ t[9] = NextPower(t[8]) /\ t[10] = NextPower(t[9])
        /\ t[11] = NextPower(t[10]) /\ t[12] = NextPower(t[11]) /\ t[13] = NextPower(t[12])
        /\ t[14] = NextPower(t[13]) /\ t[15] = NextPower(t[14]) /\ t[16] = NextPower(t[15])
        /\ t[17] = NextPower(t[16])
    BY <1>1, SMT
  <2>2. /\ NextPower(1) = 2 /\ NextPower(2) = 4 /\ NextPower(4) = 8
        /\ NextPower(8) = 16 /\ NextPower(16) = 32 /\ NextPower(32) = 64
        /\ NextPower(64) = 128 /\ NextPower(128) = 29 /\ NextPower(29) = 58
        /\ NextPower(58) = 116 /\ NextPower(116) = 232 /\ NextPower(232) = 205
        /\ NextPower(205) = 135 /\ NextPower(135) = 19 /\ NextPower(19) = 38
        /\ NextPower(38) = 76
    BY SMT DEF NextPower
  <2> QED BY <2>1, <2>2
<1>3. /\ t[18] = 152 /\ t[19] = 45 /\ t[20] = 90 /\ t[21] = 180 /\ t[22] = 117 /\ t[23] = 234
      /\ t[24] = 201 /\ t[25] = 143 /\ t[26] = 3 /\ t[27] = 6 /\ t[28] = 12 /\ t[29] = 24
      /\ t[30] = 48 /\ t[31] = 96 /\ t[32] = 192 /\ t[33] = 157
  <2>1. /\ t[18] = NextPower(t[17]) /\ t[19] = NextPower(t[18]) /\ t[20] = NextPower(t[19])
        /\ t[21] = NextPower(t[20]) /\ t[22] = NextPower(t[21]) /\ t[23] = NextPower(t[22])
        /\ t[24] = NextPower(t[23]) /\ t[25] = NextPower(t[24]) /\ t[26] = NextPower(t[25])
        /\ t[27] = NextPower(t[26]) /\ t[28] = NextPower(t[27]) /\ t[29] = NextPower(t[28])
        /\ t[30] = NextPower(t[29]) /\ t[31] = NextPower(t[30]) /\ t[32] = NextPower(t[31])
        /\ t[33] = NextPower(t[32])
    BY <1>1, SMT
  <2>2. /\ NextPower(76) = 152 /\ NextPower(152) = 45 /\ NextPower(45) = 90
        /\ NextPower(90) = 180 /\ NextPower(180) = 117 /\ NextPower(117) = 234
        /\ NextPower(234) = 201 /\ NextPower(201) = 143 /\ NextPower(143) = 3
        /\ NextPower(3) = 6 /\ NextPower(6) = 12 /\ NextPower(12) = 24
        /\ NextPower(24) = 48 /\ NextPower(48) = 96 /\ NextPower(96) = 192
        /\ NextPower(192) = 157
    BY SMT DEF NextPower
  <2> QED BY <2>1, <2>2, <1>2
<1>4. /\ t[34] = 39 /\ t[35] = 78 /\ t[36] = 156 /\ t[37] = 37 /\ t[38] = 74 /\ t[39] = 148
      /\ t[40] = 53 /\ t[41] = 106 /\ t[42] = 212 /\ t[43] = 181 /\ t[44] = 119 /\ t[45] = 238
      /\ t[46] = 193 /\ t[47] = 159 /\ t[48] = 35 /\ t[49] = 70
  <2>1. /\ t[34] = NextPower(t[33]) /\ t[35] = NextPower(t[34]) /\ t[36] = NextPower(t[35])
        /\ t[37] = NextPower(t[36]) /\ t[38] = NextPower(t[37]) /\ t[39] = NextPower(t[38])
        /\ t[40] = NextPower(t[39]) /\ t[41] = NextPower(t[40]) /\ t[42] = NextPower(t[41])
        /\ t[43] = NextPower(t[42]) /\ t[44] = NextPower(t[43]) /\ t[45] = NextPower(t[44])
        /\ t[46] = NextPower(t[45]) /\ t[47] = NextPower(t[46]) /\ t[48] = NextPower(t[47])
        /\ t[49] = NextPower(t[48])
    BY <1>1, SMT
  <2>2. /\ NextPower(157) = 39 /\ NextPower(39) = 78 /\ NextPower(78) = 156
        /\ NextPower(156) = 37 /\ NextPower(37) = 74 /\ NextPower(74) = 148
        /\ NextPower(148) = 53 /\ NextPower(53) = 106 /\ NextPower(106) = 212
        /\ NextPower(212) = 181 /\ NextPower(181) = 119 /\ NextPower(119) = 238
        /\ NextPower(238) = 193 /\ NextPower(193) = 159 /\ NextPower(159) = 35
        /\ NextPower(35) = 70
    BY SMT DEF NextPower
  <2> QED BY <2>1, <2>2, <1>3
<1>5. /\ t[50] = 140 /\ t[51] = 5 /\ t[52] = 10 /\ t[53] = 20 /\ t[54] = 40 /\ t[55] = 80
      /\ t[56] = 160 /\ t[57] = 93 /\ t[58] = 186 /\ t[59] = 105 /\ t[60] = 210 /\ t[61] = 185
      /\ t[62] = 111 /\ t[63] = 222 /\ t[64] = 161 /\ t[65] = 95
  <2>1. /\ t[50] = NextPower(t[49]) /\ t[51] = NextPower(t[50]) /\ t[52] = NextPower(t[51])
        /\ t[53] = NextPower(t[52]) /\ t[54] = NextPower(t[53]) /\ t[55] = NextPower(t[54])
        /\ t[56] = NextPower(t[55]) /\ t[57] = NextPower(t[56]) /\ t[58] = NextPower(t[57])
        /\ t[59] = NextPower(t[58]) /\ t[60] = NextPower(t[59]) /\ t[61] = NextPower(t[60])
        /\ t[62] = NextPower(t[61]) /\ t[63] = NextPower(t[62]) /\ t[64] = NextPower(t[63])
        /\ t[65] = NextPower(t[64])
    BY <1>1, SMT
  <2>2. /\ NextPower(70) = 140 /\ NextPower(140) = 5 /\ NextPower(5) = 10
        /\ NextPower(10) = 20 /\ NextPower(20) = 40 /\ NextPower(40) = 80
        /\ NextPower(80) = 160 /\ NextPower(160) = 93 /\ NextPower(93) = 186
        /\ NextPower(186) = 105 /\ NextPower(105) = 210 /\ NextPower(210) = 185
        /\ NextPower(185) = 111 /\ NextPower(111) = 222 /\ NextPower(222) = 161
        /\ NextPower(161) = 95
    BY SMT DEF NextPower
  <2> QED BY <2>1, <2>2, <1>4
<1>6. /\ t[66] = 190 /\ t[67] = 97 /\ t[68] = 194 /\ t[69] = 153 /\ t[70] = 47 /\ t[71] = 94
      /\ t[72] = 188 /\ t[73] = 101 /\ t[74] = 202 /\ t[75] = 137 /\ t[76] = 15 /\ t[77] = 30
      /\ t[78] = 60 /\ t[79] = 120 /\ t[80] = 240 /\ t[81] = 253
  <2>1. /\ t[66] = NextPower(t[65]) /\ t[67] = NextPower(t[66]) /\ t[68] = NextPower(t[67])
        /\ t[69] = NextPower(t[68]) /\ t[70] = NextPower(t[69]) /\ t[71] = NextPower(t[70])
        /\ t[72] = NextPower(t[71]) /\ t[73] = NextPower(t[72]) /\ t[74] = NextPower(t[73])
        /\ t[75] = NextPower(t[74]) /\ t[76] = NextPower(t[75]) /\ t[77] = NextPower(t[76])
        /\ t[78] = NextPower(t[77]) /\ t[79] = NextPower(t[78]) /\ t[80] = NextPower(t[79])
        /\ t[81] = NextPower(t[80])
    BY <1>1, SMT
  <2>2. /\ NextPower(95) = 190 /\ NextPower(190) = 97 /\ NextPower(97) = 194
        /\ NextPower(194) = 153 /\ NextPower(153) = 47 /\ NextPower(47) = 94
        /\ NextPower(94) = 188 /\ NextPower(188) = 101 /\ NextPower(101) = 202
        /\ NextPower(202) = 137 /\ NextPower(137) = 15 /\ NextPower(15) = 30
        /\ NextPower(30) = 60 /\ NextPower(60) = 120 /\ NextPower(120) = 240
        /\ NextPower(240) = 253
    BY SMT DEF NextPower
  <2> QED BY <2>1, <2>2, <1>5
<1>7. /\ t[82] = 231 /\ t[83] = 211 /\ t[84] = 187 /\ t[85] = 107 /\ t[86] = 214 /\ t[87] = 177
      /\ t[88] = 127 /\ t[89] = 254 /\ t[90] = 225 /\ t[91] = 223 /\ t[92] = 163 /\ t[93] = 91
      /\ t[94] = 182 /\ t[95] = 113 /\ t[96] = 226 /\ t[97] = 217
  <2>1. /\ t[82] = NextPower(t[81]) /\ t[83] = NextPower(t[82]) /\ t[84] = NextPower(t[83])
        /\ t[85] = NextPower(t[84]) /\ t[86] = NextPower(t[85]) /\ t[87] = NextPower(t[86])
        /\ t[88] = NextPower(t[87]) /\ t[89] = NextPower(t[88]) /\ t[90] = NextPower(t[89])
        /\ t[91] = NextPower(t[90]) /\ t[92] = NextPower(t[91]) /\ t[93] = NextPower(t[92])
        /\ t[94] = NextPower(t[93]) /\ t[95] = NextPower(t[94]) /\ t[96] = NextPower(t[95])
        /\ t[97] = NextPower(t[96])
    BY <1>1, SMT
  <2>2. /\ NextPower(253) = 231 /\ NextPower(231) = 211 /\ NextPower(211) = 187
        /\ NextPower(187) = 107 /\ NextPower(107) = 214 /\ NextPower(214) = 177
        /\ NextPower(177) = 127 /\ NextPower(127) = 254 /\ NextPower(254) = 225
        /\ NextPower(225) = 223 /\ NextPower(223) = 163 /\ NextPower(163) = 91
        /\ NextPower(91) = 182 /\ NextPower(182) = 113 /\ NextPower(113) = 226
        /\ NextPower(226) = 217
    BY SMT DEF NextPower
  <2> QED BY <2>1, <2>2, <1>6
<1>8. /\ t[98] = 175 /\ t[99] = 67 /\ t[100] = 134 /\ t[101] = 17 /\ t[102] = 34 /\ t[103] = 68
      /\ t[104] = 136 /\ t[105] = 13 /\ t[106] = 26 /\ t[107] = 52 /\ t[108] = 104 /\ t[109] = 208
      /\ t[110] = 189 /\ t[111] = 103 /\ t[112] = 206 /\ t[113] = 129
  <2>1. /\ t[98] = NextPower(t[97]) /\ t[99] = NextPower(t[98]) /\ t[100] = NextPower(t[99])
        /\ t[101] = NextPower(t[100]) /\ t[102] = NextPower(t[101]) /\ t[103] = NextPower(t[102])
        /\ t[104] = NextPower(t[103]) /\ t[105] = NextPower(t[104]) /\ t[106] = NextPower(t[105])
        /\ t[107] = NextPower(t[106]) /\ t[108] = NextPower(t[107]) /\ t[109] = NextPower(t[108])
        /\ t[110] = NextPower(t[109]) /\ t[111] = NextPower(t[110]) /\ t[112] = NextPower(t[111])
        /\ t[113] = NextPower(t[112])
    BY <1>1, SMT
  <2>2. /\ NextPower(217) = 175 /\ NextPower(175) = 67 /\ NextPower(67) = 134
        /\ NextPower(134) = 17 /\ NextPower(17) = 34 /\ NextPower(34) = 68
        /\ NextPower(68) = 136 /\ NextPower(136) = 13 /\ NextPower(13) = 26
        /\ NextPower(26) = 52 /\ NextPower(52) = 104 /\ NextPower(104) = 208
        /\ NextPower(208) = 189 /\ NextPower(189) = 103 /\ NextPower(103) = 206
        /\ NextPower(206) = 129
    BY SMT DEF NextPower
  <2> QED BY <2>1, <2>2, <1>7
<1>9. /\ t[114] = 31 /\ t[115] = 62 /\ t[116] = 124 /\ t[117] = 248 /\ t[118] = 237 /\ t[119] = 199
      /\ t[120] = 147 /\ t[121] = 59 /\ t[122] = 118 /\ t[123] = 236 /\ t[124] = 197 /\ t[125] = 151
      /\ t[126] = 51 /\ t[127] = 102 /\ t[128] = 204 /\ t[129] = 133
  <2>1. /\ t[114] = NextPower(t[113]) /\ t[115] = NextPower(t[114]) /\ t[116] = NextPower(t[115])
        /\ t[117] = NextPower(t[116]) /\ t[118] = NextPower(t[117]) /\ t[119] = NextPower(t[118])
        /\ t[120] = NextPower(t[119]) /\ t[121] = NextPower(t[120]) /\ t[122] = NextPower(t[121])
        /\ t[123] = NextPower(t[122]) /\ t[124] = NextPower(t[123]) /\ t[125] = NextPower(t[124])
        /\ t[126] = NextPower(t[125]) /\ t[127] = NextPower(t[126]) /\ t[128] = NextPower(t[127])
        /\ t[129] = NextPower(t[128])
    BY <1>1, SMT
  <2>2. /\ NextPower(129) = 31 /\ NextPower(31) = 62 /\ NextPower(62) = 124
        /\ NextPower(124) = 248 /\ NextPower(248) = 237 /\ NextPower(237) = 199
        /\ NextPower(199) = 147 /\ NextPower(147) = 59 /\ NextPower(59) = 118
        /\ NextPower(118) = 236 /\ NextPower(236) = 197 /\ NextPower(197) = 151
        /\ NextPower(151) = 51 /\ NextPower(51) = 102 /\ NextPower(102) = 204
        /\ NextPower(204) = 133
    BY SMT DEF NextPower
  <2> QED BY <2>1, <2>2, <1>8
<1>10. /\ t[130] = 23 /\ t[131] = 46 /\ t[132] = 92 /\ t[133] = 184 /\ t[134] = 109 /\ t[135] = 218
      /\ t[136] = 169 /\ t[137] = 79 /\ t[138] = 158 /\ t[139] = 33 /\ t[140] = 66 /\ t[141] = 132
      /\ t[142] = 21 /\ t[143] = 42 /\ t[144] = 84 /\ t[145] = 168
  <2>1. /\ t[130] = NextPower(t[129]) /\ t[131] = NextPower(t[130]) /\ t[132] = NextPower(t[131])
        /\ t[133] = NextPower(t[132]) /\ t[134] = NextPower(t[133]) /\ t[135] = NextPower(t[134])
        /\ t[136] = NextPower(t[135]) /\ t[137] = NextPower(t[136]) /\ t[138] = NextPower(t[137])
        /\ t[139] = NextPower(t[138]) /\ t[140] = NextPower(t[139]) /\ t[141] = NextPower(t[140])
        /\ t[142] = NextPower(t[141]) /\ t[143] = NextPower(t[142]) /\ t[144] = NextPower(t[143])
        /\ t[145] = NextPower(t[144])
    BY <1>1, SMT
  <2>2. /\ NextPower(133) = 23 /\ NextPower(23) = 46 /\ NextPower(46) = 92
        /\ NextPower(92) = 184 /\ NextPower(184) = 109 /\ NextPower(109) = 218
        /\ NextPower(218) = 169 /\ NextPower(169) = 79 /\ NextPower(79) = 158
        /\ NextPower(158) = 33 /\ NextPower(33) = 66 /\ NextPower(66) = 132
        /\ NextPower(132) = 21 /\ NextPower(21) = 42 /\ NextPower(42) = 84
        /\ NextPower(84) = 168
    BY SMT DEF NextPower
  <2> QED BY <2>1, <2>2, <1>9
<1>11. /\ t[146] = 77 /\ t[147] = 154 /\ t[148] = 41 /\ t[149] = 82 /\ t[150] = 164 /\ t[151] = 85
      /\ t[152] = 170 /\ t[153] = 73 /\ t[154] = 146 /\ t[155] = 57 /\ t[156] = 114 /\ t[157] = 228
      /\ t[158] = 213 /\ t[159] = 183 /\ t[160] = 115 /\ t[161] = 230
  <2>1. /\ t[146] = NextPower(t[145]) /\ t[147] = NextPower(t[146]) /\ t[148] = NextPower(t[147])
        /\ t[149] = NextPower(t[148]) /\ t[150] = NextPower(t[149]) /\ t[151] = NextPower(t[150])
        /\ t[152] = NextPower(t[151]) /\ t[153] = NextPower(t[152]) /\ t[154] = NextPower(t[153])
        /\ t[155] = NextPower(t[154]) /\ t[156] = NextPower(t[155]) /\ t[157] = NextPower(t[156])
        /\ t[158] = NextPower(t[157]) /\ t[159] = NextPower(t[158]) /\ t[160] = NextPower(t[159])
        /\ t[161] = NextPower(t[160])
    BY <1>1, SMT
  <2>2. /\ NextPower(168) = 77 /\ NextPower(77) = 154 /\ NextPower(154) = 41
        /\ NextPower(41) = 82 /\ NextPower(82) = 164 /\ NextPower(164) = 85
        /\ NextPower(85) = 170 /\ NextPower(170) = 73 /\ NextPower(73) = 146
        /\ NextPower(146) = 57 /\ NextPower(57) = 114 /\ NextPower(114) = 228
        /\ NextPower(228) = 213 /\ NextPower(213) = 183 /\ NextPower(183) = 115
        /\ NextPower(115) = 230
    BY SMT DEF NextPower
  <2> QED BY <2>1, <2>2, <1>10
<1>12. /\ t[162] = 209 /\ t[163] = 191 /\ t[164] = 99 /\ t[165] = 198 /\ t[166] = 145 /\ t[167] = 63
      /\ t[168] = 126 /\ t[169] = 252 /\ t[170] = 229 /\ t[171] = 215 /\ t[172] = 179 /\ t[173] = 123
      /\ t[174] = 246 /\ t[175] = 241 /\ t[176] = 255 /\ t[177] = 227
  <2>1. /\ t[162] = NextPower(t[161]) /\ t[163] = NextPower(t[162]) /\ t[164] = NextPower(t[163])
        /\ t[165] = NextPower(t[164]) /\ t[166] = NextPower(t[165]) /\ t[167] = NextPower(t[166])
        /\ t[168] = NextPower(t[167]) /\ t[169] = NextPower(t[168]) /\ t[170] = NextPower(t[169])
        /\ t[171] = NextPower(t[170]) /\ t[172] = NextPower(t[171]) /\ t[173] = NextPower(t[172])
        /\ t[174] = NextPower(t[173]) /\ t[175] = NextPower(t[174]) /\ t[176] = NextPower(t[175])
        /\ t[177] = NextPower(t[176])
    BY <1>1, SMT
  <2>2. /\ NextPower(230) = 209 /\ NextPower(209) = 191 /\ NextPower(191) = 99
        /\ NextPower(99) = 198 /\ NextPower(198) = 145 /\ NextPower(145) = 63
        /\ NextPower(63) = 126 /\ NextPower(126) = 252 /\ NextPower(252) = 229
        /\ NextPower(229) = 215 /\ NextPower(215) = 179 /\ NextPower(179) = 123
        /\ NextPower(123) = 246 /\ NextPower(246) = 241 /\ NextPower(241) = 255
        /\ NextPower(255) = 227
    BY SMT DEF NextPower
  <2> QED BY <2>1, <2>2, <1>11
<1>13. /\ t[178] = 219 /\ t[179] = 171 /\ t[180] = 75 /\ t[181] = 150 /\ t[182] = 49 /\ t[183] = 98
      /\ t[184] = 196 /\ t[185] = 149 /\ t[186] = 55 /\ t[187] = 110 /\ t[188] = 220 /\ t[189] = 165
      /\ t[190] = 87 /\ t[191] = 174 /\ t[192] = 65 /\ t[193] = 130
  <2>1. /\ t[178] = NextPower(t[177]) /\ t[179] = NextPower(t[178]) /\ t[180] = NextPower(t[179])
        /\ t[181] = NextPower(t[180]) /\ t[182] = NextPower(t[181]) /\ t[183] = NextPower(t[182])
        /\ t[184] = NextPower(t[183]) /\ t[185] = NextPower(t[184]) /\ t[186] = NextPower(t[185])
        /\ t[187] = NextPower(t[186]) /\ t[188] = NextPower(t[187]) /\ t[189] = NextPower(t[188])
        /\ t[190] = NextPower(t[189]) /\ t[191] = NextPower(t[190]) /\ t[192] = NextPower(t[191])
        /\ t[193] = NextPower(t[192])
    BY <1>1, SMT
  <2>2. /\ NextPower(227) = 219 /\ NextPower(219) = 171 /\ NextPower(171) = 75
        /\ NextPower(75) = 150 /\ NextPower(150) = 49 /\ NextPower(49) = 98
        /\ NextPower(98) = 196 /\ NextPower(196) = 149 /\ NextPower(149) = 55
        /\ NextPower(55) = 110 /\ NextPower(110) = 220 /\ NextPower(220) = 165
        /\ NextPower(165) = 87 /\ NextPower(87) = 174 /\ NextPower(174) = 65
        /\ NextPower(65) = 130
    BY SMT DEF NextPower
  <2> QED BY <2>1, <2>2, <1>12
<1>14. /\ t[194] = 25 /\ t[195] = 50 /\ t[196] = 100 /\ t[197] = 200 /\ t[198] = 141 /\ t[199] = 7
      /\ t[200] = 14 /\ t[201] = 28 /\ t[202] = 56 /\ t[203] = 112 /\ t[204] = 224 /\ t[205] = 221
      /\ t[206] = 167 /\ t[207] = 83 /\ t[208] = 166 /\ t[209] = 81
  <2>1. /\ t[194] = NextPower(t[193]) /\ t[195] = NextPower(t[194]) /\ t[196] = NextPower(t[195])
        /\ t[197] = NextPower(t[196]) /\ t[198] = NextPower(t[197]) /\ t[199] = NextPower(t[198])
        /\ t[200] = NextPower(t[199]) /\ t[201] = NextPower(t[200]) /\ t[202] = NextPower(t[201])
        /\ t[203] = NextPower(t[202]) /\ t[204] = NextPower(t[203]) /\ t[205] = NextPower(t[204])
        /\ t[206] = NextPower(t[205]) /\ t[207] = NextPower(t[206]) /\ t[208] = NextPower(t[207])
        /\ t[209] = NextPower(t[208])
    BY <1>1, SMT
  <2>2. /\ NextPower(130) = 25 /\ NextPower(25) = 50 /\ NextPower(50) = 100
        /\ NextPower(100) = 200 /\ NextPower(200) = 141 /\ NextPower(141) = 7
        /\ NextPower(7) = 14 /\ NextPower(14) = 28 /\ NextPower(28) = 56
        /\ NextPower(56) = 112 /\ NextPower(112) = 224 /\ NextPower(224) = 221
        /\ NextPower(221) = 167 /\ NextPower(167) = 83 /\ NextPower(83) = 166
        /\ NextPower(166) = 81
    BY SMT DEF NextPower
  <2> QED BY <2>1, <2>2, <1>13
<1>15. /\ t[210] = 162 /\ t[211] = 89 /\ t[212] = 178 /\ t[213] = 121 /\ t[214] = 242 /\ t[215] = 249
      /\ t[216] = 239 /\ t[217] = 195 /\ t[218] = 155 /\ t[219] = 43 /\ t[220] = 86 /\ t[221] = 172
      /\ t[222] = 69 /\ t[223] = 138 /\ t[224] = 9 /\ t[225] = 18
  <2>1. /\ t[210] = NextPower(t[209]) /\ t[211] = NextPower(t[210]) /\ t[212] = NextPower(t[211])
        /\ t[213] = NextPower(t[212]) /\ t[214] = NextPower(t[213]) /\ t[215] = NextPower(t[214])
        /\ t[216] = NextPower(t[215]) /\ t[217] = NextPower(t[216]) /\ t[218] = NextPower(t[217])
        /\ t[219] = NextPower(t[218]) /\ t[220] = NextPower(t[219]) /\ t[221] = NextPower(t[220])
        /\ t[222] = NextPower(t[221]) /\ t[223] = NextPower(t[222]) /\ t[224] = NextPower(t[223])
        /\ t[225] = NextPower(t[224])
    BY <1>1, SMT
  <2>2. /\ NextPower(81) = 162 /\ NextPower(162) = 89 /\ NextPower(89) = 178
        /\ NextPower(178) = 121 /\ NextPower(121) = 242 /\ NextPower(242) = 249
        /\ NextPower(249) = 239 /\ NextPower(239) = 195 /\ NextPower(195) = 155
        /\ NextPower(155) = 43 /\ NextPower(43) = 86 /\ NextPower(86) = 172
        /\ NextPower(172) = 69 /\ NextPower(69) = 138 /\ NextPower(138) = 9
        /\ NextPower(9) = 18
    BY SMT DEF NextPower
  <2> QED BY <2>1, <2>2, <1>14
<1>16. /\ t[226] = 36 /\ t[227] = 72 /\ t[228] = 144 /\ t[229] = 61 /\ t[230] = 122 /\ t[231] = 244
      /\ t[232] = 245 /\ t[233] = 247 /\ t[234] = 243 /\ t[235] = 251 /\ t[236] = 235 /\ t[237] = 203
      /\ t[238] = 139 /\ t[239] = 11 /\ t[240] = 22 /\ t[241] = 44
  <2>1. /\ t[226] = NextPower(t[225]) /\ t[227] = NextPower(t[226]) /\ t[228] = NextPower(t[227])
        /\ t[229] = NextPower(t[228]) /\ t[230] = NextPower(t[229]) /\ t[231] = NextPower(t[230])
        /\ t[232] = NextPower(t[231]) /\ t[233] = NextPower(t[232]) /\ t[234] = NextPower(t[233])
        /\ t[235] = NextPower(t[234]) /\ t[236] = NextPower(t[235]) /\ t[237] = NextPower(t[236])
        /\ t[238] = NextPower(t[237]) /\ t[239] = NextPower(t[238]) /\ t[240] = NextPower(t[239])
        /\ t[241] = NextPower(t[240])
    BY <1>1, SMT
  <2>2. /\ NextPower(18) = 36 /\ NextPower(36) = 72 /\ NextPower(72) = 144
        /\ NextPower(144) = 61 /\ NextPower(61) = 122 /\ NextPower(122) = 244
        /\ NextPower(244) = 245 /\ NextPower(245) = 247 /\ NextPower(247) = 243
        /\ NextPower(243) = 251 /\ NextPower(251) = 235 /\ NextPower(235) = 203
        /\ NextPower(203) = 139 /\ NextPower(139) = 11 /\ NextPower(11) = 22
        /\ NextPower(22) = 44
    BY SMT DEF NextPower
  <2> QED BY <2>1, <2>2, <1>15
<1>17. /\ t[242] = 88 /\ t[243] = 176 /\ t[244] = 125 /\ t[245] = 250 /\ t[246] = 233 /\ t[247] = 207
      /\ t[248] = 131 /\ t[249] = 27 /\ t[250] = 54 /\ t[251] = 108 /\ t[252] = 216 /\ t[253] = 173
      /\ t[254] = 71 /\ t[255] = 142 /\ t[256] = 1
  <2>1. /\ t[242] = NextPower(t[241]) /\ t[243] = NextPower(t[242]) /\ t[244] = NextPower(t[243])
        /\ t[245] = NextPower(t[244]) /\ t[246] = NextPower(t[245]) /\ t[247] = NextPower(t[246])
        /\ t[248] = NextPower(t[247]) /\ t[249] = NextPower(t[248]) /\ t[250] = NextPower(t[249])
        /\ t[251] = NextPower(t[250]) /\ t[252] = NextPower(t[251]) /\ t[253] = NextPower(t[252])
        /\ t[254] = NextPower(t[253]) /\ t[255] = NextPower(t[254]) /\ t[256] = NextPower(t[255])
    BY <1>1, SMT
  <2>2. /\ NextPower(44) = 88 /\ NextPower(88) = 176 /\ NextPower(176) = 125
        /\ NextPower(125) = 250 /\ NextPower(250) = 233 /\ NextPower(233) = 207
        /\ NextPower(207) = 131 /\ NextPower(131) = 27 /\ NextPower(27) = 54
        /\ NextPower(54) = 108 /\ NextPower(108) = 216 /\ NextPower(216) = 173
        /\ NextPower(173) = 71 /\ NextPower(71) = 142 /\ NextPower(142) = 1
    BY SMT DEF NextPower
  <2> QED BY <2>1, <2>2, <1>16
<1>18. t[256] = 1
  BY <1>17
<1>19. ASSUME NEW j \in 2 .. 255 PROVE t[j] # 1
  <2>1. CASE j \in 2 .. 17
    <3>1. j \in {2, 3, 4, 5, 6, 7, 8, 9, 10, 11, 12, 13, 14, 15, 16, 17}
      BY <2>1, SMT
    <3> QED BY <3>1, <1>2, SMT
  <2>2. CASE j \in 18 .. 33
    <3>1. j \in {18, 19, 20, 21, 22, 23, 24, 25, 26, 27, 28, 29, 30, 31, 32, 33}
      BY <2>2, SMT
    <3> QED BY <3>1, <1>3, SMT
  <2>3. CASE j \in 34 .. 49
    <3>1. j \in {34, 35, 36, 37, 38, 39, 40, 41, 42, 43, 44, 45, 46, 47, 48, 49}
      BY <2>3, SMT
    <3> QED BY <3>1, <1>4, SMT
  <2>4. CASE j \in 50 .. 65
    <3>1. j \in {50, 51, 52, 53, 54, 55, 56, 57, 58, 59, 60, 61, 62, 63, 64, 65}
      BY <2>4, SMT
    <3> QED BY <3>1, <1>5, SMT
  <2>5. CASE j \in 66 .. 81
    <3>1. j \in {66, 67, 68, 69, 70, 71, 72, 73, 74, 75, 76, 77, 78, 79, 80, 81}
      BY <2>5, SMT
    <3> QED BY <3>1, <1>6, SMT
  <2>6. CASE j \in 82 .. 97
    <3>1. j \in {82, 83, 84, 85, 86, 87, 88, 89, 90, 91, 92, 93, 94, 95, 96, 97}
      BY <2>6, SMT
    <3> QED BY <3>1, <1>7, SMT
  <2>7. CASE j \in 98 .. 113
    <3>1. j \in {98, 99, 100, 101, 102, 103, 104, 105, 106, 107, 108, 109, 110, 111, 112, 113}
      BY <2>7, SMT
    <3> QED BY <3>1, <1>8, SMT
  <2>8. CASE j \in 114 .. 129
    <3>1. j \in {114, 115, 116, 117, 118, 119, 120, 121, 122, 123, 124, 125, 126, 127, 128, 129}
      BY <2>8, SMT
    <3> QED BY <3>1, <1>9, SMT
  <2>9. CASE j \in 130 .. 145
    <3>1. j \in {130, 131, 132, 133, 134, 135, 136, 137, 138, 139, 140, 141, 142, 143, 144, 145}
      BY <2>9, SMT
    <3> QED BY <3>1, <1>10, SMT
  <2>10. CASE j \in 146 .. 161
    <3>1. j \in {146, 147, 148, 149, 150, 151, 152, 153, 154, 155, 156, 157, 158, 159, 160, 161}
      BY <2>10, SMT
    <3> QED BY <3>1, <1>11, SMT
  <2>11. CASE j \in 162 .. 177
    <3>1. j \in {162, 163, 164, 165, 166, 167, 168, 169, 170, 171, 172, 173, 174, 175, 176, 177}
      BY <2>11, SMT
    <3> QED BY <3>1, <1>12, SMT
  <2>12. CASE j \in 178 .. 193
    <3>1. j \in {178, 179, 180, 181, 182, 183, 184, 185, 186, 187, 188, 189, 190, 191, 192, 193}
      BY <2>12, SMT
    <3> QED BY <3>1, <1>13, SMT
  <2>13. CASE j \in 194 .. 209
    <3>1. j \in {194, 195, 196, 197, 198, 199, 200, 201, 202, 203, 204, 205, 206, 207, 208, 209}
      BY <2>13, SMT
    <3> QED BY <3>1, <1>14, SMT
  <2>14. CASE j \in 210 .. 225
    <3>1. j \in {210, 211, 212, 213, 214, 215, 216, 217, 218, 219, 220, 221, 222, 223, 224, 225}
      BY <2>14, SMT
    <3> QED BY <3>1, <1>15, SMT
  <2>15. CASE j \in 226 .. 241
    <3>1. j \in {226, 227, 228, 229, 230, 231, 232, 233, 234, 235, 236, 237, 238, 239, 240, 241}
      BY <2>15, SMT
    <3> QED BY <3>1, <1>16, SMT
  <2>16. CASE j \in 242 .. 255
    <3>1. j \in {242, 243, 244, 245, 246, 247, 248, 249, 250, 251, 252, 253, 254, 255}
      BY <2>16, SMT
    <3> QED BY <3>1, <1>17, SMT
  <2> QED BY <2>1, <2>2, <2>3, <2>4, <2>5, <2>6, <2>7, <2>8, <2>9, <2>10, <2>11, <2>12, <2>13, <2>14, <2>15, <2>16, SMT
<1> QED BY <1>18, <1>19

\* alpha to the k, for any k.
Alpha(k) == ALPHA_TO[(k % NN) + 1]

\* The powers of alpha go round, and are all the symbols but 0.
LEMMA AlphaIs ==
  /\ ALPHA_TO \in [Nonzero -> Nonzero]
  /\ Alpha(0) = 1
  /\ \A k \in Nat : /\ Alpha(k) \in Nonzero /\ Alpha(k + 1) = Shifted[Alpha(k)]
                    /\ Alpha(k % NN) = Alpha(k) /\ k % NN \in 0 .. 254 
  /\ \A i, j \in Nonzero : ALPHA_TO[i] = ALPHA_TO[j] => i = j
<1>1. PICK t : /\ t \in [1 .. 256 -> Nonzero] /\ t[1] = 1
               /\ \A j \in 1 .. 255 : t[j + 1] = Shifted[t[j]]
               /\ ALPHA_TO \in [Nonzero -> Nonzero] /\ \A j \in Nonzero : ALPHA_TO[j] = t[j]
  BY AlphaTable, Zenon
<1>2. t[256] = 1 /\ \A j \in 2 .. 255 : t[j] # 1
  BY <1>1, PowersOfAlpha, Zenon
<1>3. NN = 255 /\ Nonzero = 1 .. 255
  BY SMT DEF NN, Nonzero
<1>4. Alpha(0) = 1
  <2>1. (0 % NN) + 1 = 1 /\ 1 \in Nonzero
    BY <1>3, SMT
  <2> QED BY <1>1, <2>1 DEF Alpha
<1>5. ASSUME NEW k \in Nat
      PROVE  /\ Alpha(k) \in Nonzero /\ Alpha(k + 1) = Shifted[Alpha(k)]
             /\ Alpha(k % NN) = Alpha(k) /\ k % NN \in 0 .. 254
  <2> DEFINE i == (k % NN) + 1
             n == ((k + 1) % NN) + 1
  <2>1. i \in 1 .. 255 /\ n \in 1 .. 255 /\ (k % NN) % NN = k % NN /\ k % NN \in 0 .. 254
    BY <1>3, SMT
  <2>2. i < 255 => n = i + 1
    BY <1>3, SMT
  <2>3. i = 255 => n = 1
    BY <1>3, SMT
  <2>4. Alpha(k) = ALPHA_TO[i] /\ Alpha(k + 1) = ALPHA_TO[n] /\ Alpha(k % NN) = ALPHA_TO[i]
    BY <2>1 DEF Alpha
  <2> HIDE DEF i, n
  <2>5. Alpha(k) = t[i] /\ Alpha(k + 1) = t[n] /\ Alpha(k) \in Nonzero /\ t[i + 1] = Shifted[t[i]]
    <3>1. i \in Nonzero /\ n \in Nonzero
      BY <1>3, <2>1
    <3>2. ALPHA_TO[i] = t[i] /\ ALPHA_TO[n] = t[n] /\ ALPHA_TO[i] \in Nonzero
      BY <1>1, <3>1, Zenon
    <3>3. t[i + 1] = Shifted[t[i]]
      BY <1>1, <2>1, Zenon
    <3> QED BY <2>4, <3>2, <3>3
  <2>6. t[n] = t[i + 1]
    <3>1. CASE i < 255
      BY <2>2, <3>1
    <3>2. CASE i = 255
      <4>1. i + 1 = 256
        BY <3>2, SMT
      <4>2. t[1] = 1 /\ t[256] = 1
        BY <1>1, <1>2, Zenon
      <4>3. n = 1
        BY <2>3, <3>2
      <4> QED BY <4>1, <4>2, <4>3
    <3> QED BY <2>1, <3>1, <3>2, SMT
  <2> QED BY <2>1, <2>4, <2>5, <2>6
<1>6. ASSUME NEW i \in 1 .. 255, NEW j \in 1 .. 255, i < j, t[i] = t[j] PROVE FALSE
  <2> DEFINE T == {m \in 0 .. 256 - j : t[i + m] = t[j + m]}
  <2>1. 0 \in T
    BY <1>6, SMT
  <2>2. ASSUME NEW m \in 0 .. (256 - j) - 1, m \in T PROVE m + 1 \in T
    <3>1. i + m \in 1 .. 255 /\ j + m \in 1 .. 255 /\ m + 1 \in 0 .. 256 - j
          /\ i + (m + 1) = (i + m) + 1 /\ j + (m + 1) = (j + m) + 1
      BY <1>6, SMT
    <3>2. t[(i + m) + 1] = Shifted[t[i + m]] /\ t[(j + m) + 1] = Shifted[t[j + m]]
      BY <1>1, <3>1, Zenon
    <3> QED BY <2>2, <3>1, <3>2
  <2>3. 256 - j \in Nat
    BY SMT
  <2>4. 0 .. 256 - j \subseteq T
    <3> DEFINE N == 256 - j
    <3> HIDE DEF T
    <3>1. N \in Nat /\ \A m \in 0 .. N - 1 : m \in T => m + 1 \in T
      BY <2>2, <2>3
    <3> HIDE DEF N
    <3>2. 0 .. N \subseteq T
      BY <2>1, <3>1, UpTo
    <3> QED BY <3>2 DEF N
  <2>5. 256 - j \in T
    <3>1. 256 - j \in 0 .. 256 - j
      BY <2>3, SMT
    <3> QED BY <2>4, <3>1
  <2>6. t[i + (256 - j)] = t[j + (256 - j)]
    BY <2>5
  <2>7. j + (256 - j) = 256 /\ i + (256 - j) \in 2 .. 255
    BY <1>6, SMT
  <2> QED BY <1>2, <2>6, <2>7
<1>7. ASSUME NEW i \in Nonzero, NEW j \in Nonzero, ALPHA_TO[i] = ALPHA_TO[j] PROVE i = j
  <2>1. i \in 1 .. 255 /\ j \in 1 .. 255 /\ t[i] = t[j]
    BY <1>1, <1>3, <1>7, Zenon
  <2>2. ~(i < j) /\ ~(j < i)
    BY <1>6, <2>1, Zenon
  <2> QED BY <2>1, <2>2, SMT
<1> QED BY <1>1, <1>4, <1>5, <1>7, Zenon

\* Every symbol but 0 has a logarithm, which INDEX_OF finds.
LEMMA LogarithmIs ==
  /\ \A x \in Nonzero : INDEX_OF[x] \in 0 .. 254 /\ Alpha(INDEX_OF[x]) = x
  /\ \A k \in Nat : INDEX_OF[Alpha(k)] = k % NN
<1>1. NN = 255 /\ Nonzero = 1 .. 255 /\ NN \in Nat /\ NN - 1 = 254
  BY SMT DEF NN, Nonzero
<1>2. ALPHA_TO \in Surjection(Nonzero, Nonzero)
  <2>1. ALPHA_TO \in Injection(Nonzero, Nonzero)
    BY AlphaIs DEF Injection, IsInjective
  <2>2. IsFiniteSet(Nonzero)
    <3>1. 1 \in Int /\ 255 \in Int
      OBVIOUS
    <3>2. IsFiniteSet(1 .. 255)
      BY <3>1, FS_Interval
    <3> QED BY <1>1, <3>2
  <2> QED BY <2>1, <2>2, FS_Injection
<1>3. ASSUME NEW x \in Nonzero
      PROVE  \E i \in 0 .. 254 : ALPHA_TO[i + 1] = x
  <2>1. PICK j \in Nonzero : ALPHA_TO[j] = x
    BY <1>2 DEF Surjection
  <2>2. j - 1 \in 0 .. 254 /\ (j - 1) + 1 = j
    BY <1>1, SMT
  <2> QED BY <2>1, <2>2
<1> DEFINE log == [x \in 1 .. NN |-> CHOOSE i \in 0 .. NN - 1 : ALPHA_TO[i + 1] = x]
<1>4. \A x \in Nonzero : log[x] \in 0 .. 254 /\ ALPHA_TO[log[x] + 1] = x
  <2> SUFFICES ASSUME NEW x \in Nonzero PROVE log[x] \in 0 .. 254 /\ ALPHA_TO[log[x] + 1] = x
    OBVIOUS
  <2>1. x \in 1 .. NN /\ 0 .. NN - 1 = 0 .. 254
    BY <1>1
  <2>2. log[x] = CHOOSE i \in 0 .. NN - 1 : ALPHA_TO[i + 1] = x
    BY <2>1
  <2>3. \E i \in 0 .. NN - 1 : ALPHA_TO[i + 1] = x
    BY <1>3, <2>1
  <2> HIDE DEF log
  <2>4. log[x] \in 0 .. NN - 1 /\ ALPHA_TO[log[x] + 1] = x
    BY <2>2, <2>3
  <2> QED BY <2>1, <2>4
<1>5. log \in [1 .. NN -> 0 .. 254]
  <2>1. 1 .. NN = Nonzero /\ log = [x \in 1 .. NN |-> log[x]]
    BY <1>1
  <2> HIDE DEF log
  <2> QED BY <1>4, <2>1
<1>6. INDEX_OF = log
  <2>1. INDEX_OF = Evaluated(log)
    BY DEF INDEX_OF
  <2> HIDE DEF log
  <2>2. log \in Seq(0 .. 254)
    <3>1. NN \in Nat
      BY <1>1
    <3> QED BY <1>5, <3>1, TupleIsSeq
  <2> QED BY <2>1, <2>2, EvaluatedIs
<1> HIDE DEF log
<1>7. ASSUME NEW x \in Nonzero PROVE INDEX_OF[x] \in 0 .. 254 /\ Alpha(INDEX_OF[x]) = x
  <2>1. log[x] \in 0 .. 254 /\ ALPHA_TO[log[x] + 1] = x
    BY <1>4
  <2>2. log[x] % NN = log[x]
    BY <1>1, <2>1, SMT
  <2> QED BY <1>6, <2>1, <2>2 DEF Alpha
<1>8. ASSUME NEW k \in Nat PROVE INDEX_OF[Alpha(k)] = k % NN
  <2> DEFINE i == k % NN
             l == INDEX_OF[Alpha(k)]
  <2>1. i \in 0 .. 254 /\ Alpha(k) \in Nonzero /\ Alpha(k) = ALPHA_TO[i + 1]
    BY AlphaIs DEF Alpha
  <2>2. l \in 0 .. 254 /\ Alpha(l) = Alpha(k)
    BY <1>7, <2>1
  <2> HIDE DEF i, l
  <2>3. l % NN = l /\ l + 1 \in Nonzero /\ i + 1 \in Nonzero
    BY <1>1, <2>1, <2>2, SMT
  <2>4. ALPHA_TO[l + 1] = ALPHA_TO[i + 1]
    BY <2>1, <2>2, <2>3 DEF Alpha
  <2>5. l + 1 = i + 1
    BY <2>3, <2>4, AlphaIs
  <2>6. l = i
    BY <2>1, <2>2, <2>5, SMT
  <2> QED BY <2>6 DEF i, l
<1> QED BY <1>7, <1>8

\* The laws of Raised, multiplication by a power of alpha.
LEMMA RaisedIs ==
  ASSUME NEW x \in Byte, NEW k \in Nat
  PROVE  /\ Raised(x, k) \in Byte /\ (Raised(x, k) = 0 <=> x = 0)
         /\ Raised(x, 0) = x /\ Raised(x, k + 1) = TimesAlpha(Raised(x, k))
         /\ Raised(0, k) = 0 /\ (x # 0 => Raised(x, k) = Alpha(INDEX_OF[x] + k))
<1>1. Raised(0, k) = 0 /\ Raised(0, k + 1) = 0 /\ Raised(0, 0) = 0 /\ TimesAlpha(0) = 0 /\ 0 \in Byte
  BY SMT DEF Raised, TimesAlpha, Byte
<1>2. CASE x = 0
  BY <1>1, <1>2
<1>3. CASE x # 0
  <2> DEFINE l == INDEX_OF[x]
  <2>1. x \in Nonzero
    BY <1>3, SMT DEF Byte, Nonzero, NN
  <2>2. l \in 0 .. 254 /\ Alpha(l) = x
    BY <2>1, LogarithmIs
  <2>3. Raised(x, k) = Alpha(l + k) /\ Raised(x, 0) = Alpha(l + 0) /\ Raised(x, k + 1) = Alpha(l + (k + 1))
    BY <1>3 DEF Raised, Alpha
  <2> HIDE DEF l
  <2>4. l + k \in Nat /\ l + 0 = l /\ l + (k + 1) = (l + k) + 1
    BY <2>2, SMT
  <2>5. Alpha(l + k) \in Nonzero /\ Alpha((l + k) + 1) = Shifted[Alpha(l + k)]
    BY <2>4, AlphaIs
  <2>6. Alpha(l + k) \in Byte /\ Alpha(l + k) # 0 /\ Shifted[Alpha(l + k)] = TimesAlpha(Alpha(l + k))
    BY <2>5, ShiftedIs
  <2> QED BY <1>1, <1>3, <2>2, <2>3, <2>4, <2>5, <2>6 DEF l
<1> QED BY <1>2, <1>3

\* Raising twice is raising by the sum.
LEMMA RaisedTwice ==
  ASSUME NEW x \in Byte, NEW j \in Nat, NEW k \in Nat
  PROVE  Raised(Raised(x, j), k) = Raised(x, j + k)
<1>1. CASE x = 0
  <2>1. j + k \in Nat
    BY SMT
  <2> QED BY <1>1, <2>1, RaisedIs
<1>2. CASE x # 0
  <2> DEFINE l == INDEX_OF[x]
             y == Raised(x, j)
  <2>1. x \in Nonzero
    BY <1>2, SMT DEF Byte, Nonzero, NN
  <2>2. l \in 0 .. 254
    BY <2>1, LogarithmIs
  <2>3. y \in Byte /\ y # 0 /\ y = Alpha(l + j)
    BY <1>2, RaisedIs
  <2>4. j + k \in Nat
    BY SMT
  <2>5. Raised(y, k) = Alpha(INDEX_OF[y] + k) /\ Raised(x, j + k) = Alpha(l + (j + k))
    BY <1>2, <2>3, <2>4, RaisedIs
  <2>6. l + j \in Nat
    BY <2>2, SMT
  <2>7. INDEX_OF[y] = (l + j) % NN
    BY <2>3, <2>6, LogarithmIs
  <2> HIDE DEF l
  <2>8. (((l + j) % NN) + k) % NN = (l + (j + k)) % NN
    <3>1. ASSUME NEW i \in Nat PROVE ((i % 255) + k) % 255 = (i + k) % 255
      BY SMT
    <3>2. l + (j + k) = (l + j) + k
      BY <2>2, SMT
    <3> QED BY <2>6, <3>1, <3>2 DEF NN
  <2> QED BY <2>5, <2>7, <2>8 DEF Alpha
<1> QED BY <1>1, <1>2

\* Raising is linear: it repeats a linear step.
LEMMA RaisedLinear ==
  ASSUME NEW x \in Byte, NEW y \in Byte
  PROVE  \A k \in Nat : Raised(Xor(x, y), k) = Xor(Raised(x, k), Raised(y, k))
<1> DEFINE T == {k \in Nat : Raised(Xor(x, y), k) = Xor(Raised(x, k), Raised(y, k))}
<1>1. Xor(x, y) \in Byte
  BY XorLaws
<1>2. 0 \in T
  BY <1>1, RaisedIs
<1>3. ASSUME NEW k \in T, k \in Nat PROVE k + 1 \in T
  <2>1. Raised(Xor(x, y), k + 1) = TimesAlpha(Xor(Raised(x, k), Raised(y, k)))
    BY <1>1, <1>3, RaisedIs
  <2>2. Raised(x, k) \in Byte /\ Raised(y, k) \in Byte
    BY <1>3, RaisedIs
  <2>3. TimesAlpha(Xor(Raised(x, k), Raised(y, k))) = Xor(TimesAlpha(Raised(x, k)), TimesAlpha(Raised(y, k)))
    BY <2>2, TimesAlphaLaws
  <2>4. Raised(x, k + 1) = TimesAlpha(Raised(x, k)) /\ Raised(y, k + 1) = TimesAlpha(Raised(y, k))
        /\ k + 1 \in Nat
    BY <1>3, RaisedIs
  <2> QED BY <2>1, <2>3, <2>4
<1> HIDE DEF T
<1>4. Nat \subseteq T
  BY <1>2, <1>3, NaturalsIn
<1> QED BY <1>4 DEF T

\* Products of two symbols, and quotients.
LEMMA ProductIs ==
  ASSUME NEW x \in Byte, NEW y \in Byte
  PROVE  /\ Product(x, y) \in Byte /\ Product(x, 1) = x /\ Product(1, y) = y
         /\ Product(x, 0) = 0 /\ Product(0, y) = 0
         /\ (x # 0 /\ y # 0 => Product(x, y) = Alpha(INDEX_OF[x] + INDEX_OF[y]))
         /\ \A k \in Nat : Product(x, Alpha(k)) = Raised(x, k)
<1>1. 0 \in Byte /\ 1 \in Byte /\ 1 \in Nonzero /\ 1 # 0
  BY SMT DEF Byte, Nonzero, NN
<1>2. ASSUME NEW z \in Byte, z # 0 PROVE z \in Nonzero /\ INDEX_OF[z] \in Nat /\ Alpha(INDEX_OF[z]) = z
  <2>1. z \in Nonzero
    BY <1>2, SMT DEF Byte, Nonzero, NN
  <2> QED BY <2>1, LogarithmIs, SMT
<1>3. ASSUME NEW z \in Byte, NEW k \in Nat PROVE Product(z, Alpha(k)) = Raised(z, k)
  <2>1. Alpha(k) \in Nonzero /\ k % NN \in 0 .. 254
    BY AlphaIs
  <2>2. Alpha(k) # 0 /\ INDEX_OF[Alpha(k)] = k % NN
    BY <2>1, LogarithmIs, SMT DEF Nonzero
  <2>3. Product(z, Alpha(k)) = Raised(z, k % NN)
    BY <2>2 DEF Product
  <2>4. CASE z = 0
    BY <2>3, <2>4 DEF Raised
  <2>5. CASE z # 0
    <3>1. (INDEX_OF[z] + (k % NN)) % NN = (INDEX_OF[z] + k) % NN
      <4>1. ASSUME NEW i \in Nat PROVE (i + (k % 255)) % 255 = (i + k) % 255
        BY SMT
      <4> QED BY <1>2, <2>5, <4>1 DEF NN
    <3> QED BY <2>3, <2>5, <3>1 DEF Raised
  <2> QED BY <2>4, <2>5
<1>4. Product(x, y) \in Byte
  <2>1. CASE y = 0
    BY <1>1, <2>1 DEF Product
  <2>2. CASE y # 0
    BY <1>2, <2>2, RaisedIs DEF Product
  <2> QED BY <2>1, <2>2
<1>5. Product(x, 1) = x
  <2>1. Product(x, Alpha(0)) = Raised(x, 0) /\ Raised(x, 0) = x
    BY <1>3, RaisedIs
  <2> QED BY <2>1, AlphaIs
<1>6. Product(x, 0) = 0
  BY DEF Product
<1>7. Product(0, y) = 0
  BY DEF Product, Raised
<1>8. INDEX_OF[1] = 0
  <2>1. INDEX_OF[Alpha(0)] = 0 % NN
    BY LogarithmIs
  <2>2. 0 % NN = 0
    BY SMT DEF NN
  <2> QED BY <2>1, <2>2, AlphaIs
<1>9. Product(1, y) = y
  <2>1. CASE y = 0
    BY <2>1 DEF Product
  <2>2. CASE y # 0
    <3>1. Product(1, y) = Raised(1, INDEX_OF[y]) /\ INDEX_OF[y] \in Nat /\ Alpha(INDEX_OF[y]) = y
      BY <1>2, <2>2 DEF Product
    <3>2. Raised(1, INDEX_OF[y]) = Alpha(0 + INDEX_OF[y])
      BY <1>1, <1>8, <3>1, RaisedIs
    <3>3. 0 + INDEX_OF[y] = INDEX_OF[y]
      BY <3>1, SMT
    <3> QED BY <3>1, <3>2, <3>3
  <2> QED BY <2>1, <2>2
<1>10. ASSUME x # 0, y # 0 PROVE Product(x, y) = Alpha(INDEX_OF[x] + INDEX_OF[y])
  BY <1>2, <1>10, RaisedIs DEF Product
<1> QED BY <1>3, <1>4, <1>5, <1>6, <1>7, <1>9, <1>10

-----------------------------------------------------------------------------
(* Sums of symbols, and the polynomials of few coefficients.                 *)

\* Which symbols there are.
LEMMA ByteIs == 0 \in Byte /\ 1 \in Byte /\ 2 \in Byte /\ Nonzero \subseteq Byte /\ 0 \notin Nonzero
                /\ \A x \in Byte : x # 0 => x \in Nonzero
  BY SMT DEF Byte, Nonzero, NN

\* Sums in another order.
LEMMA XorRearranged ==
  ASSUME NEW a \in Byte, NEW u \in Byte, NEW c \in Byte, NEW d \in Byte
  PROVE  /\ Xor(Xor(a, u), Xor(c, d)) = Xor(Xor(a, c), Xor(u, d))
         /\ Xor(Xor(a, c), Xor(u, c)) = Xor(a, u)
         /\ Xor(Xor(a, u), u) = a /\ Xor(Xor(a, u), a) = u /\ Xor(a, Xor(a, u)) = u
<1>1. /\ \A x, y \in Byte : Xor(x, y) \in Byte /\ Xor(x, y) = Xor(y, x)
      /\ \A x \in Byte : Xor(x, x) = 0 /\ Xor(x, 0) = x /\ Xor(0, x) = x
      /\ \A x, y, z \in Byte : Xor(Xor(x, y), z) = Xor(x, Xor(y, z))
  BY XorLaws
<1>2. Xor(Xor(a, u), Xor(c, d)) = Xor(Xor(a, c), Xor(u, d))
  <2>1. Xor(Xor(a, u), Xor(c, d)) = Xor(a, Xor(u, Xor(c, d)))
        /\ Xor(Xor(a, c), Xor(u, d)) = Xor(a, Xor(c, Xor(u, d)))
    BY <1>1
  <2>2. Xor(u, Xor(c, d)) = Xor(Xor(u, c), d) /\ Xor(c, Xor(u, d)) = Xor(Xor(c, u), d)
    BY <1>1
  <2> QED BY <1>1, <2>1, <2>2
<1>3. Xor(Xor(a, u), u) = a /\ Xor(Xor(a, u), a) = u /\ Xor(a, Xor(a, u)) = u
  <2>1. Xor(Xor(a, u), u) = Xor(a, Xor(u, u)) /\ Xor(a, Xor(a, u)) = Xor(Xor(a, a), u)
        /\ Xor(Xor(a, u), a) = Xor(a, Xor(a, u))
    BY <1>1
  <2> QED BY <1>1, <2>1
<1>4. Xor(Xor(a, c), Xor(u, c)) = Xor(a, u)
  <2>1. Xor(Xor(a, c), Xor(u, c)) = Xor(Xor(Xor(a, c), u), c) /\ Xor(Xor(a, c), u) = Xor(Xor(a, u), c)
        /\ Xor(Xor(Xor(a, u), c), c) = Xor(Xor(a, u), Xor(c, c)) /\ Xor(Xor(a, u), Xor(c, c)) = Xor(a, u)
    <3>1. Xor(Xor(a, c), Xor(u, c)) = Xor(Xor(Xor(a, c), u), c)
      BY <1>1
    <3>2. Xor(Xor(a, c), u) = Xor(a, Xor(c, u)) /\ Xor(Xor(a, u), c) = Xor(a, Xor(u, c))
          /\ Xor(c, u) = Xor(u, c)
      BY <1>1
    <3>3. Xor(Xor(Xor(a, u), c), c) = Xor(Xor(a, u), Xor(c, c)) /\ Xor(c, c) = 0
          /\ Xor(Xor(a, u), 0) = Xor(a, u)
      BY <1>1
    <3> QED BY <3>1, <3>2, <3>3
  <2> QED BY <2>1
<1> QED BY <1>2, <1>3, <1>4

\* The loop that adds symbols.
SumRun(h, p, N) ==
  /\ h[0] = 0
  /\ \A k \in 1 .. N : h[k - 1] \in Byte /\ h[k] \in Byte /\ h[k] = Xor(h[k - 1], p[k])
  /\ XorAll(p) = h[N]

\* It runs to the end, for symbols of any number.
LEMMA SumRuns ==
  ASSUME NEW N \in Nat, NEW p \in [1 .. N -> Byte]
  PROVE  \E h : SumRun(h, p, N)
<1> DEFINE step == [z \in Byte \X (1 .. N) |-> Xor(z[1], p[z[2]])]
           Eq(f) == f = [n \in 0 .. Len(p) |-> IF n = 0 THEN 0 ELSE Xor(f[n - 1], p[n])]
           run == CHOOSE f : Eq(f)
<1>1. Len(p) = N
  BY TupleIsSeq
<1>2. PICK g \in [0 .. N -> Byte] : Recurs(g, N, 0, step)
  <2>1. step \in [Byte \X (1 .. N) -> Byte]
    <3>1. ASSUME NEW z \in Byte \X (1 .. N) PROVE Xor(z[1], p[z[2]]) \in Byte
      BY XorLaws
    <3> QED BY <3>1
  <2>2. 0 \in Byte
    BY ByteIs
  <2> HIDE DEF step
  <2> QED BY <2>1, <2>2, Recursion
<1>3. Eq(g)
  <2>1. ASSUME NEW n \in 0 .. N PROVE g[n] = IF n = 0 THEN 0 ELSE Xor(g[n - 1], p[n])
    <3>1. CASE n = 0
      BY <1>2, <3>1 DEF Recurs
    <3>2. CASE n # 0
      <4>1. n \in 1 .. N /\ n - 1 \in 0 .. N
        BY <3>2, SMT
      <4>2. g[n - 1] \in Byte /\ g[n] = step[<<g[n - 1], n>>]
        BY <1>2, <4>1 DEF Recurs
      <4>3. step[<<g[n - 1], n>>] = Xor(g[n - 1], p[n])
        BY <4>1, <4>2
      <4> QED BY <3>2, <4>2, <4>3
    <3> QED BY <3>1, <3>2
  <2> QED BY <1>1, <1>2, <2>1
<1> HIDE DEF Eq
<1>4. Eq(run)
  BY <1>3
<1>5. XorAll(p) = run[N]
  BY <1>1 DEF XorAll, Fold, Eq
<1> HIDE DEF run
<1>6. run[0] = 0 /\ \A n \in 1 .. N : run[n] = Xor(run[n - 1], p[n])
  <2>1. \A n \in 0 .. N : run[n] = IF n = 0 THEN 0 ELSE Xor(run[n - 1], p[n])
    BY <1>1, <1>4 DEF Eq
  <2>2. 0 \in 0 .. N /\ \A n \in 1 .. N : n \in 0 .. N /\ n # 0
    BY SMT
  <2> QED BY <2>1, <2>2
<1> DEFINE T == {k \in 0 .. N : run[k] \in Byte}
<1>7. 0 .. N \subseteq T
  <2>1. 0 \in T
    BY <1>6, ByteIs
  <2>2. ASSUME NEW k \in 0 .. N - 1, k \in T PROVE k + 1 \in T
    <3>1. k + 1 \in 1 .. N /\ k + 1 \in 0 .. N /\ (k + 1) - 1 = k
      BY SMT
    <3>2. run[k + 1] = Xor(run[k], p[k + 1]) /\ p[k + 1] \in Byte /\ run[k] \in Byte
      BY <1>6, <2>2, <3>1
    <3> QED BY <3>1, <3>2, XorLaws
  <2> HIDE DEF T
  <2> QED BY <2>1, <2>2, UpTo
<1>8. \A n \in 1 .. N : n \in 0 .. N /\ n - 1 \in 0 .. N
  BY SMT
<1>9. SumRun(run, p, N)
  BY <1>5, <1>6, <1>7, <1>8 DEF SumRun
<1> QED BY <1>9

\* Sums of up to three.
LEMMA SumOf1 ==
  ASSUME NEW p \in [1 .. 1 -> Byte]
  PROVE  XorAll(p) = p[1]
<1>1. 1 \in Nat /\ 1 \in 1 .. 1 /\ 1 - 1 = 0
  BY SMT
<1>2. PICK h : SumRun(h, p, 1)
  BY <1>1, SumRuns
<1>3. h[1] = Xor(0, p[1]) /\ XorAll(p) = h[1] /\ p[1] \in Byte
  BY <1>1, <1>2 DEF SumRun
<1> QED BY <1>3, XorLaws

\* Of two.
LEMMA SumOf2 ==
  ASSUME NEW p \in [1 .. 2 -> Byte]
  PROVE  XorAll(p) = Xor(p[1], p[2])
<1>1. 2 \in Nat /\ 1 \in 1 .. 2 /\ 2 \in 1 .. 2 /\ 1 - 1 = 0 /\ 2 - 1 = 1
  BY SMT
<1>2. PICK h : SumRun(h, p, 2)
  BY <1>1, SumRuns
<1>3. h[1] = Xor(0, p[1]) /\ h[2] = Xor(h[1], p[2]) /\ XorAll(p) = h[2] /\ p[1] \in Byte
  BY <1>1, <1>2 DEF SumRun
<1> QED BY <1>3, XorLaws

\* Of three.
LEMMA SumOf3 ==
  ASSUME NEW p \in [1 .. 3 -> Byte]
  PROVE  XorAll(p) = Xor(Xor(p[1], p[2]), p[3])
<1>1. 3 \in Nat /\ 1 \in 1 .. 3 /\ 2 \in 1 .. 3 /\ 3 \in 1 .. 3 /\ 1 - 1 = 0 /\ 2 - 1 = 1 /\ 3 - 1 = 2
  BY SMT
<1>2. PICK h : SumRun(h, p, 3)
  BY <1>1, SumRuns
<1>3. h[1] = Xor(0, p[1]) /\ h[2] = Xor(h[1], p[2]) /\ h[3] = Xor(h[2], p[3]) /\ XorAll(p) = h[3]
      /\ p[1] \in Byte
  BY <1>1, <1>2 DEF SumRun
<1> QED BY <1>3, XorLaws

\* Polynomials, coefficient by coefficient.
LEMMA PlusIs ==
  ASSUME NEW n \in Nat, NEW p \in [1 .. n -> Byte], NEW q \in [1 .. n -> Byte]
  PROVE  Plus(p, q) \in [1 .. n -> Byte] /\ \A j \in 1 .. n : Plus(p, q)[j] = Xor(p[j], q[j])
<1> DEFINE r == [j \in DOMAIN p |-> Xor(p[j], q[j])]
<1>1. DOMAIN p = 1 .. n
  OBVIOUS
<1>2. r \in [1 .. n -> Byte]
  <2>1. ASSUME NEW j \in 1 .. n PROVE Xor(p[j], q[j]) \in Byte
    BY XorLaws
  <2> QED BY <1>1, <2>1
<1>3. \A j \in 1 .. n : r[j] = Xor(p[j], q[j])
  BY <1>1
<1> HIDE DEF r
<1>4. Evaluated(r) = r
  BY <1>2, TupleIsSeq, EvaluatedIs
<1>5. Plus(p, q) = r
  BY <1>4 DEF Plus, r
<1> QED BY <1>2, <1>3, <1>5

\* A multiple of a polynomial.
LEMMA ScaledIs ==
  ASSUME NEW n \in Nat, NEW p \in [1 .. n -> Byte], NEW x \in Byte
  PROVE  Scaled(p, x) \in [1 .. n -> Byte] /\ \A j \in 1 .. n : Scaled(p, x)[j] = Product(p[j], x)
<1> DEFINE r == [j \in DOMAIN p |-> Product(p[j], x)]
<1>1. DOMAIN p = 1 .. n
  OBVIOUS
<1>2. r \in [1 .. n -> Byte]
  <2>1. ASSUME NEW j \in 1 .. n PROVE Product(p[j], x) \in Byte
    BY ProductIs
  <2> QED BY <1>1, <2>1
<1>3. \A j \in 1 .. n : r[j] = Product(p[j], x)
  BY <1>1
<1> HIDE DEF r
<1>4. Evaluated(r) = r
  BY <1>2, TupleIsSeq, EvaluatedIs
<1>5. Scaled(p, x) = r
  BY <1>4 DEF Scaled, r
<1> QED BY <1>2, <1>3, <1>5

\* Pairs and triples.
LEMMA PairIs ==
  ASSUME NEW S, NEW p \in [1 .. 2 -> S]
  PROVE  p = <<p[1], p[2]>> /\ p[1] \in S /\ p[2] \in S
<1>1. p \in Seq(S) /\ Len(p) = 2
  BY TupleIsSeq
<1>2. p[1] \in S /\ p[2] \in S
  <2>1. 1 \in 1 .. 2 /\ 2 \in 1 .. 2
    BY SMT
  <2> QED BY <2>1
<1>3. <<p[1], p[2]>> \in Seq(S) /\ Len(<<p[1], p[2]>>) = 2
  BY <1>2
<1>4. \A i \in 1 .. Len(p) : p[i] = <<p[1], p[2]>>[i]
  BY <1>1, SMT
<1> QED BY <1>1, <1>2, <1>3, <1>4, SeqEqual

\* A function on 1 .. 3 is a triple.
LEMMA TripleIs ==
  ASSUME NEW S, NEW p \in [1 .. 3 -> S]
  PROVE  p = <<p[1], p[2], p[3]>> /\ p[1] \in S /\ p[2] \in S /\ p[3] \in S
<1>1. p \in Seq(S) /\ Len(p) = 3
  BY TupleIsSeq
<1>2. p[1] \in S /\ p[2] \in S /\ p[3] \in S
  <2>1. 1 \in 1 .. 3 /\ 2 \in 1 .. 3 /\ 3 \in 1 .. 3
    BY SMT
  <2> QED BY <2>1
<1>3. <<p[1], p[2], p[3]>> \in Seq(S) /\ Len(<<p[1], p[2], p[3]>>) = 3
  BY <1>2
<1>4. \A i \in 1 .. Len(p) : p[i] = <<p[1], p[2], p[3]>>[i]
  BY <1>1, SMT
<1> QED BY <1>1, <1>2, <1>3, <1>4, SeqEqual

\* And back: tuples are functions.
LEMMA TuplesAre ==
  ASSUME NEW S, NEW x \in S, NEW y \in S, NEW z \in S
  PROVE  /\ <<x>> \in [1 .. 1 -> S] /\ <<x, y>> \in [1 .. 2 -> S] /\ <<x, y, z>> \in [1 .. 3 -> S]
         /\ <<x>> \o <<y>> = <<x, y>> /\ <<x, y>> \o <<z>> = <<x, y, z>> /\ <<x>> \o <<y, z>> = <<x, y, z>>
<1>1. <<x>> \in Seq(S) /\ Len(<<x>>) = 1 /\ <<y>> \in Seq(S) /\ Len(<<y>>) = 1 /\ <<z>> \in Seq(S)
      /\ Len(<<z>>) = 1
  OBVIOUS
<1>2. <<x, y>> \in Seq(S) /\ Len(<<x, y>>) = 2 /\ <<y, z>> \in Seq(S) /\ Len(<<y, z>>) = 2
  OBVIOUS
<1>3. <<x, y, z>> \in Seq(S) /\ Len(<<x, y, z>>) = 3
  OBVIOUS
<1>4. <<x>> \in [1 .. 1 -> S]
  <2>1. <<x>> \in [1 .. Len(<<x>>) -> S]
    BY <1>1, LenProperties
  <2> QED BY <1>1, <2>1
<1>5. <<x, y>> \in [1 .. 2 -> S]
  <2>1. <<x, y>> \in [1 .. Len(<<x, y>>) -> S]
    BY <1>2, LenProperties
  <2> QED BY <1>2, <2>1
<1>6. <<x, y, z>> \in [1 .. 3 -> S]
  <2>1. <<x, y, z>> \in [1 .. Len(<<x, y, z>>) -> S]
    BY <1>3, LenProperties
  <2> QED BY <1>3, <2>1
<1>7. <<x>> \o <<y>> = <<x, y>>
  <2> DEFINE s == <<x>> \o <<y>>
  <2>1. /\ s \in Seq(S) /\ Len(s) = Len(<<x>>) + Len(<<y>>)
        /\ \A i \in 1 .. Len(<<x>>) + Len(<<y>>) : s[i] = IF i <= Len(<<x>>) THEN <<x>>[i] ELSE <<y>>[i - Len(<<x>>)]
    BY <1>1, <1>2, ConcatProperties
  <2>2. Len(<<x>>) = 1 /\ Len(<<y>>) = 1
    OBVIOUS
  <2> HIDE DEF s
  <2>3. Len(s) = 2 /\ s[1] = x /\ s[2] = y
    BY <2>1, <2>2, SMT
  <2>4. \A i \in 1 .. Len(s) : s[i] = <<x, y>>[i]
    BY <2>3, SMT
  <2>5. s = <<x, y>>
    BY <1>2, <1>3, <2>1, <2>3, <2>4, SeqEqual
  <2> QED BY <2>5 DEF s
<1>8. <<x, y>> \o <<z>> = <<x, y, z>>
  <2> DEFINE s == <<x, y>> \o <<z>>
  <2>1. /\ s \in Seq(S) /\ Len(s) = Len(<<x, y>>) + Len(<<z>>)
        /\ \A i \in 1 .. Len(<<x, y>>) + Len(<<z>>) : s[i] = IF i <= Len(<<x, y>>) THEN <<x, y>>[i] ELSE <<z>>[i - Len(<<x, y>>)]
    BY <1>1, <1>2, ConcatProperties
  <2>2. Len(<<x, y>>) = 2 /\ Len(<<z>>) = 1
    OBVIOUS
  <2> HIDE DEF s
  <2>3. Len(s) = 3 /\ s[1] = x /\ s[2] = y /\ s[3] = z
    BY <2>1, <2>2, SMT
  <2>4. \A i \in 1 .. Len(s) : s[i] = <<x, y, z>>[i]
    BY <2>3, SMT
  <2>5. s = <<x, y, z>>
    BY <1>2, <1>3, <2>1, <2>3, <2>4, SeqEqual
  <2> QED BY <2>5 DEF s
<1>9. <<x>> \o <<y, z>> = <<x, y, z>>
  <2> DEFINE s == <<x>> \o <<y, z>>
  <2>1. /\ s \in Seq(S) /\ Len(s) = Len(<<x>>) + Len(<<y, z>>)
        /\ \A i \in 1 .. Len(<<x>>) + Len(<<y, z>>) : s[i] = IF i <= Len(<<x>>) THEN <<x>>[i] ELSE <<y, z>>[i - Len(<<x>>)]
    BY <1>1, <1>2, ConcatProperties
  <2>2. Len(<<x>>) = 1 /\ Len(<<y, z>>) = 2
    OBVIOUS
  <2> HIDE DEF s
  <2>3. Len(s) = 3 /\ s[1] = x /\ s[2] = y /\ s[3] = z
    BY <2>1, <2>2, SMT
  <2>4. \A i \in 1 .. Len(s) : s[i] = <<x, y, z>>[i]
    BY <2>3, SMT
  <2>5. s = <<x, y, z>>
    BY <1>2, <1>3, <2>1, <2>3, <2>4, SeqEqual
  <2> QED BY <2>5 DEF s
<1> QED BY <1>4, <1>5, <1>6, <1>7, <1>8, <1>9

\* The same of symbols.
LEMMA ByteTuples ==
  \A x, y, z \in Byte : /\ <<x>> \in [1 .. 1 -> Byte] /\ <<x, y>> \in [1 .. 2 -> Byte] /\ <<x, y, z>> \in [1 .. 3 -> Byte]
                        /\ <<x>> \o <<y>> = <<x, y>> /\ <<x, y>> \o <<z>> = <<x, y, z>>
                        /\ <<x>> \o <<y, z>> = <<x, y, z>>
  BY TuplesAre, Zenon

\* alpha to the 255 is 1.
LEMMA RaisedRound ==
  ASSUME NEW x \in Byte, NEW k \in Nat
  PROVE  Raised(x, k + 255) = Raised(x, k)
<1>1. k + 255 \in Nat
  BY SMT
<1>2. CASE x = 0
  BY <1>1, <1>2, RaisedIs
<1>3. CASE x # 0
  <2> DEFINE l == INDEX_OF[x]
  <2>1. l \in 0 .. 254
    BY <1>3, ByteIs, LogarithmIs
  <2>2. Raised(x, k + 255) = Alpha(l + (k + 255)) /\ Raised(x, k) = Alpha(l + k)
    BY <1>1, <1>3, RaisedIs
  <2> HIDE DEF l
  <2>3. (l + (k + 255)) % NN = (l + k) % NN
    BY <2>1, SMT DEF NN
  <2> QED BY <2>2, <2>3 DEF Alpha
<1> QED BY <1>2, <1>3

\* Products may be swapped, and are linear.
LEMMA ProductLaws ==
  ASSUME NEW x \in Byte, NEW y \in Byte, NEW z \in Byte
  PROVE  Product(x, y) = Product(y, x) /\ Product(Xor(x, y), z) = Xor(Product(x, z), Product(y, z))
<1>1. Product(x, y) = Product(y, x)
  <2>1. CASE x = 0 \/ y = 0
    BY <2>1, ProductIs
  <2>2. CASE x # 0 /\ y # 0
    <3>1. Product(x, y) = Alpha(INDEX_OF[x] + INDEX_OF[y]) /\ Product(y, x) = Alpha(INDEX_OF[y] + INDEX_OF[x])
      BY <2>2, ProductIs
    <3>2. INDEX_OF[x] \in 0 .. 254 /\ INDEX_OF[y] \in 0 .. 254
      BY <2>2, ByteIs, LogarithmIs
    <3>3. INDEX_OF[x] + INDEX_OF[y] = INDEX_OF[y] + INDEX_OF[x]
      <4>1. \A i, j \in 0 .. 254 : i + j = j + i
        BY SMT
      <4> QED BY <3>2, <4>1
    <3> QED BY <3>1, <3>3
  <2> QED BY <2>1, <2>2
<1>2. Product(Xor(x, y), z) = Xor(Product(x, z), Product(y, z))
  <2>1. CASE z = 0
    <3>1. Product(Xor(x, y), z) = 0 /\ Product(x, z) = 0 /\ Product(y, z) = 0
      BY <2>1 DEF Product
    <3> QED BY <3>1, ByteIs, XorLaws
  <2>2. CASE z # 0
    <3>1. INDEX_OF[z] \in Nat
      <4>1. INDEX_OF[z] \in 0 .. 254
        BY <2>2, ByteIs, LogarithmIs
      <4> QED BY <4>1, SMT
    <3> QED BY <2>2, <3>1, RaisedLinear DEF Product
  <2> QED BY <2>1, <2>2
<1> QED BY <1>1, <1>2

\* The symbols 2 and 3.
LEMMA TwoThree ==
  /\ 3 \in Byte /\ Xor(1, 2) = 3 /\ Raised(1, 0) = 1 /\ Raised(1, 1) = 2 /\ Alpha(1) = 2
  /\ \A f \in Byte : Product(2, f) = Raised(f, 1) /\ Product(3, f) = Xor(f, Raised(f, 1))
<1>1. 3 \in Byte /\ 1 \in Nonzero
  BY SMT DEF Byte, Nonzero, NN
<1>2. Xor(1, 2) = 3
  <2>1. 1 \div 16 = 0 /\ 2 \div 16 = 0 /\ 1 % 16 = 1 /\ 2 % 16 = 2 /\ 0 \in 0 .. 15 /\ 1 \in 0 .. 15
        /\ 2 \in 0 .. 15
    BY SMT
  <2>2. NibbleXor[0][0] = 0
    <3>1. NibbleXor[0][0] = ((0 + 0) % 2) + 2 * (((0 \div 2) + (0 \div 2)) % 2)
                            + 4 * (((0 \div 4) + (0 \div 4)) % 2) + 8 * (((0 \div 8) + (0 \div 8)) % 2)
      BY <2>1, NibbleXorIs
    <3> QED BY <3>1, SMT
  <2>3. NibbleXor[1][2] = 3
    <3>1. NibbleXor[1][2] = ((1 + 2) % 2) + 2 * (((1 \div 2) + (2 \div 2)) % 2)
                            + 4 * (((1 \div 4) + (2 \div 4)) % 2) + 8 * (((1 \div 8) + (2 \div 8)) % 2)
      BY <2>1, NibbleXorIs
    <3> QED BY <3>1, SMT
  <2>4. Xor(1, 2) = 16 * NibbleXor[0][0] + NibbleXor[1][2]
    BY <2>1 DEF Xor
  <2> QED BY <2>2, <2>3, <2>4, SMT
<1>3. Shifted[1] = 2
  <2>1. Shifted[1] = NextPower(1)
    BY <1>1, ShiftedIs
  <2> QED BY <2>1, SMT DEF NextPower
<1>4. Raised(1, 0) = 1 /\ Raised(1, 1) = 2
  <2>1. 0 \in Nat /\ 0 + 1 = 1 /\ 1 # 0
    BY SMT
  <2>2. Raised(1, 0) = 1 /\ Raised(1, 0 + 1) = TimesAlpha(Raised(1, 0))
    BY <2>1, ByteIs, RaisedIs
  <2> QED BY <1>3, <2>1, <2>2 DEF TimesAlpha
<1>5. Alpha(1) = 2
  <2>1. 0 \in Nat /\ 0 + 1 = 1
    BY SMT
  <2>2. Alpha(0 + 1) = Shifted[Alpha(0)] /\ Alpha(0) = 1
    BY <2>1, AlphaIs
  <2> QED BY <1>3, <2>1, <2>2
<1>6. ASSUME NEW f \in Byte PROVE Product(2, f) = Raised(f, 1) /\ Product(3, f) = Xor(f, Raised(f, 1))
  <2>1. Product(2, f) = Product(f, 2)
    BY ByteIs, ProductLaws
  <2>2. Product(f, Alpha(1)) = Raised(f, 1)
    <3>1. 1 \in Nat
      BY SMT
    <3> QED BY <3>1, ProductIs
  <2>3. Product(Xor(1, 2), f) = Xor(Product(1, f), Product(2, f)) /\ Product(1, f) = f
    BY ByteIs, ProductLaws, ProductIs
  <2> QED BY <1>2, <1>5, <2>1, <2>2, <2>3
<1> QED BY <1>1, <1>2, <1>4, <1>5, <1>6

-----------------------------------------------------------------------------
(* The generator polynomial of a header's code.                              *)
TimesRoot(g, root) == Plus(<<0>> \o g, Scaled(g, Raised(1, root)) \o <<0>>)

\* init_rs_char makes (x + 1) (x + alpha) of the two roots.
LEMMA GeneratorIs == Tab[2] = <<2, 3, 1>>
<1> DEFINE roots == [i \in 1 .. 2 |-> i - 1]
           Eq(f) == f = [n \in 0 .. Len(roots) |-> IF n = 0 THEN <<1>> ELSE TimesRoot(f[n - 1], roots[n])]
           run == CHOOSE f : Eq(f)
           g1 == TimesRoot(<<1>>, 0)
           g2 == TimesRoot(g1, 1)
           g == [n \in 0 .. 2 |-> IF n = 0 THEN <<1>> ELSE IF n = 1 THEN g1 ELSE g2]
<1>1. Len(roots) = 2 /\ roots[1] = 0 /\ roots[2] = 1
  OBVIOUS
<1>2. Tab[2] = init_rs_char(2)
  BY DEF Tab
<1>3. init_rs_char(2) = run[2]
  BY <1>1 DEF init_rs_char, Fold, TimesRoot
<1> HIDE DEF roots
<1>4. Eq(g)
  <2> HIDE DEF g1, g2
  <2>1. ASSUME NEW n \in 0 .. 2 PROVE g[n] = IF n = 0 THEN <<1>> ELSE TimesRoot(g[n - 1], roots[n])
    <3>1. g[0] = <<1>> /\ g[1] = g1 /\ g[2] = g2 /\ 1 - 1 = 0 /\ 2 - 1 = 1
      BY SMT
    <3>2. n = 0 \/ n = 1 \/ n = 2
      BY SMT
    <3> HIDE DEF g
    <3> QED BY <1>1, <3>1, <3>2 DEF g1, g2
  <2>2. g = [n \in 0 .. 2 |-> g[n]]
    OBVIOUS
  <2> HIDE DEF g
  <2> QED BY <1>1, <2>1, <2>2
<1> HIDE DEF Eq, g
<1>5. Eq(run)
  BY <1>4
<1> HIDE DEF run
<1>6. run[2] = g2
  <2>1. \A n \in 0 .. 2 : run[n] = IF n = 0 THEN <<1>> ELSE TimesRoot(run[n - 1], roots[n])
    BY <1>1, <1>5 DEF Eq
  <2>2. 0 \in 0 .. 2 /\ 1 \in 0 .. 2 /\ 2 \in 0 .. 2 /\ 1 # 0 /\ 2 # 0 /\ 1 - 1 = 0 /\ 2 - 1 = 1
    BY SMT
  <2>3. run[0] = <<1>> /\ run[1] = TimesRoot(run[0], 0) /\ run[2] = TimesRoot(run[1], 1)
    BY <1>1, <2>1, <2>2
  <2> QED BY <2>3
<1>7. g1 = <<1, 1>>
  <2>1. <<1>> \in [1 .. 1 -> Byte] /\ <<0>> \o <<1>> = <<0, 1>> /\ <<1>> \o <<0>> = <<1, 0>>
        /\ <<0, 1>> \in [1 .. 2 -> Byte] /\ <<1, 0>> \in [1 .. 2 -> Byte]
    <3>1. 0 \in Byte /\ 1 \in Byte
      BY ByteIs
    <3>2. <<1>> \in [1 .. 1 -> Byte]
      BY <3>1, ByteTuples
    <3>3. <<0>> \o <<1>> = <<0, 1>> /\ <<0, 1>> \in [1 .. 2 -> Byte]
      <4>1. <<0>> \o <<1>> = <<0, 1>>
        BY <3>1, ByteTuples, Zenon
      <4>2. <<0, 1>> \in [1 .. 2 -> Byte]
        BY <3>1, ByteTuples, Zenon
      <4> QED BY <4>1, <4>2
    <3>4. <<1>> \o <<0>> = <<1, 0>> /\ <<1, 0>> \in [1 .. 2 -> Byte]
      <4>1. <<1>> \o <<0>> = <<1, 0>>
        BY <3>1, ByteTuples, Zenon
      <4>2. <<1, 0>> \in [1 .. 2 -> Byte]
        BY <3>1, ByteTuples, Zenon
      <4> QED BY <4>1, <4>2
    <3> QED BY <3>2, <3>3, <3>4
  <2>2. Scaled(<<1>>, 1) = <<1>>
    <3>1. Scaled(<<1>>, 1) \in [1 .. 1 -> Byte] /\ Scaled(<<1>>, 1)[1] = Product(<<1>>[1], 1)
      <4>1. 1 \in Nat /\ 1 \in 1 .. 1
        BY SMT
      <4>2. /\ Scaled(<<1>>, 1) \in [1 .. 1 -> Byte]
            /\ \A j \in 1 .. 1 : Scaled(<<1>>, 1)[j] = Product(<<1>>[j], 1)
        BY <2>1, <4>1, ByteIs, ScaledIs
      <4> QED BY <4>1, <4>2
    <3>2. Product(1, 1) = 1 /\ 1 \in Nat
      BY ByteIs, ProductIs
    <3>3. Scaled(<<1>>, 1) \in Seq(Byte) /\ Len(Scaled(<<1>>, 1)) = 1
      BY <3>1, TupleIsSeq
    <3> QED BY <3>1, <3>2, <3>3, SMT
  <2>3. g1 = Plus(<<0, 1>>, <<1, 0>>)
    BY <2>1, <2>2, TwoThree DEF TimesRoot
  <2>4. Plus(<<0, 1>>, <<1, 0>>) \in [1 .. 2 -> Byte]
        /\ Plus(<<0, 1>>, <<1, 0>>)[1] = Xor(0, 1) /\ Plus(<<0, 1>>, <<1, 0>>)[2] = Xor(1, 0)
    <3>1. 2 \in Nat /\ 1 \in 1 .. 2 /\ 2 \in 1 .. 2 /\ <<0, 1>>[1] = 0 /\ <<0, 1>>[2] = 1
          /\ <<1, 0>>[1] = 1 /\ <<1, 0>>[2] = 0
      BY SMT
    <3>2. /\ Plus(<<0, 1>>, <<1, 0>>) \in [1 .. 2 -> Byte]
          /\ \A j \in 1 .. 2 : Plus(<<0, 1>>, <<1, 0>>)[j] = Xor(<<0, 1>>[j], <<1, 0>>[j])
      BY <2>1, <3>1, PlusIs
    <3> QED BY <3>1, <3>2
  <2>5. Xor(0, 1) = 1 /\ Xor(1, 0) = 1
    BY ByteIs, XorLaws
  <2> QED BY <2>3, <2>4, <2>5, PairIs
<1>8. g2 = <<2, 3, 1>>
  <2>1. <<1, 1>> \in [1 .. 2 -> Byte] /\ <<0>> \o <<1, 1>> = <<0, 1, 1>> /\ <<2, 2>> \o <<0>> = <<2, 2, 0>>
        /\ <<0, 1, 1>> \in [1 .. 3 -> Byte] /\ <<2, 2, 0>> \in [1 .. 3 -> Byte]
    <3>1. 0 \in Byte /\ 1 \in Byte /\ 2 \in Byte
      BY ByteIs
    <3>2. <<1, 1>> \in [1 .. 2 -> Byte]
      BY <3>1, ByteTuples
    <3>3. <<0>> \o <<1, 1>> = <<0, 1, 1>> /\ <<0, 1, 1>> \in [1 .. 3 -> Byte]
      <4>1. <<0>> \o <<1, 1>> = <<0, 1, 1>>
        BY <3>1, ByteTuples, Zenon
      <4>2. <<0, 1, 1>> \in [1 .. 3 -> Byte]
        BY <3>1, ByteTuples, Zenon
      <4> QED BY <4>1, <4>2
    <3>4. <<2, 2>> \o <<0>> = <<2, 2, 0>> /\ <<2, 2, 0>> \in [1 .. 3 -> Byte]
      <4>1. <<2, 2>> \o <<0>> = <<2, 2, 0>>
        BY <3>1, ByteTuples, Zenon
      <4>2. <<2, 2, 0>> \in [1 .. 3 -> Byte]
        BY <3>1, ByteTuples, Zenon
      <4> QED BY <4>1, <4>2
    <3> QED BY <3>2, <3>3, <3>4
  <2>2. Scaled(<<1, 1>>, 2) = <<2, 2>>
    <3>1. 2 \in Nat /\ 1 \in 1 .. 2 /\ 2 \in 1 .. 2 /\ <<1, 1>>[1] = 1 /\ <<1, 1>>[2] = 1
      BY SMT
    <3>2. Scaled(<<1, 1>>, 2) \in [1 .. 2 -> Byte] /\ \A j \in 1 .. 2 : Scaled(<<1, 1>>, 2)[j] = Product(<<1, 1>>[j], 2)
      BY <2>1, <3>1, ByteIs, ScaledIs
    <3>3. Product(1, 2) = 2
      BY ByteIs, ProductIs
    <3>4. Scaled(<<1, 1>>, 2)[1] = 2 /\ Scaled(<<1, 1>>, 2)[2] = 2
      BY <3>1, <3>2, <3>3
    <3> QED BY <3>2, <3>4, PairIs
  <2>3. g2 = Plus(<<0, 1, 1>>, <<2, 2, 0>>)
    BY <1>7, <2>1, <2>2, TwoThree DEF TimesRoot
  <2>4. Plus(<<0, 1, 1>>, <<2, 2, 0>>) \in [1 .. 3 -> Byte]
        /\ Plus(<<0, 1, 1>>, <<2, 2, 0>>)[1] = Xor(0, 2) /\ Plus(<<0, 1, 1>>, <<2, 2, 0>>)[2] = Xor(1, 2)
        /\ Plus(<<0, 1, 1>>, <<2, 2, 0>>)[3] = Xor(1, 0)
    <3>1. 3 \in Nat /\ 1 \in 1 .. 3 /\ 2 \in 1 .. 3 /\ 3 \in 1 .. 3 /\ <<0, 1, 1>>[1] = 0
          /\ <<0, 1, 1>>[2] = 1 /\ <<0, 1, 1>>[3] = 1
          /\ <<2, 2, 0>>[1] = 2 /\ <<2, 2, 0>>[2] = 2 /\ <<2, 2, 0>>[3] = 0
      BY SMT
    <3>2. /\ Plus(<<0, 1, 1>>, <<2, 2, 0>>) \in [1 .. 3 -> Byte]
          /\ \A j \in 1 .. 3 : Plus(<<0, 1, 1>>, <<2, 2, 0>>)[j] = Xor(<<0, 1, 1>>[j], <<2, 2, 0>>[j])
      BY <2>1, <3>1, PlusIs
    <3> QED BY <3>1, <3>2
  <2>5. Xor(0, 2) = 2 /\ Xor(1, 0) = 1 /\ Xor(1, 2) = 3
    BY ByteIs, XorLaws, TwoThree
  <2> QED BY <2>3, <2>4, <2>5, TripleIs
<1> QED BY <1>2, <1>3, <1>6, <1>8

\* The coefficients that encode_rs_char multiplies by.
LEMMA RegisterTaps == Reverse(Front(Tab[2])) = <<3, 2>>
<1>1. Tab[2] = <<2, 3, 1>> /\ Len(<<2, 3, 1>>) = 3 /\ <<2, 3, 1>>[1] = 2 /\ <<2, 3, 1>>[2] = 3
  BY GeneratorIs
<1> DEFINE s == <<2, 3, 1>>
           f == SubSeq(s, 1, 2)
<1>2. \A i \in 1 .. 2 : s[i] \in Byte
  BY ByteIs, TwoThree, SMT
<1>3. Front(Tab[2]) = f
  BY <1>1 DEF Front
<1> HIDE DEF s
<1>4. f \in Seq(Byte) /\ Len(f) = 2 /\ f[1] = s[1] /\ f[2] = s[2]
  <2>1. 1 \in Int /\ 2 \in Int /\ 1 \in 1 .. 2 - 1 + 1 /\ 2 \in 1 .. 2 - 1 + 1 /\ 1 + 1 - 1 = 1
        /\ 1 + 2 - 1 = 2 /\ 1 <= 2 /\ 2 - 1 + 1 = 2
    BY SMT
  <2> QED BY <1>2, <2>1, SubSeqProperties
<1> HIDE DEF f
<1> DEFINE r == Reverse(f)
<1>5. r = [i \in 1 .. 2 |-> f[(2 - i) + 1]]
  BY <1>4 DEF Reverse
<1>6. r[1] = f[2] /\ r[2] = f[1] /\ \A i \in 1 .. 2 : r[i] \in Byte
  <2>1. 1 \in 1 .. 2 /\ 2 \in 1 .. 2 /\ (2 - 1) + 1 = 2 /\ (2 - 2) + 1 = 1
        /\ \A i \in 1 .. 2 : (2 - i) + 1 \in 1 .. 2
    BY SMT
  <2>2. \A i \in 1 .. 2 : f[i] \in Byte
    BY <1>4
  <2> HIDE DEF r
  <2>3. r[1] = f[(2 - 1) + 1] /\ r[2] = f[(2 - 2) + 1] /\ \A i \in 1 .. 2 : r[i] = f[(2 - i) + 1]
    BY <1>5, <2>1
  <2> QED BY <2>1, <2>2, <2>3
<1>7. r \in [1 .. 2 -> Byte]
  BY <1>5, <1>6
<1>8. r = <<3, 2>>
  <2> HIDE DEF r
  <2>1. r[1] = 3 /\ r[2] = 2
    BY <1>1, <1>4, <1>6 DEF s
  <2> QED BY <1>7, <2>1, PairIs
<1> QED BY <1>3, <1>8

-----------------------------------------------------------------------------
(* A word at a root: Horner's rule, from its first symbol to its last.       *)
HornerRun(H, w, N, k) ==
  /\ H[0] = 0
  /\ \A n \in 1 .. N : H[n - 1] \in Byte /\ H[n] \in Byte /\ H[n] = Xor(Raised(H[n - 1], k), w[n])

\* The rule runs to the end of any word.
LEMMA HornerRuns ==
  ASSUME NEW N \in Nat, NEW w \in [1 .. N -> Byte], NEW k \in Nat
  PROVE  \E H : HornerRun(H, w, N, k)
<1> DEFINE step == [z \in Byte \X (1 .. N) |-> Xor(Raised(z[1], k), w[z[2]])]
<1>1. step \in [Byte \X (1 .. N) -> Byte]
  <2>1. ASSUME NEW z \in Byte \X (1 .. N) PROVE Xor(Raised(z[1], k), w[z[2]]) \in Byte
    <3>1. z[1] \in Byte /\ w[z[2]] \in Byte
      OBVIOUS
    <3>2. Raised(z[1], k) \in Byte
      BY <3>1, RaisedIs
    <3> QED BY <3>1, <3>2, XorLaws
  <2> QED BY <2>1
<1>2. PICK H \in [0 .. N -> Byte] : Recurs(H, N, 0, step)
  <2> HIDE DEF step
  <2> QED BY <1>1, ByteIs, Recursion
<1>3. ASSUME NEW n \in 1 .. N
      PROVE  H[n - 1] \in Byte /\ H[n] \in Byte /\ H[n] = Xor(Raised(H[n - 1], k), w[n])
  <2>1. n \in 0 .. N /\ n - 1 \in 0 .. N
    BY SMT
  <2>2. H[n - 1] \in Byte /\ H[n] \in Byte /\ H[n] = step[<<H[n - 1], n>>]
    BY <1>2, <2>1 DEF Recurs
  <2>3. step[<<H[n - 1], n>>] = Xor(Raised(H[n - 1], k), w[n])
    BY <2>2
  <2> QED BY <2>2, <2>3
<1>4. HornerRun(H, w, N, k)
  BY <1>2, <1>3 DEF HornerRun, Recurs
<1> QED BY <1>4

\* Its intermediate values are symbols.
LEMMA HornerTyped ==
  ASSUME NEW N \in Nat, NEW w, NEW k, NEW H, HornerRun(H, w, N, k), NEW n \in 0 .. N
  PROVE  H[n] \in Byte
<1>1. CASE n = 0
  BY <1>1, ByteIs DEF HornerRun
<1>2. CASE n # 0
  <2>1. n \in 1 .. N
    BY <1>2, SMT
  <2> QED BY <2>1 DEF HornerRun
<1> QED BY <1>1, <1>2

\* It is what Value adds up from the other end.
LEMMA ValueIs ==
  ASSUME NEW N \in Nat, NEW w \in [1 .. N -> Byte], NEW k \in {0, 1}, NEW H, HornerRun(H, w, N, k)
  PROVE  Value(Reverse(w), k) = H[N]
<1> DEFINE r == Reverse(w)
           p == [j \in DOMAIN r |-> Raised(r[j], (j - 1) * k)]
<1>1. k \in Nat /\ \A j \in Nat : j * k \in Nat /\ k + j * k = (j + 1) * k /\ 0 * k = 0
  <2>1. CASE k = 0
    BY <2>1, SMT
  <2>2. CASE k = 1
    BY <2>2, SMT
  <2> QED BY <2>1, <2>2
<1>2. r = [i \in 1 .. N |-> w[(N - i) + 1]]
  <2>1. Len(w) = N
    BY TupleIsSeq
  <2> QED BY <2>1 DEF Reverse
<1> HIDE DEF r
<1>3. p \in [1 .. N -> Byte] /\ \A j \in 1 .. N : p[j] = Raised(w[(N - j) + 1], (j - 1) * k)
  <2>1. ASSUME NEW j \in 1 .. N PROVE p[j] = Raised(w[(N - j) + 1], (j - 1) * k) /\ p[j] \in Byte
    <3>1. (N - j) + 1 \in 1 .. N /\ j - 1 \in Nat
      BY SMT
    <3>2. p[j] = Raised(w[(N - j) + 1], (j - 1) * k)
      BY <1>2
    <3> HIDE DEF p
    <3>3. w[(N - j) + 1] \in Byte /\ (j - 1) * k \in Nat
      BY <1>1, <3>1
    <3> QED BY <3>2, <3>3, RaisedIs
  <2>2. p = [j \in 1 .. N |-> p[j]]
    BY <1>2
  <2> HIDE DEF p
  <2> QED BY <2>1, <2>2
<1>4. Value(r, k) = XorAll(p)
  BY DEF Value
<1> HIDE DEF p
<1>5. PICK h : SumRun(h, p, N)
  BY <1>3, SumRuns
<1> DEFINE T == {j \in 0 .. N : Xor(Raised(H[N - j], j * k), h[j]) = H[N] /\ h[j] \in Byte}
<1>6. 0 \in T
  <2>1. N \in 0 .. N /\ N - 0 = N /\ 0 \in 0 .. N
    BY SMT
  <2>2. H[N] \in Byte
    BY <2>1, HornerTyped
  <2>3. Raised(H[N], 0) = H[N]
    <3>1. 0 \in Nat
      OBVIOUS
    <3> QED BY <2>2, <3>1, RaisedIs
  <2>4. h[0] = 0 /\ 0 * k = 0 /\ Xor(H[N], 0) = H[N]
    BY <1>1, <1>5, <2>2, XorLaws DEF SumRun
  <2> QED BY <2>1, <2>3, <2>4, ByteIs
<1>7. ASSUME NEW j \in 0 .. N - 1, j \in T PROVE j + 1 \in T
  <2> DEFINE m == N - j
             x == H[m - 1]
             a == Raised(x, (j + 1) * k)
             y == Raised(w[m], j * k)
             c == h[j]
  <2>1. m \in 1 .. N /\ m - 1 \in 0 .. N /\ N - (j + 1) = m - 1 /\ j + 1 \in 1 .. N /\ j + 1 \in 0 .. N
        /\ (j + 1) - 1 = j /\ (N - (j + 1)) + 1 = m /\ j \in Nat
    BY SMT
  <2>2. H[m] = Xor(Raised(x, k), w[m]) /\ x \in Byte /\ w[m] \in Byte
    BY <2>1 DEF HornerRun
  <2>3. h[j + 1] = Xor(c, y) /\ c \in Byte /\ h[j + 1] \in Byte
    <3>1. p[j + 1] = y
      BY <1>3, <2>1
    <3>2. h[j + 1] = Xor(h[(j + 1) - 1], p[j + 1]) /\ h[(j + 1) - 1] \in Byte /\ h[j + 1] \in Byte
      BY <1>5, <2>1 DEF SumRun
    <3> QED BY <2>1, <3>1, <3>2
  <2>4. Xor(Raised(H[m], j * k), c) = H[N]
    BY <1>7
  <2>5. j * k \in Nat /\ (j + 1) * k = k + j * k /\ (j + 1) * k \in Nat
    <3>1. j + 1 \in Nat
      BY <2>1
    <3> QED BY <1>1, <2>1, <3>1
  <2> HIDE DEF m
  <2>6. Raised(x, k) \in Byte
    BY <1>1, <2>2, RaisedIs
  <2>7. Raised(H[m], j * k) = Xor(Raised(Raised(x, k), j * k), y)
    BY <2>2, <2>5, <2>6, RaisedLinear
  <2>8. Raised(Raised(x, k), j * k) = a
    <3>1. k \in Nat /\ x \in Byte /\ j * k \in Nat
      BY <1>1, <2>2, <2>5
    <3> HIDE DEF x
    <3>2. Raised(Raised(x, k), j * k) = Raised(x, k + j * k)
      BY <3>1, RaisedTwice
    <3> QED BY <2>5, <3>2
  <2>9. a \in Byte /\ y \in Byte
    BY <2>2, <2>5, RaisedIs
  <2> HIDE DEF x, a, y, c
  <2>10. Xor(Xor(a, y), c) = Xor(a, Xor(y, c)) /\ Xor(y, c) = Xor(c, y)
    BY <2>3, <2>9, XorLaws
  <2>11. Xor(a, h[j + 1]) = H[N]
    BY <2>3, <2>4, <2>7, <2>8, <2>10
  <2>12. Raised(H[N - (j + 1)], (j + 1) * k) = a
    BY <2>1 DEF a, x
  <2> QED BY <2>1, <2>3, <2>11, <2>12
<1>8. N \in T
  <2> HIDE DEF T
  <2>1. 0 .. N \subseteq T
    BY <1>6, <1>7, UpTo
  <2>2. N \in 0 .. N
    BY SMT
  <2> QED BY <2>1, <2>2
<1>9. Xor(Raised(0, N * k), h[N]) = H[N] /\ h[N] \in Byte
  <2>1. N - N = 0 /\ H[0] = 0
    BY SMT DEF HornerRun
  <2> QED BY <1>8, <2>1
<1>10. Raised(0, N * k) = 0
  BY DEF Raised
<1>11. XorAll(p) = h[N]
  BY <1>5 DEF SumRun
<1> QED BY <1>4, <1>9, <1>10, <1>11, XorLaws DEF r

\* One symbol damaged.
Damaged(w, at, by) == [w EXCEPT ![at] = Xor(@, by)]

\* It shows in the value, raised by how many symbols follow it.
LEMMA DamageShows ==
  ASSUME NEW N \in Nat, NEW w \in [1 .. N -> Byte], NEW at \in 1 .. N, NEW by \in Byte, NEW k \in {0, 1},
         NEW H, HornerRun(H, w, N, k), NEW G, HornerRun(G, Damaged(w, at, by), N, k)
  PROVE  G[N] = Xor(H[N], Raised(by, (N - at) * k))
<1> DEFINE v == Damaged(w, at, by)
           T == {n \in 0 .. N : IF n < at THEN G[n] = H[n] ELSE G[n] = Xor(H[n], Raised(by, (n - at) * k))}
<1>1. k \in Nat /\ \A j \in Nat : j * k \in Nat /\ j * k + k = (j + 1) * k /\ 0 * k = 0
  <2>1. CASE k = 0
    BY <2>1, SMT
  <2>2. CASE k = 1
    BY <2>2, SMT
  <2> QED BY <2>1, <2>2
<1>2. \A n \in 1 .. N : v[n] = IF n = at THEN Xor(w[n], by) ELSE w[n]
  BY DEF Damaged
<1> HIDE DEF v
<1>3. HornerRun(G, v, N, k)
  BY DEF v
<1>4. 0 \in T
  <2>1. 0 \in 0 .. N /\ 0 < at
    BY SMT
  <2> QED BY <2>1 DEF HornerRun
<1>5. ASSUME NEW m \in 0 .. N - 1, m \in T PROVE m + 1 \in T
  <2> DEFINE n == m + 1
             y == Raised(H[m], k)
  <2>1. n \in 1 .. N /\ n \in 0 .. N /\ n - 1 = m /\ m \in Nat
    BY SMT
  <2>2. H[m] \in Byte /\ G[m] \in Byte /\ H[n] = Xor(y, w[n]) /\ G[n] = Xor(Raised(G[m], k), v[n])
        /\ w[n] \in Byte
    BY <1>3, <2>1 DEF HornerRun
  <2>3. y \in Byte
    BY <1>1, <2>2, RaisedIs
  <2>4. CASE n < at
    <3>1. m < at /\ n # at
      BY <2>4, SMT
    <3>2. G[m] = H[m] /\ v[n] = w[n]
      BY <1>2, <1>5, <2>1, <3>1
    <3>3. G[n] = H[n]
      BY <2>2, <3>2
    <3> QED BY <2>1, <2>4, <3>3
  <2>5. CASE n = at
    <3>1. m < at /\ n - at = 0 /\ ~(n < at)
      BY <2>5, SMT
    <3>2. G[m] = H[m] /\ v[n] = Xor(w[n], by)
      BY <1>2, <1>5, <2>1, <2>5, <3>1
    <3>3. Raised(by, 0) = by
      <4>1. 0 \in Nat
        OBVIOUS
      <4> QED BY <4>1, RaisedIs
    <3>4. (n - at) * k = 0
      BY <1>1, <3>1
    <3>5. G[n] = Xor(H[n], by)
      BY <2>2, <2>3, <3>2, XorLaws
    <3>6. G[n] = Xor(H[n], Raised(by, (n - at) * k))
      BY <3>3, <3>4, <3>5
    <3> QED BY <2>1, <3>1, <3>6
  <2>6. CASE n > at
    <3> DEFINE e == m - at
               z == Raised(by, e * k)
    <3>1. ~(m < at) /\ ~(n < at) /\ n # at /\ n - at = e + 1 /\ e \in Nat
      BY <2>6, SMT
    <3>2. G[m] = Xor(H[m], z) /\ v[n] = w[n]
      BY <1>2, <1>5, <2>1, <3>1
    <3>3. e * k \in Nat /\ (e + 1) * k = e * k + k
      BY <1>1, <3>1
    <3> HIDE DEF e
    <3>4. z \in Byte /\ Raised(z, k) = Raised(by, (e + 1) * k)
      BY <1>1, <3>3, RaisedIs, RaisedTwice
    <3>5. Raised(G[m], k) = Xor(y, Raised(z, k)) /\ Raised(z, k) \in Byte
      <4>1. z \in Byte /\ k \in Nat /\ H[m] \in Byte
        BY <1>1, <2>2, <3>4
      <4> HIDE DEF z
      <4>2. Raised(Xor(H[m], z), k) = Xor(Raised(H[m], k), Raised(z, k))
        BY <4>1, RaisedLinear
      <4> QED BY <3>2, <4>1, <4>2, RaisedIs
    <3> DEFINE q == Raised(z, k)
    <3> HIDE DEF q
    <3>6. Xor(Xor(y, q), w[n]) = Xor(Xor(y, w[n]), q)
      <4>1. q \in Byte
        BY <3>5 DEF q
      <4>2. Xor(Xor(y, q), w[n]) = Xor(y, Xor(q, w[n])) /\ Xor(Xor(y, w[n]), q) = Xor(y, Xor(w[n], q))
            /\ Xor(q, w[n]) = Xor(w[n], q)
        BY <2>2, <2>3, <4>1, XorLaws
      <4> QED BY <4>2
    <3>7. G[n] = Xor(H[n], q)
      BY <2>2, <3>2, <3>5, <3>6 DEF q
    <3>8. q = Raised(by, (n - at) * k)
      BY <3>1, <3>4 DEF q
    <3> QED BY <2>1, <3>1, <3>7, <3>8
  <2> QED BY <2>1, <2>4, <2>5, <2>6, SMT
<1>6. N \in T
  <2> HIDE DEF T
  <2>1. 0 .. N \subseteq T
    BY <1>4, <1>5, UpTo
  <2>2. N \in 0 .. N
    BY SMT
  <2> QED BY <2>1, <2>2
<1>7. ~(N < at)
  BY SMT
<1> QED BY <1>6, <1>7

-----------------------------------------------------------------------------
(* The register of two symbols that divides by the generator polynomial.     *)
DivideStep(bb, d) == Plus(Tail(bb) \o <<0>>, Scaled(<<3, 2>>, Xor(d, bb[1])))

\* What one octet does to the two symbols of the register.
LEMMA DivideIs ==
  ASSUME NEW bb \in [1 .. 2 -> Byte], NEW d \in Byte
  PROVE  LET f == Xor(d, bb[1])
             y == DivideStep(bb, d)
         IN  /\ y \in [1 .. 2 -> Byte] /\ f \in Byte
             /\ y[1] = Xor(bb[2], Xor(f, Raised(f, 1))) /\ y[2] = Raised(f, 1)
<1> DEFINE f == Xor(d, bb[1])
           y == DivideStep(bb, d)
           u == Tail(bb) \o <<0>>
           g == Scaled(<<3, 2>>, f)
<1>1. bb = <<bb[1], bb[2]>> /\ bb[1] \in Byte /\ bb[2] \in Byte
  BY PairIs
<1>2. f \in Byte
  BY <1>1, XorLaws
<1>3. u \in [1 .. 2 -> Byte] /\ u[1] = bb[2] /\ u[2] = 0
  <2>1. Tail(<<bb[1], bb[2]>>) = <<bb[2]>>
    OBVIOUS
  <2>2. Tail(bb) = <<bb[2]>>
    BY <1>1, <2>1
  <2>3. <<bb[2]>> \o <<0>> = <<bb[2], 0>> /\ <<bb[2], 0>> \in [1 .. 2 -> Byte]
    <3>1. 0 \in Byte
      BY ByteIs
    <3>2. <<bb[2]>> \o <<0>> = <<bb[2], 0>>
      BY <1>1, <3>1, ByteTuples, Zenon
    <3>3. <<bb[2], 0>> \in [1 .. 2 -> Byte]
      BY <1>1, <3>1, ByteTuples, Zenon
    <3> QED BY <3>2, <3>3
  <2>4. u = <<bb[2], 0>>
    BY <2>2, <2>3
  <2> HIDE DEF u
  <2> QED BY <2>3, <2>4
<1>4. g \in [1 .. 2 -> Byte] /\ g[1] = Product(3, f) /\ g[2] = Product(2, f)
  <2>1. 2 \in Nat /\ 1 \in 1 .. 2 /\ 2 \in 1 .. 2 /\ <<3, 2>>[1] = 3 /\ <<3, 2>>[2] = 2
    BY SMT
  <2>2. <<3, 2>> \in [1 .. 2 -> Byte]
    <3>1. 3 \in Byte /\ 2 \in Byte
      BY ByteIs, TwoThree
    <3> QED BY <3>1, ByteTuples, Zenon
  <2> HIDE DEF f
  <2>3. g \in [1 .. 2 -> Byte] /\ \A j \in 1 .. 2 : g[j] = Product(<<3, 2>>[j], f)
    BY <1>2, <2>1, <2>2, ScaledIs
  <2> HIDE DEF g
  <2> QED BY <2>1, <2>3
<1>5. Product(3, f) = Xor(f, Raised(f, 1)) /\ Product(2, f) = Raised(f, 1)
  BY <1>2, TwoThree
<1>6. y = Plus(u, g)
  BY DEF DivideStep
<1> HIDE DEF u, g, f, y
<1>7. y \in [1 .. 2 -> Byte] /\ y[1] = Xor(u[1], g[1]) /\ y[2] = Xor(u[2], g[2])
  <2>1. 2 \in Nat /\ 1 \in 1 .. 2 /\ 2 \in 1 .. 2
    BY SMT
  <2>2. Plus(u, g) \in [1 .. 2 -> Byte] /\ \A j \in 1 .. 2 : Plus(u, g)[j] = Xor(u[j], g[j])
    BY <1>3, <1>4, <2>1, PlusIs
  <2> QED BY <1>6, <2>1, <2>2
<1>8. y[1] = Xor(bb[2], Xor(f, Raised(f, 1)))
  BY <1>3, <1>4, <1>5, <1>7
<1>9. y[2] = Raised(f, 1)
  <2>1. 1 \in Nat
    OBVIOUS
  <2>2. Raised(f, 1) \in Byte
    BY <1>2, <2>1, RaisedIs
  <2>3. Xor(0, Raised(f, 1)) = Raised(f, 1)
    BY <2>2, XorLaws
  <2> QED BY <1>3, <1>4, <1>5, <1>7, <2>3
<1> QED BY <1>2, <1>7, <1>8, <1>9 DEF y, f

EncoderRun(B, data, N) ==
  /\ B[0][1] = 0 /\ B[0][2] = 0 /\ B[0] \in [1 .. 2 -> Byte]
  /\ \A n \in 1 .. N : /\ B[n - 1] \in [1 .. 2 -> Byte] /\ B[n] \in [1 .. 2 -> Byte]
                       /\ B[n] = DivideStep(B[n - 1], data[n])
  /\ encode_rs_char(2, data) = B[N]

\* The register runs through blocks of any length.
LEMMA EncoderRuns ==
  ASSUME NEW N \in Nat, NEW data \in [1 .. N -> Byte]
  PROVE  \E B : EncoderRun(B, data, N)
<1> DEFINE Pairs == [1 .. 2 -> Byte]
           none == [j \in 1 .. 2 |-> 0]
           step == [z \in Pairs \X (1 .. N) |-> DivideStep(z[1], data[z[2]])]
           Eq(f) == f = [n \in 0 .. Len(data) |-> IF n = 0 THEN none ELSE DivideStep(f[n - 1], data[n])]
           run == CHOOSE f : Eq(f)
<1>1. Len(data) = N
  BY TupleIsSeq
<1>2. none \in Pairs /\ none[1] = 0 /\ none[2] = 0
  BY ByteIs
<1>3. step \in [Pairs \X (1 .. N) -> Pairs]
  <2>1. ASSUME NEW z \in Pairs \X (1 .. N) PROVE DivideStep(z[1], data[z[2]]) \in Pairs
    <3>1. z[1] \in Pairs /\ data[z[2]] \in Byte
      OBVIOUS
    <3> QED BY <3>1, DivideIs
  <2> QED BY <2>1
<1> HIDE DEF none
<1>4. PICK g \in [0 .. N -> Pairs] : Recurs(g, N, none, step)
  <2> HIDE DEF step, Pairs
  <2> QED BY <1>2, <1>3, Recursion
<1>5. ASSUME NEW n \in 1 .. N PROVE g[n - 1] \in Pairs /\ g[n] \in Pairs /\ g[n] = DivideStep(g[n - 1], data[n])
  <2> HIDE DEF Pairs
  <2>1. n \in 0 .. N /\ n - 1 \in 0 .. N
    BY SMT
  <2>2. g[n - 1] \in Pairs /\ g[n] \in Pairs /\ g[n] = step[<<g[n - 1], n>>]
    BY <1>4, <2>1 DEF Recurs
  <2>3. step[<<g[n - 1], n>>] = DivideStep(g[n - 1], data[n])
    BY <2>2
  <2> QED BY <2>2, <2>3
<1>6. Eq(g)
  <2> HIDE DEF Pairs, step
  <2>1. ASSUME NEW n \in 0 .. N PROVE g[n] = IF n = 0 THEN none ELSE DivideStep(g[n - 1], data[n])
    <3>1. CASE n = 0
      BY <1>4, <3>1 DEF Recurs
    <3>2. CASE n # 0
      <4>1. n \in 1 .. N
        BY <3>2, SMT
      <4> QED BY <1>5, <3>2, <4>1
    <3> QED BY <3>1, <3>2
  <2> QED BY <1>1, <1>4, <2>1
<1>7. encode_rs_char(2, data) = run[N]
  BY <1>1, RegisterTaps DEF encode_rs_char, Fold, DivideStep, none
<1> HIDE DEF Eq
<1>8. Eq(run)
  BY <1>6
<1> HIDE DEF run
<1>9. run[0] = none /\ \A n \in 1 .. N : run[n] = DivideStep(run[n - 1], data[n])
  <2>1. \A n \in 0 .. N : run[n] = IF n = 0 THEN none ELSE DivideStep(run[n - 1], data[n])
    BY <1>1, <1>8 DEF Eq
  <2>2. 0 \in 0 .. N /\ \A n \in 1 .. N : n \in 0 .. N /\ n # 0
    BY SMT
  <2> QED BY <2>1, <2>2
<1> HIDE DEF Pairs
<1> DEFINE T == {k \in 0 .. N : run[k] \in Pairs}
<1>10. 0 .. N \subseteq T
  <2>1. 0 \in T
    BY <1>2, <1>9
  <2>2. ASSUME NEW k \in 0 .. N - 1, k \in T PROVE k + 1 \in T
    <3>1. k + 1 \in 1 .. N /\ k + 1 \in 0 .. N /\ (k + 1) - 1 = k
      BY SMT
    <3>2. run[k + 1] = DivideStep(run[k], data[k + 1]) /\ data[k + 1] \in Byte /\ run[k] \in Pairs
      BY <1>9, <2>2, <3>1
    <3>3. run[k + 1] \in Pairs
      BY <3>2, DivideIs DEF Pairs
    <3> QED BY <3>1, <3>3
  <2> HIDE DEF T
  <2> QED BY <2>1, <2>2, UpTo
<1>11. \A n \in 1 .. N : n \in 0 .. N /\ n - 1 \in 0 .. N
  BY SMT
<1>12. EncoderRun(run, data, N)
  <2>1. run[0] \in Pairs /\ run[0][1] = 0 /\ run[0][2] = 0
    BY <1>2, <1>9
  <2>2. ASSUME NEW n \in 1 .. N
        PROVE  run[n - 1] \in Pairs /\ run[n] \in Pairs /\ run[n] = DivideStep(run[n - 1], data[n])
    BY <1>9, <1>10, <1>11
  <2> QED BY <1>7, <2>1, <2>2 DEF EncoderRun, Pairs
<1> QED BY <1>12

\* What the register holds is the rest: it makes up for the value of the word so far.
MakesUp(h, y, k) == Raised(h, k + k) = Xor(Raised(y[1], k), y[2])

\* Another octet leaves that so.
LEMMA RestMakesUp ==
  ASSUME NEW h \in Byte, NEW y \in [1 .. 2 -> Byte], NEW k \in {0, 1}, NEW d \in Byte, MakesUp(h, y, k)
  PROVE  MakesUp(Xor(Raised(h, k), d), DivideStep(y, d), k)
<1> DEFINE f == Xor(d, y[1])
           c == DivideStep(y, d)
<1>1. c \in [1 .. 2 -> Byte] /\ f \in Byte /\ c[1] = Xor(y[2], Xor(f, Raised(f, 1))) /\ c[2] = Raised(f, 1)
  BY DivideIs
<1>2. y[1] \in Byte /\ y[2] \in Byte /\ 0 \in Nat /\ 1 \in Nat /\ k \in Nat /\ k + k \in Nat
      /\ (k + k) + k = k + (k + k)
  <2>1. k \in Nat /\ k + k \in Nat /\ (k + k) + k = k + (k + k)
    BY SMT
  <2> QED BY <2>1, PairIs
<1> DEFINE b1 == Raised(y[1], k + k)
           b2 == Raised(y[2], k)
           dd == Raised(d, k + k)
           ff == Raised(f, k + k)
           f1 == Raised(f, 1)
           fk == Raised(f, k)
<1>3. b1 \in Byte /\ b2 \in Byte /\ dd \in Byte /\ ff \in Byte /\ f1 \in Byte /\ fk \in Byte
  BY <1>1, <1>2, RaisedIs
<1> HIDE DEF f, c
<1>4. Raised(Xor(Raised(h, k), d), k + k) = Xor(Xor(b1, b2), dd)
  <2>1. Raised(h, k) \in Byte /\ Raised(h, k + k) \in Byte /\ Raised(y[1], k) \in Byte
    BY <1>2, RaisedIs
  <2>2. Raised(Xor(Raised(h, k), d), k + k) = Xor(Raised(Raised(h, k), k + k), dd)
    BY <1>2, <2>1, RaisedLinear
  <2>3. Raised(Raised(h, k), k + k) = Raised(h, k + (k + k)) /\ Raised(Raised(h, k + k), k) = Raised(h, (k + k) + k)
    BY <1>2, RaisedTwice
  <2>4. Raised(Raised(h, k + k), k) = Xor(Raised(Raised(y[1], k), k), b2)
    <3>1. Raised(Xor(Raised(y[1], k), y[2]), k) = Xor(Raised(Raised(y[1], k), k), Raised(y[2], k))
      BY <1>2, <2>1, RaisedLinear
    <3> QED BY <3>1 DEF MakesUp
  <2>5. Raised(Raised(y[1], k), k) = b1
    BY <1>2, RaisedTwice
  <2> QED BY <1>2, <2>2, <2>3, <2>4, <2>5
<1>5. ff = Xor(dd, b1)
  BY <1>2, RaisedLinear DEF f
<1>6. Xor(Xor(b1, b2), dd) = Xor(b2, ff)
  <2> HIDE DEF b1, b2, dd, ff
  <2>1. Xor(Xor(b1, b2), dd) = Xor(Xor(b2, b1), dd) /\ Xor(Xor(b2, b1), dd) = Xor(b2, Xor(b1, dd))
        /\ Xor(b1, dd) = Xor(dd, b1)
    BY <1>3, XorLaws
  <2> QED BY <1>5, <2>1
<1>7. Raised(c[1], k) = Xor(b2, Xor(fk, Raised(f1, k)))
  <2>1. Xor(f, f1) \in Byte
    BY <1>1, <1>3, XorLaws
  <2>2. Raised(Xor(y[2], Xor(f, f1)), k) = Xor(Raised(y[2], k), Raised(Xor(f, f1), k))
    BY <1>2, <2>1, RaisedLinear
  <2>3. Raised(Xor(f, f1), k) = Xor(Raised(f, k), Raised(f1, k))
    BY <1>1, <1>2, <1>3, RaisedLinear
  <2> QED BY <1>1, <2>2, <2>3
<1>8. Xor(Raised(c[1], k), c[2]) = Xor(b2, ff)
  <2>1. CASE k = 0
    <3>1. fk = f /\ Raised(f1, k) = f1 /\ ff = f
      <4>1. 0 + 0 = 0
        OBVIOUS
      <4> QED BY <1>1, <1>2, <1>3, <2>1, <4>1, RaisedIs
    <3> HIDE DEF b2, f1, fk, ff
    <3>2. Xor(f, f1) \in Byte /\ Xor(Xor(f, f1), f1) = f
      BY <1>1, <1>3, XorLaws, XorRearranged
    <3>3. Xor(Xor(b2, Xor(f, f1)), f1) = Xor(b2, Xor(Xor(f, f1), f1))
      BY <1>3, <3>2, XorLaws
    <3> QED BY <1>1, <1>7, <3>1, <3>2, <3>3 DEF f1
  <2>2. CASE k = 1
    <3>1. fk = f1 /\ Raised(f1, k) = ff
      BY <1>1, <1>2, <2>2, RaisedTwice
    <3> HIDE DEF b2, f1, fk, ff
    <3>2. Xor(f1, ff) \in Byte /\ Xor(Xor(f1, ff), f1) = ff
      BY <1>3, XorLaws, XorRearranged
    <3>3. Xor(Xor(b2, Xor(f1, ff)), f1) = Xor(b2, Xor(Xor(f1, ff), f1))
      BY <1>3, <3>2, XorLaws
    <3> QED BY <1>1, <1>7, <3>1, <3>2, <3>3 DEF f1
  <2> QED BY <2>1, <2>2
<1> QED BY <1>4, <1>6, <1>8 DEF MakesUp, c

\* A block with its parity has the value 0 at the two roots.
LEMMA ParityMakesZero ==
  ASSUME NEW N \in Nat, NEW block \in [1 .. N -> Byte]
  PROVE  /\ encode_rs_char(2, block) \in [1 .. 2 -> Byte]
         /\ \A k \in {0, 1} : \A H : HornerRun(H, block \o encode_rs_char(2, block), N + 2, k) => H[N + 2] = 0
<1> DEFINE parity == encode_rs_char(2, block)
           word == block \o parity
<1>1. PICK B : EncoderRun(B, block, N)
  BY EncoderRuns
<1>2. \A n \in 0 .. N : B[n] \in [1 .. 2 -> Byte]
  <2>1. \A n \in 0 .. N : n = 0 \/ n \in 1 .. N
    BY SMT
  <2> QED BY <1>1, <2>1 DEF EncoderRun
<1>3. parity = B[N] /\ parity \in [1 .. 2 -> Byte]
  <2>1. N \in 0 .. N
    BY SMT
  <2> QED BY <1>1, <1>2, <2>1 DEF EncoderRun
<1> HIDE DEF parity
<1>4. /\ \A n \in 1 .. N : word[n] = block[n]
      /\ word[N + 1] = parity[1] /\ word[N + 2] = parity[2]
  <2>1. block \in Seq(Byte) /\ Len(block) = N
    BY TupleIsSeq
  <2>2. parity \in Seq(Byte) /\ Len(parity) = 2
    <3>1. 2 \in Nat
      OBVIOUS
    <3> QED BY <1>3, <3>1, TupleIsSeq
  <2>3. \A i \in 1 .. N + 2 : word[i] = IF i <= N THEN block[i] ELSE parity[i - N]
    <3>1. \A i \in 1 .. Len(block) + Len(parity) :
            word[i] = IF i <= Len(block) THEN block[i] ELSE parity[i - Len(block)]
      BY <2>1, <2>2, ConcatProperties
    <3> HIDE DEF word
    <3> QED BY <2>1, <2>2, <3>1
  <2>4. /\ \A n \in 1 .. N : n \in 1 .. N + 2 /\ n <= N
        /\ N + 1 \in 1 .. N + 2 /\ N + 2 \in 1 .. N + 2 /\ ~(N + 1 <= N) /\ ~(N + 2 <= N)
        /\ (N + 1) - N = 1 /\ (N + 2) - N = 2
    BY SMT
  <2> HIDE DEF word
  <2> QED BY <2>3, <2>4
<1> HIDE DEF word
<1>5. ASSUME NEW k \in {0, 1}, NEW H, HornerRun(H, word, N + 2, k)
      PROVE  H[N + 2] = 0
  <2> DEFINE T == {n \in 0 .. N : MakesUp(H[n], B[n], k)}
  <2>1. k \in Nat /\ k + k \in Nat
    BY SMT
  <2>2. \A n \in 0 .. N + 2 : H[n] \in Byte
    <3>1. N + 2 \in Nat
      BY SMT
    <3> QED BY <1>5, <3>1, HornerTyped
  <2>3. 0 \in T
    <3>1. H[0] = 0 /\ B[0][1] = 0 /\ B[0][2] = 0
      BY <1>1, <1>5 DEF HornerRun, EncoderRun
    <3>2. Raised(0, k + k) = 0 /\ Raised(0, k) = 0 /\ Xor(0, 0) = 0
      BY <2>1, ByteIs, RaisedIs, XorLaws
    <3> QED BY <3>1, <3>2 DEF MakesUp
  <2>4. ASSUME NEW n \in 0 .. N - 1, n \in T PROVE n + 1 \in T
    <3>1. n + 1 \in 1 .. N /\ n + 1 \in 1 .. N + 2 /\ n + 1 \in 0 .. N /\ (n + 1) - 1 = n /\ n \in 0 .. N
          /\ n \in 0 .. N + 2
      BY SMT
    <3>2. H[n + 1] = Xor(Raised(H[n], k), block[n + 1]) /\ H[n] \in Byte /\ block[n + 1] \in Byte
      <4>1. H[n + 1] = Xor(Raised(H[(n + 1) - 1], k), word[n + 1])
        BY <1>5, <3>1 DEF HornerRun
      <4> QED BY <1>4, <2>2, <3>1, <4>1
    <3>3. B[n + 1] = DivideStep(B[n], block[n + 1]) /\ B[n] \in [1 .. 2 -> Byte]
      <4>1. B[n + 1] = DivideStep(B[(n + 1) - 1], block[n + 1])
        BY <1>1, <3>1 DEF EncoderRun
      <4> QED BY <1>2, <3>1, <4>1
    <3>4. MakesUp(H[n], B[n], k)
      BY <2>4
    <3>5. MakesUp(H[n + 1], B[n + 1], k)
      BY <3>2, <3>3, <3>4, RestMakesUp
    <3> QED BY <3>1, <3>5
  <2>5. MakesUp(H[N], parity, k)
    <3>1. N \in T
      <4> HIDE DEF T
      <4>1. 0 .. N \subseteq T
        BY <2>3, <2>4, UpTo
      <4>2. N \in 0 .. N
        BY SMT
      <4> QED BY <4>1, <4>2
    <3> QED BY <1>3, <3>1
  <2>6. N + 1 \in 1 .. N + 2 /\ N + 2 \in 1 .. N + 2 /\ (N + 1) - 1 = N /\ (N + 2) - 1 = N + 1
        /\ N \in 0 .. N + 2 /\ N + 1 \in 0 .. N + 2
    BY SMT
  <2>7. /\ H[N + 1] = Xor(Raised(H[N], k), parity[1]) /\ H[N + 2] = Xor(Raised(H[N + 1], k), parity[2])
        /\ H[N] \in Byte /\ parity[1] \in Byte /\ parity[2] \in Byte
    <3>1. H[N + 1] = Xor(Raised(H[(N + 1) - 1], k), word[N + 1])
          /\ H[N + 2] = Xor(Raised(H[(N + 2) - 1], k), word[N + 2])
      BY <1>5, <2>6 DEF HornerRun
    <3> QED BY <1>3, <1>4, <2>2, <2>6, <3>1, PairIs
  <2>8. Raised(H[N + 1], k) = Xor(Raised(H[N], k + k), Raised(parity[1], k))
    <3>1. Raised(H[N], k) \in Byte
      BY <2>1, <2>7, RaisedIs
    <3>2. Raised(Xor(Raised(H[N], k), parity[1]), k) = Xor(Raised(Raised(H[N], k), k), Raised(parity[1], k))
      BY <2>1, <2>7, <3>1, RaisedLinear
    <3>3. Raised(Raised(H[N], k), k) = Raised(H[N], k + k)
      BY <2>1, <2>7, RaisedTwice
    <3> QED BY <2>7, <3>2, <3>3
  <2> DEFINE p == Raised(parity[1], k)
             q == parity[2]
  <2>9. p \in Byte /\ q \in Byte
    BY <2>1, <2>7, RaisedIs
  <2>10. H[N + 2] = Xor(Xor(Xor(p, q), p), q)
    BY <2>5, <2>7, <2>8 DEF MakesUp
  <2> HIDE DEF p, q
  <2>11. Xor(Xor(p, q), p) = q /\ Xor(q, q) = 0
    BY <2>9, XorLaws, XorRearranged
  <2> QED BY <2>10, <2>11
<1> QED BY <1>3, <1>5 DEF word, parity

-----------------------------------------------------------------------------
(* Polynomials of two and three coefficients.                                *)
LEMMA TimesXTriple ==
  ASSUME NEW x \in Byte, NEW y \in Byte, NEW z \in Byte
  PROVE  TimesX(<<x, y, z>>) = <<0, x, y>>
<1> DEFINE p == <<x, y, z>>
           u == SubSeq(p, 1, 2)
<1>1. p \in [1 .. 3 -> Byte] /\ p[1] = x /\ p[2] = y
  <2>1. p \in [1 .. 3 -> Byte]
    BY ByteTuples, Zenon
  <2> QED BY <2>1
<1> HIDE DEF p
<1>2. Len(p) = 3
  <2>1. 3 \in Nat
    OBVIOUS
  <2> QED BY <1>1, <2>1, TupleIsSeq
<1>3. Front(p) = u
  BY <1>2 DEF Front
<1>4. u \in Seq(Byte) /\ Len(u) = 2 /\ u[1] = p[1] /\ u[2] = p[2]
  <2>1. 1 \in Int /\ 2 \in Int /\ 1 \in 1 .. 2 - 1 + 1 /\ 2 \in 1 .. 2 - 1 + 1 /\ 1 + 1 - 1 = 1 /\ 1 + 2 - 1 = 2
        /\ 1 <= 2 /\ 2 - 1 + 1 = 2 /\ \A i \in 1 .. 2 : i \in 1 .. 3
    BY SMT
  <2>2. \A i \in 1 .. 2 : p[i] \in Byte
    BY <1>1, <2>1
  <2> QED BY <2>1, <2>2, SubSeqProperties
<1> HIDE DEF u
<1>5. u \in [1 .. 2 -> Byte]
  <2>1. u \in [1 .. Len(u) -> Byte]
    BY <1>4, LenProperties
  <2> QED BY <1>4, <2>1
<1>6. u = <<x, y>>
  BY <1>1, <1>4, <1>5, PairIs
<1>7. <<0>> \o <<x, y>> = <<0, x, y>>
  <2>1. 0 \in Byte
    BY ByteIs
  <2> QED BY <2>1, ByteTuples, Zenon
<1> QED BY <1>3, <1>6, <1>7 DEF TimesX, p

\* A multiple of three coefficients.
LEMMA ScaledTriple ==
  ASSUME NEW a \in Byte, NEW y \in Byte, NEW c \in Byte, NEW x \in Byte
  PROVE  Scaled(<<a, y, c>>, x) = <<Product(a, x), Product(y, x), Product(c, x)>>
<1> DEFINE p == <<a, y, c>>
<1>1. p \in [1 .. 3 -> Byte] /\ p[1] = a /\ p[2] = y /\ p[3] = c
  <2>1. p \in [1 .. 3 -> Byte]
    BY ByteTuples, Zenon
  <2> QED BY <2>1
<1> HIDE DEF p
<1>2. 3 \in Nat /\ 1 \in 1 .. 3 /\ 2 \in 1 .. 3 /\ 3 \in 1 .. 3
  BY SMT
<1>3. Scaled(p, x) \in [1 .. 3 -> Byte] /\ \A j \in 1 .. 3 : Scaled(p, x)[j] = Product(p[j], x)
  BY <1>1, <1>2, ScaledIs
<1>4. Scaled(p, x)[1] = Product(a, x) /\ Scaled(p, x)[2] = Product(y, x) /\ Scaled(p, x)[3] = Product(c, x)
  BY <1>1, <1>2, <1>3
<1> QED BY <1>3, <1>4, TripleIs DEF p

\* A sum of three coefficients each.
LEMMA PlusTriple ==
  ASSUME NEW x \in Byte, NEW y \in Byte, NEW z \in Byte, NEW d \in Byte, NEW e \in Byte, NEW f \in Byte
  PROVE  Plus(<<x, y, z>>, <<d, e, f>>) = <<Xor(x, d), Xor(y, e), Xor(z, f)>>
<1> DEFINE p == <<x, y, z>>
           q == <<d, e, f>>
<1>1. p \in [1 .. 3 -> Byte] /\ q \in [1 .. 3 -> Byte]
  <2>1. p \in [1 .. 3 -> Byte]
    BY ByteTuples, Zenon
  <2>2. q \in [1 .. 3 -> Byte]
    BY ByteTuples, Zenon
  <2> QED BY <2>1, <2>2
<1>2. p[1] = x /\ p[2] = y /\ p[3] = z /\ q[1] = d /\ q[2] = e /\ q[3] = f
  OBVIOUS
<1> HIDE DEF p, q
<1>3. 3 \in Nat /\ 1 \in 1 .. 3 /\ 2 \in 1 .. 3 /\ 3 \in 1 .. 3
  BY SMT
<1>4. Plus(p, q) \in [1 .. 3 -> Byte] /\ \A j \in 1 .. 3 : Plus(p, q)[j] = Xor(p[j], q[j])
  BY <1>1, <1>3, PlusIs
<1>5. Plus(p, q)[1] = Xor(x, d) /\ Plus(p, q)[2] = Xor(y, e) /\ Plus(p, q)[3] = Xor(z, f)
  BY <1>2, <1>3, <1>4
<1> QED BY <1>4, <1>5, TripleIs DEF p, q

\* The value of a polynomial of three coefficients.
LEMMA ValueOf3 ==
  ASSUME NEW x \in Byte, NEW y \in Byte, NEW z \in Byte, NEW k \in Nat
  PROVE  Value(<<x, y, z>>, k) = Xor(Xor(x, Raised(y, k)), Raised(z, k + k))
<1> DEFINE p == <<x, y, z>>
           v == [j \in DOMAIN p |-> Raised(p[j], (j - 1) * k)]
<1>1. p \in [1 .. 3 -> Byte] /\ p[1] = x /\ p[2] = y /\ p[3] = z
  <2>1. p \in [1 .. 3 -> Byte]
    BY ByteTuples, Zenon
  <2> QED BY <2>1
<1> HIDE DEF p
<1>2. v = [j \in 1 .. 3 |-> Raised(p[j], (j - 1) * k)]
  BY <1>1
<1>3. 1 \in 1 .. 3 /\ 2 \in 1 .. 3 /\ 3 \in 1 .. 3 /\ (1 - 1) * k = 0 /\ (2 - 1) * k = k /\ (3 - 1) * k = k + k
      /\ 0 \in Nat /\ k + k \in Nat /\ \A j \in 1 .. 3 : j = 1 \/ j = 2 \/ j = 3
  BY SMT
<1> HIDE DEF v
<1>4. v[1] = Raised(x, 0) /\ v[2] = Raised(y, k) /\ v[3] = Raised(z, k + k)
  BY <1>1, <1>2, <1>3
<1>5. v[1] \in Byte /\ v[2] \in Byte /\ v[3] \in Byte /\ v[1] = x
  BY <1>3, <1>4, RaisedIs
<1>6. v \in [1 .. 3 -> Byte]
  <2>1. \A j \in 1 .. 3 : v[j] \in Byte
    BY <1>3, <1>5
  <2>2. v = [j \in 1 .. 3 |-> v[j]]
    BY <1>2
  <2> QED BY <2>1, <2>2
<1>7. Value(p, k) = XorAll(v)
  BY DEF Value, v
<1> QED BY <1>4, <1>5, <1>6, <1>7, SumOf3 DEF p

\* And of two.
LEMMA ValueOf2 ==
  ASSUME NEW x \in Byte, NEW y \in Byte, NEW k \in Nat
  PROVE  Value(<<x, y>>, k) = Xor(x, Raised(y, k))
<1> DEFINE p == <<x, y>>
           v == [j \in DOMAIN p |-> Raised(p[j], (j - 1) * k)]
<1>1. p \in [1 .. 2 -> Byte] /\ p[1] = x /\ p[2] = y
  <2>1. p \in [1 .. 2 -> Byte]
    BY ByteTuples, Zenon
  <2> QED BY <2>1
<1> HIDE DEF p
<1>2. v = [j \in 1 .. 2 |-> Raised(p[j], (j - 1) * k)]
  BY <1>1
<1>3. 1 \in 1 .. 2 /\ 2 \in 1 .. 2 /\ (1 - 1) * k = 0 /\ (2 - 1) * k = k
      /\ 0 \in Nat /\ \A j \in 1 .. 2 : j = 1 \/ j = 2
  BY SMT
<1> HIDE DEF v
<1>4. v[1] = Raised(x, 0) /\ v[2] = Raised(y, k)
  BY <1>1, <1>2, <1>3
<1>5. v[1] \in Byte /\ v[2] \in Byte /\ v[1] = x
  BY <1>3, <1>4, RaisedIs
<1>6. v \in [1 .. 2 -> Byte]
  <2>1. \A j \in 1 .. 2 : v[j] \in Byte
    BY <1>3, <1>5
  <2>2. v = [j \in 1 .. 2 |-> v[j]]
    BY <1>2
  <2> QED BY <2>1, <2>2
<1>7. Value(p, k) = XorAll(v)
  BY DEF Value, v
<1> QED BY <1>4, <1>5, <1>6, <1>7, SumOf2 DEF p

-----------------------------------------------------------------------------
(* One symbol by is wrong, and e symbols follow it.                          *)
OneError(s, by, e) == s \in [1 .. 2 -> Byte] /\ s[1] = by /\ s[2] = Raised(by, e)

\* One step of Berlekamp-Massey.
Correction(acc, r, s) ==
  LET discr_r == XorAll([i \in 1 .. r |-> Product(acc.lambda[i], s[r - i + 1])])
      xb == TimesX(acc.b)
      t == Plus(acc.lambda, Scaled(xb, discr_r))
  IN  CASE discr_r = 0 -> [acc EXCEPT !.b = xb]
        [] discr_r # 0 /\ 2 * acc.el <= r - 1 ->
             [lambda |-> t, el |-> r - acc.el, b |-> Scaled(acc.lambda, Quotient(1, discr_r))]
        [] OTHER -> [acc EXCEPT !.lambda = t, !.b = xb]

\* Quotients by the error undo products with it.
LEMMA QuotientsAre ==
  ASSUME NEW y \in Byte, y # 0
  PROVE  /\ Quotient(1, y) \in Byte /\ Product(1, Quotient(1, y)) = Quotient(1, y)
         /\ Product(Quotient(1, y), Product(y, y)) = y
         /\ \A e \in 0 .. 254 : /\ Product(Quotient(1, y), Raised(y, e)) = Alpha(e)
                                /\ Quotient(Raised(y, e), Alpha(e)) = y
<1> DEFINE l == INDEX_OF[y]
           m == 255 - l
           q == Quotient(1, y)
<1>1. NN = 255 /\ 0 % 255 = 0
  BY SMT DEF NN
<1>2. l \in 0 .. 254 /\ y \in Nonzero
  BY ByteIs, LogarithmIs
<1>3. Product(y, y) = Raised(y, l) /\ q = Raised(1, m) /\ \A e \in Nat : Raised(y, e) = Alpha(l + e)
  BY <1>1, RaisedIs DEF Product, Quotient
<1> HIDE DEF l, q
<1>4. m \in Nat /\ l \in Nat /\ l + m = 0 + 255 /\ \A e \in Nat : l + (e + m) = e + 255
  BY <1>2, SMT
<1> HIDE DEF m
<1>5. q = Alpha(m)
  <2>1. INDEX_OF[Alpha(0)] = 0 % NN
    BY LogarithmIs
  <2>2. INDEX_OF[1] = 0
    BY <1>1, <2>1, AlphaIs
  <2>3. 1 # 0 /\ 0 + m = m
    BY <1>4, SMT
  <2>4. Raised(1, m) = Alpha(INDEX_OF[1] + m)
    <3>1. 1 \in Byte
      BY ByteIs
    <3> QED BY <1>4, <2>3, <3>1, RaisedIs
  <2> QED BY <1>3, <2>2, <2>3, <2>4
<1>6. q \in Byte
  BY <1>3, <1>4, ByteIs, RaisedIs
<1>7. ASSUME NEW z \in Byte PROVE Product(q, z) = Raised(z, m)
  <2>1. Product(q, z) = Product(z, q)
    BY <1>6, ProductLaws
  <2> QED BY <1>4, <1>5, <2>1, ProductIs
<1>8. Product(1, q) = q
  BY <1>6, ProductIs
<1>9. Product(q, Product(y, y)) = y
  <2>1. Raised(y, l) \in Byte
    BY <1>4, RaisedIs
  <2>2. Raised(Raised(y, l), m) = Raised(y, l + m)
    BY <1>4, RaisedTwice
  <2>3. l + m = 0 + 255 /\ 0 \in Nat
    BY <1>4
  <2>4. Raised(y, 0 + 255) = Raised(y, 0) /\ Raised(y, 0) = y
    BY <2>3, RaisedRound, RaisedIs
  <2> QED BY <1>3, <1>7, <2>1, <2>2, <2>3, <2>4
<1>10. ASSUME NEW e \in 0 .. 254 PROVE Product(q, Raised(y, e)) = Alpha(e)
  <2>1. e \in Nat /\ e + m \in Nat /\ l + (e + m) = e + 255 /\ (e + 255) % 255 = e % 255
    BY <1>4, SMT
  <2>2. Raised(y, e) \in Byte
    BY <2>1, RaisedIs
  <2>3. Raised(Raised(y, e), m) = Raised(y, e + m)
    BY <1>4, <2>1, RaisedTwice
  <2>4. Raised(y, e + m) = Alpha(e + 255)
    BY <1>3, <2>1
  <2>5. Alpha(e + 255) = Alpha(e)
    BY <1>1, <2>1 DEF Alpha
  <2> QED BY <1>7, <2>2, <2>3, <2>4, <2>5
<1>11. ASSUME NEW e \in 0 .. 254 PROVE Quotient(Raised(y, e), Alpha(e)) = y
  <2> DEFINE n == 255 - e
  <2>1. e \in Nat /\ e % 255 = e /\ n \in Nat /\ e + n = 0 + 255 /\ 0 \in Nat
    BY SMT
  <2>2. INDEX_OF[Alpha(e)] = e
    BY <1>1, <2>1, LogarithmIs
  <2>3. Quotient(Raised(y, e), Alpha(e)) = Raised(Raised(y, e), n)
    BY <1>1, <2>2 DEF Quotient
  <2> HIDE DEF n
  <2>4. Raised(Raised(y, e), n) = Raised(y, e + n)
    BY <2>1, RaisedTwice
  <2>5. Raised(y, 0 + 255) = Raised(y, 0) /\ Raised(y, 0) = y
    BY <2>1, RaisedRound, RaisedIs
  <2> QED BY <2>1, <2>3, <2>4, <2>5
<1> QED BY <1>6, <1>8, <1>9, <1>10, <1>11 DEF q

\* The first step takes the error for the last symbol.
LEMMA FirstCorrection ==
  ASSUME NEW by \in Byte, by # 0, NEW e \in 0 .. 254, NEW s, OneError(s, by, e)
  PROVE  Correction([lambda |-> <<1, 0, 0>>, b |-> <<1, 0, 0>>, el |-> 0], 1, s)
           = [lambda |-> <<1, by, 0>>, el |-> 1, b |-> <<Quotient(1, by), 0, 0>>]
<1> DEFINE acc == [lambda |-> <<1, 0, 0>>, b |-> <<1, 0, 0>>, el |-> 0]
           p == [i \in 1 .. 1 |-> Product(acc.lambda[i], s[1 - i + 1])]
           discr == XorAll(p)
           xb == TimesX(acc.b)
           t == Plus(acc.lambda, Scaled(xb, discr))
<1>1. 0 \in Byte /\ 1 \in Byte
  BY ByteIs
<1>2. Product(1, by) = by /\ Product(0, by) = 0 /\ Xor(1, 0) = 1 /\ Xor(0, by) = by /\ Xor(0, 0) = 0
  BY <1>1, ProductIs, XorLaws
<1>3. discr = by
  <2>1. p[1] = Product(1, s[1])
    BY SMT
  <2>2. p = [i \in 1 .. 1 |-> p[i]] /\ \A i \in 1 .. 1 : i = 1
    BY SMT
  <2> HIDE DEF p
  <2>3. p[1] = by
    BY <1>2, <2>1 DEF OneError
  <2>4. p \in [1 .. 1 -> Byte]
    BY <2>2, <2>3
  <2> QED BY <2>3, <2>4, SumOf1
<1>4. acc.lambda = <<1, 0, 0>> /\ acc.b = <<1, 0, 0>> /\ acc.el = 0
  OBVIOUS
<1>5. xb = <<0, 1, 0>>
  BY <1>1, <1>4, TimesXTriple
<1> HIDE DEF discr, xb
<1>6. t = <<1, by, 0>>
  <2>1. Scaled(<<0, 1, 0>>, by) = <<0, by, 0>>
    BY <1>1, <1>2, ScaledTriple
  <2>2. Plus(<<1, 0, 0>>, <<0, by, 0>>) = <<1, by, 0>>
    BY <1>1, <1>2, PlusTriple
  <2> QED BY <1>3, <1>4, <1>5, <2>1, <2>2
<1>7. Scaled(acc.lambda, Quotient(1, discr)) = <<Quotient(1, by), 0, 0>>
  <2> DEFINE q == Quotient(1, by)
  <2>1. q \in Byte /\ Product(1, q) = q
    BY QuotientsAre
  <2> HIDE DEF q
  <2>2. Product(0, q) = 0
    BY <2>1, ProductIs
  <2>3. Scaled(<<1, 0, 0>>, q) = <<q, 0, 0>>
    BY <1>1, <2>1, <2>2, ScaledTriple
  <2> QED BY <1>3, <1>4, <2>3 DEF q
<1> HIDE DEF t
<1>8. discr # 0 /\ 2 * acc.el <= 1 - 1 /\ 1 - acc.el = 1
  BY <1>3, <1>4, SMT
<1>9. Correction(acc, 1, s) = CASE discr = 0 -> [acc EXCEPT !.b = xb]
        [] discr # 0 /\ 2 * acc.el <= 1 - 1 ->
             [lambda |-> t, el |-> 1 - acc.el, b |-> Scaled(acc.lambda, Quotient(1, discr))]
        [] OTHER -> [acc EXCEPT !.lambda = t, !.b = xb]
  BY DEF Correction, discr, xb, t
<1> HIDE DEF acc
<1>10. Correction(acc, 1, s) = [lambda |-> t, el |-> 1 - acc.el, b |-> Scaled(acc.lambda, Quotient(1, discr))]
  BY <1>8, <1>9
<1> QED BY <1>6, <1>7, <1>8, <1>10 DEF acc

\* The second sees where it is.
LEMMA SecondCorrection ==
  ASSUME NEW by \in Byte, by # 0, NEW e \in 0 .. 254, NEW s, OneError(s, by, e)
  PROVE  Correction([lambda |-> <<1, by, 0>>, el |-> 1, b |-> <<Quotient(1, by), 0, 0>>], 2, s).lambda
           = <<1, Alpha(e), 0>>
<1> DEFINE q == Quotient(1, by)
           acc == [lambda |-> <<1, by, 0>>, el |-> 1, b |-> <<q, 0, 0>>]
           p == [i \in 1 .. 2 |-> Product(acc.lambda[i], s[2 - i + 1])]
           discr == XorAll(p)
           xb == TimesX(acc.b)
           t == Plus(acc.lambda, Scaled(xb, discr))
           s2 == Raised(by, e)
           sq == Product(by, by)
<1>1. 0 \in Byte /\ 1 \in Byte /\ e \in Nat
  BY ByteIs, SMT
<1>2. q \in Byte /\ Product(q, sq) = by /\ Product(q, s2) = Alpha(e)
  BY QuotientsAre
<1>3. s2 \in Byte /\ sq \in Byte /\ Product(1, s2) = s2
  <2>1. s2 \in Byte
    BY <1>1, RaisedIs
  <2> HIDE DEF s2
  <2> QED BY <2>1, ProductIs
<1> HIDE DEF q, s2, sq
<1>4. acc.lambda = <<1, by, 0>> /\ acc.b = <<q, 0, 0>> /\ acc.el = 1
  OBVIOUS
<1>5. discr = Xor(s2, sq)
  <2>1. p[1] = Product(acc.lambda[1], s[2]) /\ p[2] = Product(acc.lambda[2], s[1])
    <3>1. 1 \in 1 .. 2 /\ 2 \in 1 .. 2 /\ 2 - 1 + 1 = 2 /\ 2 - 2 + 1 = 1
      BY SMT
    <3> QED BY <3>1
  <2>2. p = [i \in 1 .. 2 |-> p[i]] /\ \A i \in 1 .. 2 : i = 1 \/ i = 2
    BY SMT
  <2> HIDE DEF p
  <2>3. acc.lambda[1] = 1 /\ acc.lambda[2] = by
    BY <1>4
  <2>4. p[1] = s2 /\ p[2] = sq
    BY <1>3, <2>1, <2>3 DEF OneError, s2, sq
  <2>5. p \in [1 .. 2 -> Byte]
    BY <1>3, <2>2, <2>4
  <2> QED BY <2>4, <2>5, SumOf2
<1>6. xb = <<0, q, 0>>
  BY <1>1, <1>2, <1>4, TimesXTriple
<1> HIDE DEF discr, xb
<1>7. discr \in Byte
  BY <1>3, <1>5, XorLaws
<1>8. Product(q, discr) = Xor(Alpha(e), by)
  <2>1. Product(q, discr) = Product(discr, q) /\ Product(s2, q) = Product(q, s2)
        /\ Product(sq, q) = Product(q, sq)
    BY <1>2, <1>3, <1>7, ProductLaws
  <2>2. Product(Xor(s2, sq), q) = Xor(Product(s2, q), Product(sq, q))
    BY <1>2, <1>3, ProductLaws
  <2> QED BY <1>2, <1>5, <2>1, <2>2
<1>9. Alpha(e) \in Byte
  BY <1>1, AlphaIs, ByteIs
<1>10. t = <<1, Alpha(e), 0>>
  <2>1. Product(0, discr) = 0 /\ Xor(1, 0) = 1 /\ Xor(0, 0) = 0
    BY <1>1, <1>7, ProductIs, XorLaws
  <2> DEFINE z == Product(q, discr)
  <2>2. z \in Byte
    BY <1>2, <1>7, ProductIs
  <2>3. Xor(by, z) = Alpha(e)
    <3>1. Xor(by, z) = Xor(z, by) /\ Xor(Xor(Alpha(e), by), by) = Alpha(e)
      BY <1>9, <2>2, XorLaws, XorRearranged
    <3> QED BY <1>8, <3>1
  <2>4. Scaled(<<0, q, 0>>, discr) = <<0, z, 0>>
    BY <1>1, <1>2, <1>7, <2>1, ScaledTriple
  <2> HIDE DEF z
  <2>5. Plus(<<1, by, 0>>, <<0, z, 0>>) = <<1, Alpha(e), 0>>
    BY <1>1, <2>1, <2>2, <2>3, PlusTriple
  <2> QED BY <1>4, <1>6, <2>4, <2>5
<1>11. discr = 0 => <<1, by, 0>> = <<1, Alpha(e), 0>>
  <2> SUFFICES ASSUME discr = 0 PROVE by = Alpha(e)
    OBVIOUS
  <2>1. Product(q, 0) = 0
    BY <1>2, ProductIs
  <2>2. Xor(Alpha(e), by) = 0
    BY <1>8, <2>1
  <2>3. Xor(Xor(Alpha(e), by), by) = Alpha(e) /\ Xor(0, by) = by
    BY <1>9, XorLaws, XorRearranged
  <2> QED BY <2>2, <2>3
<1> HIDE DEF t
<1>12. ~(2 * acc.el <= 2 - 1)
  BY <1>4, SMT
<1>13. Correction(acc, 2, s) = CASE discr = 0 -> [acc EXCEPT !.b = xb]
        [] discr # 0 /\ 2 * acc.el <= 2 - 1 ->
             [lambda |-> t, el |-> 2 - acc.el, b |-> Scaled(acc.lambda, Quotient(1, discr))]
        [] OTHER -> [acc EXCEPT !.lambda = t, !.b = xb]
  BY DEF Correction, discr, xb, t
<1>14. [acc EXCEPT !.b = xb].lambda = acc.lambda /\ [acc EXCEPT !.lambda = t, !.b = xb].lambda = t
  OBVIOUS
<1>15. CASE discr = 0
  <2>1. Correction(acc, 2, s).lambda = <<1, by, 0>>
    <3> DEFINE u == [acc EXCEPT !.b = xb]
               v == [acc EXCEPT !.lambda = t, !.b = xb]
               w == [lambda |-> t, el |-> 2 - acc.el, b |-> Scaled(acc.lambda, Quotient(1, discr))]
    <3>1. u.lambda = <<1, by, 0>>
      BY <1>4, <1>14
    <3>2. Correction(acc, 2, s) = CASE discr = 0 -> u
                                    [] discr # 0 /\ 2 * acc.el <= 2 - 1 -> w
                                    [] OTHER -> v
      BY <1>13
    <3> HIDE DEF u, v, w, acc
    <3> QED BY <1>12, <1>15, <3>1, <3>2
  <2> QED BY <1>11, <1>15, <2>1 DEF acc, q
<1>16. CASE discr # 0
  <2>1. Correction(acc, 2, s).lambda = t
    <3> DEFINE u == [acc EXCEPT !.b = xb]
               v == [acc EXCEPT !.lambda = t, !.b = xb]
               w == [lambda |-> t, el |-> 2 - acc.el, b |-> Scaled(acc.lambda, Quotient(1, discr))]
    <3>1. v.lambda = t
      BY <1>14
    <3>2. Correction(acc, 2, s) = CASE discr = 0 -> u
                                    [] discr # 0 /\ 2 * acc.el <= 2 - 1 -> w
                                    [] OTHER -> v
      BY <1>13
    <3> HIDE DEF u, v, w, acc
    <3> QED BY <1>12, <1>16, <3>1, <3>2
  <2> QED BY <1>10, <2>1 DEF acc, q
<1> QED BY <1>15, <1>16

\* Berlekamp-Massey ends with 1 + alpha^e x.
LEMMA LambdaIs ==
  ASSUME NEW by \in Byte, by # 0, NEW e \in 0 .. 254, NEW s, OneError(s, by, e)
  PROVE  Lambda(2, s) = <<1, Alpha(e), 0>>
<1> DEFINE One == [i \in 1 .. 2 + 1 |-> IF i = 1 THEN 1 ELSE 0]
           acc0 == [lambda |-> One, b |-> One, el |-> 0]
           rs == [r \in 1 .. 2 |-> r]
           Eq(f) == f = [n \in 0 .. Len(rs) |-> IF n = 0 THEN acc0 ELSE Correction(f[n - 1], rs[n], s)]
           run == CHOOSE f : Eq(f)
           acc1 == Correction(acc0, 1, s)
           acc2 == Correction(acc1, 2, s)
           g == [n \in 0 .. 2 |-> IF n = 0 THEN acc0 ELSE IF n = 1 THEN acc1 ELSE acc2]
<1>1. Len(rs) = 2 /\ rs[1] = 1 /\ rs[2] = 2
  OBVIOUS
<1>2. Lambda(2, s) = run[2].lambda
  BY <1>1 DEF Lambda, Fold, Correction
<1>3. One = <<1, 0, 0>>
  <2>1. One \in [1 .. 3 -> {0, 1}] /\ One[1] = 1 /\ One[2] = 0 /\ One[3] = 0
    BY SMT
  <2> HIDE DEF One
  <2> QED BY <2>1, TripleIs
<1>4. acc0 = [lambda |-> <<1, 0, 0>>, b |-> <<1, 0, 0>>, el |-> 0]
  <2> HIDE DEF One
  <2> QED BY <1>3
<1> HIDE DEF rs, acc0
<1>5. acc1 = [lambda |-> <<1, by, 0>>, el |-> 1, b |-> <<Quotient(1, by), 0, 0>>]
  BY <1>4, FirstCorrection, Zenon
<1> HIDE DEF acc1
<1>6. acc2.lambda = <<1, Alpha(e), 0>>
  BY <1>5, SecondCorrection, Zenon
<1>7. Eq(g)
  <2>1. ASSUME NEW n \in 0 .. 2 PROVE g[n] = IF n = 0 THEN acc0 ELSE Correction(g[n - 1], rs[n], s)
    <3>1. g[0] = acc0 /\ g[1] = acc1 /\ g[2] = acc2 /\ 1 - 1 = 0 /\ 2 - 1 = 1
      BY SMT
    <3>2. n = 0 \/ n = 1 \/ n = 2
      BY SMT
    <3> HIDE DEF g
    <3> QED BY <1>1, <3>1, <3>2 DEF acc1, acc2
  <2>2. g = [n \in 0 .. 2 |-> g[n]]
    OBVIOUS
  <2> HIDE DEF g
  <2> QED BY <1>1, <2>1, <2>2
<1> HIDE DEF Eq, g, acc2
<1>8. Eq(run)
  BY <1>7
<1> HIDE DEF run
<1>9. run[2] = acc2
  <2>1. \A n \in 0 .. 2 : run[n] = IF n = 0 THEN acc0 ELSE Correction(run[n - 1], rs[n], s)
    BY <1>1, <1>8 DEF Eq
  <2>2. 0 \in 0 .. 2 /\ 1 \in 0 .. 2 /\ 2 \in 0 .. 2 /\ 1 # 0 /\ 2 # 0 /\ 1 - 1 = 0 /\ 2 - 1 = 1
    BY SMT
  <2>3. run[0] = acc0 /\ run[1] = Correction(run[0], 1, s) /\ run[2] = Correction(run[1], 2, s)
    BY <1>1, <2>1, <2>2
  <2> QED BY <2>3 DEF acc1, acc2
<1> QED BY <1>2, <1>6, <1>9

\* The polynomial has one root, the place of the error.
LEMMA RootsAre ==
  ASSUME NEW e \in 0 .. 254
  PROVE  /\ Degree(<<1, Alpha(e), 0>>) = 1 /\ Roots(<<1, Alpha(e), 0>>) = {255 - e}
         /\ Derivative(<<1, Alpha(e), 0>>) = <<Alpha(e), 0>>
         /\ \A k \in Nat : Value(<<Alpha(e), 0>>, k) = Alpha(e)
<1> DEFINE X == Alpha(e)
           p == <<1, X, 0>>
<1>1. e \in Nat /\ e % 255 = e /\ NN = 255 /\ 0 % 255 = 0 /\ 255 % 255 = 0 /\ 0 \in Nat /\ 255 \in Nat
  BY SMT DEF NN
<1>2. X \in Byte /\ X # 0 /\ INDEX_OF[X] = e
  <2>1. X \in Nonzero /\ INDEX_OF[X] = e % NN
    BY <1>1, AlphaIs, LogarithmIs
  <2> QED BY <1>1, <2>1, ByteIs
<1>3. INDEX_OF[1] = 0 /\ Alpha(255) = 1
  <2>1. INDEX_OF[Alpha(0)] = 0 % NN /\ Alpha(0) = 1
    BY <1>1, AlphaIs, LogarithmIs
  <2>2. Alpha(255) = Alpha(0)
    BY <1>1 DEF Alpha
  <2> QED BY <1>1, <2>1, <2>2
<1> HIDE DEF X
<1>4. p \in [1 .. 3 -> Byte] /\ p[1] = 1 /\ p[2] = X /\ p[3] = 0
  <2>1. 1 \in Byte /\ 0 \in Byte
    BY ByteIs
  <2>2. p \in [1 .. 3 -> Byte]
    BY <1>2, <2>1, ByteTuples, Zenon
  <2> QED BY <2>2
<1>5. Degree(p) = 1
  <2> HIDE DEF p
  <2>1. {j - 1 : j \in {i \in DOMAIN p : p[i] # 0}} = {0, 1}
    <3>1. DOMAIN p = 1 .. 3
      BY <1>4
    <3>2. {i \in DOMAIN p : p[i] # 0} = {1, 2}
      <4>1. \A i \in 1 .. 3 : i = 1 \/ i = 2 \/ i = 3
        BY SMT
      <4>2. 1 \in 1 .. 3 /\ 2 \in 1 .. 3 /\ 3 \notin {1, 2} /\ 1 # 0
        BY SMT
      <4> QED BY <1>2, <1>4, <3>1, <4>1, <4>2
    <3>3. {j - 1 : j \in {1, 2}} = {0, 1}
      BY SMT
    <3> QED BY <3>2, <3>3
  <2>2. Degree(p) = Max({0, 1})
    BY <2>1 DEF Degree
  <2>3. \A x \in {0, 1} : (\A y \in {0, 1} : x >= y) <=> x = 1
    BY SMT
  <2>4. Max({0, 1}) = 1
    BY <2>3 DEF Max
  <2> QED BY <2>2, <2>4
<1>6. ASSUME NEW i \in 1 .. NN PROVE Value(p, i) = 0 <=> i = 255 - e
  <2>1. i \in Nat /\ i + i \in Nat /\ e + i \in Nat
    BY <1>1, SMT
  <2>2. Raised(X, i) \in Byte /\ Raised(X, i) = Alpha(e + i)
    BY <1>2, <2>1, RaisedIs
  <2>3. Value(p, i) = Xor(1, Raised(X, i))
    <3>1. Value(p, i) = Xor(Xor(1, Raised(X, i)), Raised(0, i + i)) /\ Raised(0, i + i) = 0
          /\ Xor(1, Raised(X, i)) \in Byte
      <4>1. 1 \in Byte /\ 0 \in Byte
        BY ByteIs
      <4>2. Value(p, i) = Xor(Xor(1, Raised(X, i)), Raised(0, i + i))
        BY <1>2, <2>1, <4>1, ValueOf3
      <4>3. Raised(0, i + i) = 0
        BY <2>1, <4>1, RaisedIs
      <4>4. Xor(1, Raised(X, i)) \in Byte
        BY <2>2, <4>1, XorLaws
      <4> QED BY <4>2, <4>3, <4>4
    <3> QED BY <3>1, XorLaws
  <2>4. Xor(1, Raised(X, i)) = 0 <=> Raised(X, i) = 1
    <3>1. 1 \in Byte
      BY ByteIs
    <3>2. Xor(1, Xor(1, Raised(X, i))) = Raised(X, i) /\ Xor(1, 0) = 1 /\ Xor(1, 1) = 0
      BY <2>2, <3>1, XorLaws, XorRearranged
    <3> QED BY <3>2
  <2>5. Alpha(e + i) = 1 => i = 255 - e
    <3> SUFFICES ASSUME Alpha(e + i) = 1 PROVE i = 255 - e
      OBVIOUS
    <3>1. INDEX_OF[Alpha(e + i)] = (e + i) % NN
      BY <2>1, LogarithmIs
    <3>2. (e + i) % 255 = 0
      BY <1>1, <1>3, <3>1
    <3>3. i \in 1 .. 255
      BY <1>1
    <3> DEFINE n == e + i
    <3>4. n \in 1 .. 509 /\ n % 255 = 0
      BY <3>2, <3>3, SMT
    <3> HIDE DEF n
    <3>5. n = 255
      <4>1. n = 255 * (n \div 255)
        BY <3>4, SMT
      <4>2. n \div 255 \in Int /\ n \div 255 > 0 /\ n \div 255 < 2
        BY <3>4, SMT
      <4> QED BY <4>1, <4>2, SMT
    <3> QED BY <3>3, <3>5, SMT DEF n
  <2>6. i = 255 - e => Alpha(e + i) = 1
    <3>1. i = 255 - e => e + i = 255
      BY SMT
    <3> QED BY <1>3, <3>1
  <2> QED BY <2>2, <2>3, <2>4, <2>5, <2>6
<1>7. Roots(p) = {255 - e}
  <2>1. 255 - e \in 1 .. NN
    BY <1>1, SMT
  <2> HIDE DEF p
  <2> QED BY <1>6, <2>1 DEF Roots
<1>8. Derivative(p) = <<X, 0>>
  <2> DEFINE d == [j \in 1 .. Len(p) - 1 |-> (j % 2) * p[j + 1]]
  <2> HIDE DEF p
  <2>1. Len(p) - 1 = 2 /\ X \in Int
    <3>1. 3 \in Nat
      OBVIOUS
    <3>2. Len(p) = 3
      BY <1>4, <3>1, TupleIsSeq
    <3>3. X \in Int
      BY <1>2, SMT DEF Byte
    <3> QED BY <3>2, <3>3
  <2>2. d = [j \in 1 .. 2 |-> (j % 2) * p[j + 1]]
    BY <2>1
  <2> HIDE DEF d
  <2>3. d[1] = X /\ d[2] = 0
    <3>1. 1 \in 1 .. 2 /\ 2 \in 1 .. 2 /\ 1 % 2 = 1 /\ 2 % 2 = 0 /\ 1 + 1 = 2 /\ 2 + 1 = 3
      BY SMT
    <3>2. d[1] = 1 * X /\ d[2] = 0 * 0
      BY <1>4, <2>2, <3>1
    <3> QED BY <2>1, <3>2, SMT
  <2>4. d \in [1 .. 2 -> Byte]
    <3>1. \A j \in 1 .. 2 : j = 1 \/ j = 2
      BY SMT
    <3>2. \A j \in 1 .. 2 : d[j] \in Byte
      BY <1>2, <2>3, <3>1, ByteIs
    <3>3. d = [j \in 1 .. 2 |-> d[j]]
      BY <2>2
    <3> QED BY <3>2, <3>3
  <2>5. Evaluated(d) = d
    <3>1. 2 \in Nat
      OBVIOUS
    <3> QED BY <2>4, <3>1, TupleIsSeq, EvaluatedIs
  <2>6. Derivative(p) = d
    BY <2>5 DEF Derivative, d
  <2> QED BY <2>3, <2>4, <2>6, PairIs
<1>9. ASSUME NEW k \in Nat PROVE Value(<<X, 0>>, k) = X
  <2>1. 0 \in Byte
    BY ByteIs
  <2>2. Value(<<X, 0>>, k) = Xor(X, Raised(0, k)) /\ Raised(0, k) = 0
    BY <1>2, <2>1, ValueOf2, RaisedIs
  <2> QED BY <1>2, <2>2, XorLaws
<1> QED BY <1>5, <1>7, <1>8, <1>9 DEF p, X

\* What is wrong there is by.
LEMMA ErrorValueIs ==
  ASSUME NEW by \in Byte, by # 0, NEW e \in 0 .. 254, NEW s, OneError(s, by, e)
  PROVE  ErrorValue(Omega(s, <<1, Alpha(e), 0>>), <<1, Alpha(e), 0>>, 255 - e) = by
<1> DEFINE X == Alpha(e)
           p == <<1, X, 0>>
           o == [j \in DOMAIN s |-> XorAll([i \in 1 .. j |-> Product(s[j - i + 1], p[i])])]
           root == 255 - e
<1>1. e \in Nat /\ root \in Nat /\ NN - root = e
  BY SMT DEF NN
<1>2. X \in Byte /\ 0 \in Byte /\ 1 \in Byte
  BY <1>1, AlphaIs, ByteIs
<1>3. s \in [1 .. 2 -> Byte] /\ s[1] = by /\ s[2] = Raised(by, e) /\ s[2] \in Byte
  BY <1>1, RaisedIs DEF OneError
<1>4. p[1] = 1 /\ p[2] = X
  OBVIOUS
<1>5. Product(by, 1) = by /\ Product(s[2], 1) = s[2] /\ Product(by, X) = Raised(by, e)
  BY <1>1, <1>3, ProductIs
<1>6. o = [j \in 1 .. 2 |-> XorAll([i \in 1 .. j |-> Product(s[j - i + 1], p[i])])]
  BY <1>3
<1> HIDE DEF X, p, root
<1>7. o[1] = by
  <2> DEFINE a == [i \in 1 .. 1 |-> Product(s[1 - i + 1], p[i])]
  <2>1. o[1] = XorAll(a)
    <3>1. 1 \in 1 .. 2
      BY SMT
    <3> HIDE DEF o
    <3> QED BY <1>6, <3>1
  <2>2. a = [i \in 1 .. 1 |-> a[i]] /\ a[1] = Product(s[1], p[1]) /\ \A i \in 1 .. 1 : i = 1
    BY SMT
  <2> HIDE DEF a
  <2>3. a[1] = by
    BY <1>3, <1>4, <1>5, <2>2
  <2>4. a \in [1 .. 1 -> Byte]
    BY <2>2, <2>3
  <2> QED BY <2>1, <2>3, <2>4, SumOf1
<1>8. o[2] = 0
  <2> DEFINE a == [i \in 1 .. 2 |-> Product(s[2 - i + 1], p[i])]
  <2>1. o[2] = XorAll(a)
    <3>1. 2 \in 1 .. 2
      BY SMT
    <3> HIDE DEF o
    <3> QED BY <1>6, <3>1
  <2>2. a = [i \in 1 .. 2 |-> a[i]] /\ a[1] = Product(s[2], p[1]) /\ a[2] = Product(s[1], p[2])
        /\ \A i \in 1 .. 2 : i = 1 \/ i = 2
    <3>1. 1 \in 1 .. 2 /\ 2 \in 1 .. 2 /\ 2 - 1 + 1 = 2 /\ 2 - 2 + 1 = 1 /\ \A i \in 1 .. 2 : i = 1 \/ i = 2
      BY SMT
    <3> QED BY <3>1
  <2> HIDE DEF a
  <2>3. a[1] = s[2] /\ a[2] = s[2]
    BY <1>3, <1>4, <1>5, <2>2
  <2>4. a \in [1 .. 2 -> Byte]
    BY <1>3, <2>2, <2>3
  <2>5. XorAll(a) = Xor(s[2], s[2])
    BY <2>3, <2>4, SumOf2
  <2> QED BY <1>3, <2>1, <2>5, XorLaws
<1>9. Omega(s, p) = <<by, 0>>
  <2>1. o \in [1 .. 2 -> Byte]
    <3> HIDE DEF o
    <3>1. \A j \in 1 .. 2 : j = 1 \/ j = 2
      BY SMT
    <3>2. \A j \in 1 .. 2 : o[j] \in Byte
      BY <1>2, <1>7, <1>8, <3>1
    <3>3. o = [j \in 1 .. 2 |-> o[j]]
      BY <1>6
    <3> QED BY <3>2, <3>3
  <2>2. Omega(s, p) = Evaluated(o)
    BY DEF Omega
  <2> HIDE DEF o
  <2>3. Evaluated(o) = o
    <3>1. 2 \in Nat
      OBVIOUS
    <3> QED BY <2>1, <3>1, TupleIsSeq, EvaluatedIs
  <2> QED BY <1>7, <1>8, <2>1, <2>2, <2>3, PairIs
<1>10. Value(<<by, 0>>, root) = by
  <2>1. Value(<<by, 0>>, root) = Xor(by, Raised(0, root)) /\ Raised(0, root) = 0
    BY <1>1, <1>2, ValueOf2, RaisedIs
  <2> QED BY <2>1, XorLaws
<1>11. Value(Derivative(p), root) = X
  <2>1. Derivative(p) = <<X, 0>> /\ Value(<<X, 0>>, root) = X
    BY <1>1, RootsAre, Zenon DEF p, X
  <2> QED BY <2>1
<1>12. ErrorValue(Omega(s, p), p, root) = Quotient(Raised(by, e), X)
  BY <1>1, <1>9, <1>10, <1>11 DEF ErrorValue
<1> QED BY <1>12, QuotientsAre DEF p, X, root

-----------------------------------------------------------------------------
(* A header's block with its two octets of parity, one octet damaged.        *)
LEMMA SyndromesAre ==
  ASSUME NEW N \in Nat, NEW block \in [1 .. N -> Byte], NEW at \in 1 .. N + 2, NEW by \in Byte
  PROVE  OneError(Syndromes(2, Damaged(block \o encode_rs_char(2, block), at, by)), by, (N + 2) - at)
<1> DEFINE word == block \o encode_rs_char(2, block)
           v == Damaged(word, at, by)
           M == N + 2
           e == M - at
           s == [i \in 1 .. 2 |-> Value(Reverse(v), i - 1)]
<1>1. M \in Nat /\ e \in Nat /\ at \in 1 .. M /\ 0 \in {0, 1} /\ 1 \in {0, 1} /\ 0 \in Nat /\ 1 \in Nat
      /\ e * 0 = 0 /\ e * 1 = e
  BY SMT
<1>2. word \in [1 .. M -> Byte]
  <2>1. block \in Seq(Byte) /\ Len(block) = N
    BY TupleIsSeq
  <2> DEFINE parity == encode_rs_char(2, block)
  <2>2. parity \in Seq(Byte) /\ Len(parity) = 2
    <3>1. 2 \in Nat /\ parity \in [1 .. 2 -> Byte]
      BY ParityMakesZero
    <3> HIDE DEF parity
    <3> QED BY <3>1, TupleIsSeq
  <2> HIDE DEF parity
  <2>3. block \o parity \in Seq(Byte) /\ Len(block \o parity) = M
    <3>1. block \o parity \in Seq(Byte) /\ Len(block \o parity) = Len(block) + Len(parity)
      BY <2>1, <2>2, ConcatProperties
    <3> QED BY <2>1, <2>2, <3>1
  <2>4. word \in Seq(Byte) /\ Len(word) = M
    BY <2>3 DEF parity
  <2> HIDE DEF word
  <2>5. word \in [1 .. Len(word) -> Byte]
    BY <2>4, LenProperties
  <2> QED BY <2>4, <2>5
<1> HIDE DEF M
<1>3. ASSUME NEW k \in {0, 1}, NEW H, HornerRun(H, word, M, k) PROVE H[M] = 0
  BY <1>3, ParityMakesZero DEF M
<1> HIDE DEF word
<1>4. v \in [1 .. M -> Byte]
  <2>1. Xor(word[at], by) \in Byte
    BY <1>1, <1>2, XorLaws
  <2> QED BY <1>2, <2>1 DEF Damaged
<1>5. ASSUME NEW k \in {0, 1} PROVE Value(Reverse(v), k) = Raised(by, e * k)
  <2>1. k \in Nat /\ e * k \in Nat
    BY <1>1, SMT
  <2>2. PICK H : HornerRun(H, word, M, k)
    BY <1>1, <1>2, <2>1, HornerRuns
  <2>3. PICK G : HornerRun(G, v, M, k)
    <3> HIDE DEF v
    <3> QED BY <1>1, <1>4, <2>1, HornerRuns
  <2>4. Value(Reverse(v), k) = G[M]
    <3> HIDE DEF v
    <3> QED BY <1>1, <1>4, <2>3, ValueIs
  <2>5. G[M] = Xor(H[M], Raised(by, e * k))
    BY <1>1, <1>2, <2>2, <2>3, DamageShows
  <2>6. H[M] = 0 /\ Raised(by, e * k) \in Byte
    BY <1>3, <2>1, <2>2, RaisedIs
  <2> QED BY <2>4, <2>5, <2>6, XorLaws
<1> HIDE DEF v, e
<1>6. s[1] = Raised(by, 0) /\ s[2] = Raised(by, e)
  <2>1. 1 \in 1 .. 2 /\ 2 \in 1 .. 2 /\ 1 - 1 = 0 /\ 2 - 1 = 1
    BY SMT
  <2>2. s[1] = Value(Reverse(v), 0) /\ s[2] = Value(Reverse(v), 1)
    BY <2>1
  <2> HIDE DEF s
  <2> QED BY <1>1, <1>5, <2>2
<1>7. s[1] = by /\ s[2] \in Byte
  <2> HIDE DEF s
  <2> QED BY <1>1, <1>6, RaisedIs
<1>8. s \in [1 .. 2 -> Byte]
  <2>1. s = [i \in 1 .. 2 |-> s[i]] /\ \A i \in 1 .. 2 : i = 1 \/ i = 2
    BY SMT
  <2> HIDE DEF s
  <2> QED BY <1>7, <2>1
<1>9. Syndromes(2, v) = s
  <2> DEFINE y == Syndromes(2, v)
  <2>1. y = Evaluated(s)
    BY DEF Syndromes
  <2> HIDE DEF s, y
  <2>2. Evaluated(s) = s
    <3>1. 2 \in Nat
      OBVIOUS
    <3> QED BY <1>8, <3>1, TupleIsSeq, EvaluatedIs
  <2> QED BY <2>1, <2>2 DEF y
<1> HIDE DEF s
<1>10. OneError(Syndromes(2, v), by, e)
  BY <1>6, <1>7, <1>8, <1>9 DEF OneError
<1> QED BY <1>10 DEF v, word, e, M

\* The decoder finds the octet and takes the error out again.
LEMMA ErrorIsRepaired ==
  ASSUME NEW L \in 1 .. 255, NEW word \in [1 .. L -> Byte], NEW at \in 1 .. L, NEW by \in Byte, NEW s,
         OneError(s, by, L - at)
  PROVE  LET d == Decode(2, Damaged(word, at, by), s)
         IN  d.data = word /\ d.count \in Nat /\ d.loc \subseteq {at}
<1> DEFINE e == L - at
           v == Damaged(word, at, by)
           lambda == Lambda(2, s)
           omega == Omega(s, lambda)
           roots == Roots(lambda)
           k(i) == i - (NN - Len(v))
           d == Decode(2, v, s)
           none == [count |-> 0, loc |-> {}, data |-> v]
           some == [count |-> IF \/ Cardinality(roots) # Degree(lambda)
                                 \/ \E i \in roots : Value(Derivative(lambda), i) = 0
                              THEN -1 ELSE Cardinality(roots),
                    loc |-> {k(i) : i \in roots},
                    data |-> [j \in DOMAIN v |->
                                IF \E i \in roots : k(i) = j
                                  THEN Xor(v[j], ErrorValue(omega, lambda, j + NN - Len(v)))
                                  ELSE v[j]]]
<1>1. e \in 0 .. 254 /\ L \in Nat /\ NN = 255 /\ 255 - e \in Nat
  BY SMT DEF NN
<1>2. d = CASE \A i \in DOMAIN s : s[i] = 0 -> none [] OTHER -> some
  BY DEF Decode, Located, Repaired
<1>3. v \in [1 .. L -> Byte] /\ v[at] = Xor(word[at], by) /\ word[at] \in Byte
  BY XorLaws DEF Damaged
<1>4. \A j \in 1 .. L : j # at => v[j] = word[j]
  BY DEF Damaged
<1>5. Len(v) = L
  <2> HIDE DEF v
  <2> QED BY <1>1, <1>3, TupleIsSeq
<1> HIDE DEF v, d
<1>6. OneError(s, by, e)
  OBVIOUS
<1>7. DOMAIN s = 1 .. 2 /\ s[1] = by /\ s[2] = Raised(by, e)
  BY <1>6 DEF OneError
<1> HIDE DEF e
<1>8. CASE by = 0
  <2>1. \A i \in DOMAIN s : s[i] = 0
    <3>1. \A i \in 1 .. 2 : i = 1 \/ i = 2
      BY SMT
    <3>2. s[1] = 0 /\ s[2] = 0
      BY <1>7, <1>8 DEF Raised
    <3> QED BY <1>7, <3>1, <3>2
  <2> HIDE DEF some
  <2>2. d = none
    BY <1>2, <2>1
  <2>3. v = word
    <3>1. v[at] = word[at]
      BY <1>3, <1>8, XorLaws
    <3>2. \A j \in 1 .. L : v[j] = word[j]
      BY <1>4, <3>1
    <3> QED BY <1>3, <3>2
  <2>4. none.data = v /\ none.count = 0 /\ none.loc = {}
    OBVIOUS
  <2> HIDE DEF none
  <2>5. d.data = word /\ d.count \in Nat /\ d.loc \subseteq {at}
    BY <2>2, <2>3, <2>4
  <2> QED BY <2>5 DEF d, v
<1>9. CASE by # 0
  <2>1. ~ \A i \in DOMAIN s : s[i] = 0
    <3>1. 1 \in 1 .. 2
      BY SMT
    <3> QED BY <1>7, <1>9, <3>1
  <2>2. d = some
    <3> HIDE DEF none, some
    <3> QED BY <1>2, <2>1
  <2>3. lambda = <<1, Alpha(e), 0>>
    BY <1>1, <1>6, <1>9, LambdaIs
  <2>4. roots = {255 - e} /\ Degree(lambda) = 1 /\ Alpha(e) # 0
    <3>1. e \in Nat
      BY <1>1, SMT
    <3>2. Roots(<<1, Alpha(e), 0>>) = {255 - e} /\ Degree(<<1, Alpha(e), 0>>) = 1
      BY <1>1, RootsAre, Zenon
    <3>3. Alpha(e) # 0
      BY <3>1, AlphaIs, ByteIs
    <3> QED BY <2>3, <3>2, <3>3
  <2>5. Value(Derivative(lambda), 255 - e) = Alpha(e)
    <3>1. Derivative(<<1, Alpha(e), 0>>) = <<Alpha(e), 0>> /\ Value(<<Alpha(e), 0>>, 255 - e) = Alpha(e)
      BY <1>1, RootsAre, Zenon
    <3> QED BY <2>3, <3>1
  <2>6. ErrorValue(omega, lambda, 255 - e) = by
    BY <1>1, <1>6, <1>9, <2>3, ErrorValueIs
  <2> HIDE DEF lambda, omega, roots
  <2>7. k(255 - e) = at /\ at + NN - Len(v) = 255 - e /\ at \in 1 .. L
    BY <1>1, <1>5, SMT DEF e
  <2>8. Cardinality(roots) = 1
    BY <2>4, FS_Singleton
  <2>9. some.count = 1
    BY <2>4, <2>5, <2>8
  <2>10. some.loc = {at}
    BY <2>4, <2>7
  <2>11. some.data = word
    <3> DEFINE r == [j \in DOMAIN v |->
                       IF \E i \in roots : k(i) = j
                         THEN Xor(v[j], ErrorValue(omega, lambda, j + NN - Len(v)))
                         ELSE v[j]]
    <3>1. some.data = r
      OBVIOUS
    <3>2. DOMAIN v = 1 .. L
      BY <1>3
    <3>3. ASSUME NEW j \in 1 .. L PROVE r[j] = word[j]
      <4>1. (\E i \in roots : k(i) = j) <=> j = at
        BY <2>4, <2>7
      <4>2. CASE j = at
        <5>1. r[j] = Xor(v[at], by)
          BY <2>6, <2>7, <3>2, <4>1, <4>2
        <5> QED BY <1>3, <4>2, <5>1, XorRearranged
      <4>3. CASE j # at
        <5>1. r[j] = v[j]
          BY <3>2, <4>1, <4>3
        <5> QED BY <1>4, <4>3, <5>1
      <4> QED BY <4>2, <4>3
    <3>4. r = [j \in 1 .. L |-> r[j]]
      BY <3>2
    <3> HIDE DEF r
    <3>5. r = word
      BY <3>3, <3>4
    <3> QED BY <3>1, <3>5
  <2> HIDE DEF some
  <2>12. d.data = word /\ d.count \in Nat /\ d.loc \subseteq {at}
    BY <2>2, <2>9, <2>10, <2>11
  <2> QED BY <2>12 DEF d, v
<1> QED BY <1>8, <1>9

Restores(d, block) == d.derrors \in Nat /\ d.out = block
Repairs(block, parity) ==
  /\ parity \in [1 .. 2 -> Byte]
  /\ \A at \in 1 .. 15, by \in Byte :
       Restores(il2p_decode_rs(Damaged(block \o parity, at, by), IL2P_HEADER_PARITY), block)

\* A header with its parity is repaired whichever of its octets is damaged, and however.
THEOREM HeaderRepaired ==
  ASSUME NEW block \in [1 .. 13 -> Byte]
  PROVE  Repairs(block, il2p_encode_rs(block, IL2P_HEADER_PARITY))
<1> DEFINE parity == encode_rs_char(2, block)
           word == block \o parity
<1>1. IL2P_HEADER_PARITY = 2 /\ 13 \in Nat /\ 13 + 2 = 15 /\ 15 \in 1 .. 255
  BY SMT DEF IL2P_HEADER_PARITY
<1>2. il2p_encode_rs(block, 2) = parity
  BY DEF il2p_encode_rs
<1>3. parity \in [1 .. 2 -> Byte]
  BY <1>1, ParityMakesZero
<1>4. word \in [1 .. 15 -> Byte] /\ \A i \in 1 .. 13 : word[i] = block[i]
  <2>1. block \in Seq(Byte) /\ Len(block) = 13
    <3>1. 13 \in Nat
      BY <1>1
    <3> HIDE DEF parity, word
    <3> QED BY <3>1, TupleIsSeq
  <2>2. parity \in Seq(Byte) /\ Len(parity) = 2
    <3>1. 2 \in Nat
      OBVIOUS
    <3> HIDE DEF parity
    <3> QED BY <1>3, <3>1, TupleIsSeq
  <2> HIDE DEF parity
  <2>3. /\ word \in Seq(Byte) /\ Len(word) = Len(block) + Len(parity)
        /\ \A i \in 1 .. Len(block) + Len(parity) :
             word[i] = IF i <= Len(block) THEN block[i] ELSE parity[i - Len(block)]
    BY <2>1, <2>2, ConcatProperties
  <2> HIDE DEF word
  <2>4. Len(word) = 15
    BY <1>1, <2>1, <2>2, <2>3
  <2>5. word \in [1 .. Len(word) -> Byte]
    BY <2>3, LenProperties
  <2>6. ASSUME NEW i \in 1 .. 13 PROVE word[i] = block[i]
    <3>1. i \in 1 .. 15 /\ i <= 13
      BY SMT
    <3> QED BY <1>1, <2>1, <2>2, <2>3, <3>1
  <2> QED BY <2>4, <2>5, <2>6
<1>5. ASSUME NEW at \in 1 .. 15, NEW by \in Byte
      PROVE  Restores(il2p_decode_rs(Damaged(word, at, by), 2), block)
  <2> DEFINE v == Damaged(word, at, by)
             s == Syndromes(2, v)
             d == Decode(2, v, s)
             w == WithoutParity(v, 2, d)
  <2>1. OneError(s, by, 15 - at)
    BY <1>1, SyndromesAre
  <2> HIDE DEF s, word, parity
  <2>2. d.data = word /\ d.count \in Nat /\ d.loc \subseteq {at}
    BY <1>1, <1>4, <2>1, ErrorIsRepaired, Zenon
  <2>3. il2p_decode_rs(v, 2) = w
    BY DEF il2p_decode_rs, decode_rs_char, s
  <2>4. DOMAIN v = 1 .. 15 /\ v \in [1 .. 15 -> Byte]
    <3>1. Xor(word[at], by) \in Byte
      BY <1>4, XorLaws
    <3> QED BY <1>4, <3>1 DEF Damaged
  <2>5. Len(v) = 15
    <3>1. 15 \in Nat
      OBVIOUS
    <3> HIDE DEF v
    <3> QED BY <2>4, <3>1, TupleIsSeq
  <2> HIDE DEF v, d
  <2>6. w.derrors \in Nat
    <3>1. w.derrors = IF \A k \in d.loc : k \in DOMAIN v THEN d.count ELSE -1
      BY DEF WithoutParity
    <3>2. \A k \in d.loc : k \in DOMAIN v
      BY <2>2, <2>4
    <3> HIDE DEF w
    <3> QED BY <2>2, <3>1, <3>2
  <2>7. w.out = SubSeq(word, 1, 13)
    <3>1. w.out = SubSeq(d.data, 1, Len(v) - 2)
      BY DEF WithoutParity
    <3>2. Len(v) - 2 = 13
      BY <2>5
    <3> HIDE DEF w
    <3> QED BY <2>2, <3>1, <3>2
  <2>8. SubSeq(word, 1, 13) = block
    <3> DEFINE o == SubSeq(word, 1, 13)
    <3>1. \A i \in 1 .. 13 : word[i] \in Byte
      BY <1>4
    <3>2. 1 \in Int /\ 13 \in Int /\ 1 <= 13 /\ 13 - 1 + 1 = 13 /\ \A i \in 1 .. 13 : 1 + i - 1 = i
      BY SMT
    <3>3. o \in Seq(Byte) /\ Len(o) = 13 /\ \A i \in 1 .. 13 : o[i] = word[i]
      <4>1. /\ o \in Seq(Byte) /\ Len(o) = IF 1 <= 13 THEN 13 - 1 + 1 ELSE 0
            /\ \A i \in 1 .. 13 - 1 + 1 : o[i] = word[1 + i - 1]
        BY <3>1, <3>2, SubSeqProperties
      <4> HIDE DEF o
      <4> QED BY <3>2, <4>1
    <3> HIDE DEF o
    <3>4. block \in Seq(Byte) /\ Len(block) = 13
      <4>1. 13 \in Nat
        BY <1>1
      <4> QED BY <4>1, TupleIsSeq
    <3>5. o = block
      BY <1>4, <3>3, <3>4, SeqEqual
    <3> QED BY <3>5 DEF o
  <2>9. Restores(il2p_decode_rs(v, 2), block)
    BY <2>3, <2>6, <2>7, <2>8 DEF Restores
  <2> QED BY <2>9 DEF v
<1> HIDE DEF parity
<1> QED BY <1>1, <1>2, <1>3, <1>5 DEF Repairs

-----------------------------------------------------------------------------
(* The header on the air.                                                    *)

\* The receiver gets the header that was sent.
Arrives(c, hdr) == c.e \in Nat /\ c.hdr = hdr

\* A header goes over the air, one of its octets damaged or none.
LEMMA HeaderArrives ==
  ASSUME NEW hdr \in [1 .. 13 -> Byte], NEW at \in DamagedAt, NEW by \in DamagedBy
  PROVE  Arrives(il2p_clarify_header([OctetsOf(SentHeader(hdr)) EXCEPT ![at] = Xor(@, by)]), hdr)
<1> DEFINE bits == BitsOf(hdr)
           x == il2p_scramble_block(bits)
           block == OctetsOf(x)
           parity == il2p_encode_rs(block, IL2P_HEADER_PARITY)
           word == block \o parity
           d == il2p_decode_rs([word EXCEPT ![at] = Xor(@, by)], IL2P_HEADER_PARITY)
<1>1. hdr \in Seq(Byte) /\ Len(hdr) = 13
  <2>1. 13 \in Nat
    OBVIOUS
  <2> QED BY <2>1, TupleIsSeq
<1>2. bits \in Seq(Bit) /\ Len(bits) = 8 * 13
  BY <1>1, BitsOfIs DEF BitsAreOf
<1>3. OctetsOf(bits) = hdr
  BY <1>1, OctetsBack
<1> HIDE DEF bits
<1>4. x \in Seq(Bit) /\ Len(x) = 8 * 13 /\ il2p_descramble_block(x) = bits
  BY <1>2, DescramblerUndoes
<1> HIDE DEF x
<1>5. block \in Seq(Byte) /\ Len(block) = 13 /\ BitsOf(block) = x
  <2>1. 13 \in Nat
    OBVIOUS
  <2> QED BY <1>4, <2>1, BitsBack
<1>6. SentHeader(hdr) = BitsOf(word)
  BY DEF SentHeader, block, x, bits
<1> HIDE DEF block
<1>7. block \in [1 .. 13 -> Byte]
  <2>1. block \in [1 .. Len(block) -> Byte]
    BY <1>5, LenProperties
  <2> QED BY <1>5, <2>1
<1>8. parity \in [1 .. 2 -> Byte] /\ d.derrors \in Nat /\ d.out = block
  <2>1. Repairs(block, parity)
    BY <1>7, HeaderRepaired
  <2>2. at \in 1 .. 15 /\ by \in Byte
    BY CodecAssumption DEF Byte
  <2> HIDE DEF parity
  <2>3. Restores(il2p_decode_rs(Damaged(word, at, by), IL2P_HEADER_PARITY), block)
    BY <2>1, <2>2 DEF Repairs
  <2>4. Damaged(word, at, by) = [word EXCEPT ![at] = Xor(@, by)]
    BY DEF Damaged
  <2>5. Restores(d, block)
    BY <2>3, <2>4
  <2> HIDE DEF d, word
  <2> QED BY <2>1, <2>5 DEF Repairs, Restores
<1>9. word \in Seq(Byte)
  <2>1. 2 \in Nat
    OBVIOUS
  <2> HIDE DEF parity
  <2>2. parity \in Seq(Byte)
    BY <1>8, <2>1, TupleIsSeq
  <2> QED BY <1>5, <2>2, ConcatProperties
<1>10. OctetsOf(SentHeader(hdr)) = word
  BY <1>6, <1>9, OctetsBack
<1> DEFINE c == il2p_clarify_header([OctetsOf(SentHeader(hdr)) EXCEPT ![at] = Xor(@, by)])
<1>11. c = Descrambled(d)
  BY <1>10 DEF il2p_clarify_header
<1> HIDE DEF c, d
<1>12. c.e = d.derrors /\ c.hdr = OctetsOf(il2p_descramble_block(BitsOf(d.out)))
  BY <1>11 DEF Descrambled
<1>13. c.hdr = hdr
  BY <1>3, <1>4, <1>5, <1>8, <1>12
<1> QED BY <1>8, <1>12, <1>13 DEF Arrives, c

-----------------------------------------------------------------------------
(* Names and addresses.                                                      *)

\* The largest of a set, and the smallest.
LEMMA MaxIs ==
  ASSUME NEW s \in SUBSET Int, NEW m \in s, \A y \in s : m >= y
  PROVE  Max(s) = m
<1>1. \A x \in s : (\A y \in s : x >= y) => x = m
  BY SMT
<1> QED BY <1>1 DEF Max

LEMMA MinIs ==
  ASSUME NEW s \in SUBSET Int, NEW m \in s, \A y \in s : m <= y
  PROVE  Min(s) = m
<1>1. \A x \in s : (\A y \in s : x <= y) => x = m
  BY SMT
<1> QED BY <1>1 DEF Min

\* The first m characters of a name.
Cut(name, m) == [i \in 1 .. m |-> name[i]]

\* SubSeq cuts.
LEMMA SubSeqIsCut ==
  ASSUME NEW name, NEW m \in Nat
  PROVE  SubSeq(name, 1, m) = Cut(name, m)
<1>1. m - 1 + 1 = m /\ \A i \in 1 .. m : i + 1 - 1 = i
  BY SMT
<1> QED BY <1>1 DEF SubSeq, Cut

\* It leaves m characters.
LEMMA CutIs ==
  ASSUME NEW S, NEW n \in Nat, NEW name \in [1 .. n -> S], NEW m \in 0 .. n
  PROVE  /\ Cut(name, m) \in [1 .. m -> S] /\ Len(Cut(name, m)) = m /\ DOMAIN Cut(name, m) = 1 .. m
<1>1. m \in Nat /\ \A i \in 1 .. m : i \in 1 .. n
  BY SMT
<1>3. Cut(name, m) \in [1 .. m -> S]
  BY <1>1 DEF Cut
<1>4. Len(Cut(name, m)) = m
  BY <1>1, <1>3, TupleIsSeq
<1> QED BY <1>3, <1>4

\* Where a name of l characters ends that may have blanks behind it.
Trimmed(name, l, m) ==
  /\ m \in 0 .. l /\ (m > 0 => name[m] # Blank)
  /\ \A i \in m + 1 .. l : name[i] = Blank

\* There is such a place.
LEMMA TrimmedAt ==
  ASSUME NEW name, DOMAIN name = 1 .. 6
  PROVE  \E m : Trimmed(name, 6, m)
<1>1. CASE name[6] # Blank
  <2>1. Trimmed(name, 6, 6)
    BY <1>1, SMT DEF Trimmed
  <2> QED BY <2>1
<1>2. CASE name[6] = Blank /\ name[5] # Blank
  <2>1. Trimmed(name, 6, 5)
    BY <1>2, SMT DEF Trimmed
  <2> QED BY <2>1
<1>3. CASE name[6] = Blank /\ name[5] = Blank /\ name[4] # Blank
  <2>1. Trimmed(name, 6, 4)
    BY <1>3, SMT DEF Trimmed
  <2> QED BY <2>1
<1>4. CASE name[6] = Blank /\ name[5] = Blank /\ name[4] = Blank /\ name[3] # Blank
  <2>1. Trimmed(name, 6, 3)
    BY <1>4, SMT DEF Trimmed
  <2> QED BY <2>1
<1>5. CASE /\ name[6] = Blank /\ name[5] = Blank /\ name[4] = Blank /\ name[3] = Blank
           /\ name[2] # Blank
  <2>1. Trimmed(name, 6, 2)
    BY <1>5, SMT DEF Trimmed
  <2> QED BY <2>1
<1>6. CASE /\ name[6] = Blank /\ name[5] = Blank /\ name[4] = Blank /\ name[3] = Blank
           /\ name[2] = Blank /\ name[1] # Blank
  <2>1. Trimmed(name, 6, 1)
    BY <1>6, SMT DEF Trimmed
  <2> QED BY <2>1
<1>7. CASE /\ name[6] = Blank /\ name[5] = Blank /\ name[4] = Blank /\ name[3] = Blank
           /\ name[2] = Blank /\ name[1] = Blank
  <2>1. Trimmed(name, 6, 0)
    BY <1>7, SMT DEF Trimmed
  <2> QED BY <2>1
<1> QED BY <1>1, <1>2, <1>3, <1>4, <1>5, <1>6, <1>7

\* WithoutBlanks cuts there.
LEMMA WithoutBlanksIs ==
  ASSUME NEW S, NEW l \in Nat, NEW name \in [1 .. l -> S], NEW m, Trimmed(name, l, m)
  PROVE  WithoutBlanks(name) = Cut(name, m)
<1> DEFINE s == {0} \cup {i \in DOMAIN name : name[i] # Blank}
<1>1. m \in 0 .. l /\ DOMAIN name = 1 .. l
  BY DEF Trimmed
<1>2. m \in s
  <2>1. m = 0 \/ (m \in 1 .. l /\ m > 0)
    BY <1>1, SMT
  <2> QED BY <1>1, <2>1 DEF Trimmed
<1>3. ASSUME NEW y \in s PROVE m >= y /\ y \in Int
  <2>1. CASE y = 0
    BY <1>1, <2>1, SMT
  <2>2. CASE y \in 1 .. l /\ name[y] # Blank
    <3>1. ~(y \in m + 1 .. l)
      BY <2>2 DEF Trimmed
    <3> QED BY <1>1, <2>2, <3>1, SMT
  <2> QED BY <1>1, <2>1, <2>2
<1>4. Max(s) = m
  <2>1. s \in SUBSET Int
    BY <1>3
  <2> HIDE DEF s
  <2> QED BY <1>2, <1>3, <2>1, MaxIs
<1>5. SubSeq(name, 1, m) = Cut(name, m)
  <2>1. m \in Nat
    BY <1>1, SMT
  <2> QED BY <2>1, SubSeqIsCut
<1> QED BY <1>4, <1>5 DEF WithoutBlanks

\* The string in a name of m characters.
Ended(name, m, k) ==
  /\ k \in 0 .. m /\ \A i \in 1 .. k : name[i] # NUL
  /\ k < m => name[k + 1] = NUL

\* CString cuts there.
LEMMA CStringIs ==
  ASSUME NEW S, NEW m \in Nat, NEW name \in [1 .. m -> S], NEW k, Ended(name, m, k)
  PROVE  CString(name) = Cut(name, k)
<1> DEFINE s == {Len(name) + 1} \cup {i \in DOMAIN name : name[i] = NUL}
<1>1. k \in 0 .. m /\ DOMAIN name = 1 .. m /\ Len(name) = m
  BY TupleIsSeq DEF Ended
<1>2. k + 1 \in s
  <2>1. k = m \/ (k < m /\ k + 1 \in 1 .. m)
    BY <1>1, SMT
  <2> QED BY <1>1, <2>1 DEF Ended
<1>3. ASSUME NEW y \in s PROVE k + 1 <= y /\ y \in Int
  <2>1. CASE y = m + 1
    BY <1>1, <2>1, SMT
  <2>2. CASE y \in 1 .. m /\ name[y] = NUL
    <3>1. ~(y \in 1 .. k)
      BY <2>2 DEF Ended
    <3> QED BY <1>1, <2>2, <3>1, SMT
  <2> QED BY <1>1, <2>1, <2>2
<1>4. Min(s) = k + 1
  <2>1. s \in SUBSET Int
    BY <1>3
  <2> HIDE DEF s
  <2> QED BY <1>2, <1>3, <2>1, MinIs
<1>5. (k + 1) - 1 = k
  BY <1>1, SMT
<1>6. SubSeq(name, 1, k) = Cut(name, k)
  <2>1. k \in Nat
    BY <1>1, SMT
  <2> QED BY <2>1, SubSeqIsCut
<1> QED BY <1>4, <1>5, <1>6 DEF CString

\* A string that fits into an address.
Text(name) ==
  /\ Len(name) \in 0 .. 6 /\ name \in [1 .. Len(name) -> Nat]
  /\ \A i \in 1 .. Len(name) : name[i] # NUL

\* One that is as it was when it comes out of an address again: no blank behind.
NameOf(name) == Text(name) /\ (Len(name) > 0 => name[Len(name)] # Blank)

\* A name in an address, filled up with blanks.
Padded(name) == [i \in 1 .. 6 |-> IF i <= Len(name) THEN name[i] ELSE Blank]

\* Filled up and cut again it is the same.
LEMMA PaddedBack ==
  ASSUME NEW name, NameOf(name)
  PROVE  WithoutBlanks(Padded(name)) = name /\ CString(name) = name
<1> DEFINE m == Len(name)
           p == Padded(name)
<1>1. m \in 0 .. 6 /\ m \in Nat /\ name \in [1 .. m -> Nat]
  <2>1. m \in 0 .. 6 /\ name \in [1 .. m -> Nat]
    BY DEF NameOf, Text
  <2>2. m \in Nat
    BY <2>1, SMT
  <2> QED BY <2>1, <2>2
<1>2. p \in [1 .. 6 -> Nat] /\ \A i \in 1 .. 6 : p[i] = IF i <= m THEN name[i] ELSE Blank
  <2>1. \A i \in 1 .. 6 : i <= m => i \in 1 .. m
    BY <1>1, SMT
  <2> QED BY <1>1, <2>1 DEF Padded, Blank
<1>3. Cut(name, m) = name
  BY <1>1 DEF Cut
<1>4. Trimmed(p, 6, m)
  <2>1. m > 0 => m \in 1 .. 6 /\ m <= m
    BY <1>1, SMT
  <2>2. \A i \in m + 1 .. 6 : i \in 1 .. 6 /\ ~(i <= m)
    BY <1>1, SMT
  <2> HIDE DEF m, p
  <2>3. m > 0 => name[m] # Blank
    BY DEF NameOf, m
  <2> QED BY <1>1, <1>2, <2>1, <2>2, <2>3 DEF Trimmed
<1>5. Cut(p, m) = Cut(name, m)
  <2>1. \A i \in 1 .. m : i \in 1 .. 6 /\ i <= m
    BY <1>1, SMT
  <2> HIDE DEF m, p
  <2> QED BY <1>2, <2>1 DEF Cut
<1>6. WithoutBlanks(p) = name
  <2> HIDE DEF m, p
  <2>1. 6 \in Nat
    BY SMT
  <2> QED BY <1>2, <1>3, <1>4, <1>5, <2>1, WithoutBlanksIs
<1>7. Ended(name, m, m)
  <2>1. m \in 0 .. m /\ ~(m < m)
    BY <1>1, SMT
  <2> QED BY <2>1 DEF Ended, NameOf, Text
<1>8. CString(name) = name
  <2> HIDE DEF m, p
  <2> QED BY <1>1, <1>3, <1>7, CStringIs
<1> QED BY <1>6, <1>8

\* Filled up with blanks, a string ends where it does without those it has.
LEMMA PaddedText ==
  ASSUME NEW name, Text(name)
  PROVE  NameOf(WithoutBlanks(name)) /\ WithoutBlanks(Padded(name)) = WithoutBlanks(name)
<1> DEFINE l == Len(name)
           p == Padded(name)
<1>1. l \in 0 .. 6 /\ l \in Nat /\ 6 \in Nat /\ name \in [1 .. l -> Nat]
  <2>1. l \in 0 .. 6 /\ name \in [1 .. l -> Nat]
    BY DEF Text
  <2>2. l \in Nat /\ 6 \in Nat
    BY <2>1, SMT
  <2> QED BY <2>1, <2>2
<1>2. p \in [1 .. 6 -> Nat] /\ \A i \in 1 .. 6 : p[i] = IF i <= l THEN name[i] ELSE Blank
  <2>1. \A i \in 1 .. 6 : i <= l => i \in 1 .. l
    BY <1>1, SMT
  <2> QED BY <1>1, <2>1 DEF Padded, Blank
<1> HIDE DEF l, p
<1>3. PICK m : Trimmed(p, 6, m)
  <2>1. DOMAIN p = 1 .. 6
    BY <1>2
  <2> QED BY <2>1, TrimmedAt
<1>4. m \in 0 .. 6 /\ m \in Nat
  BY <1>3, SMT DEF Trimmed
<1>5. m \in 0 .. l
  <2>1. CASE m > l
    <3>1. m \in 1 .. 6 /\ ~(m <= l) /\ m > 0
      BY <1>1, <1>4, <2>1, SMT
    <3> QED BY <1>2, <1>3, <3>1 DEF Trimmed
  <2>2. CASE ~(m > l)
    BY <1>1, <1>4, <2>2, SMT
  <2> QED BY <2>1, <2>2
<1>6. \A i \in 1 .. l : i \in 1 .. 6 /\ i <= l
  BY <1>1, SMT
<1>7. \A i \in 1 .. l : p[i] = name[i]
  BY <1>2, <1>6
<1>8. m > 0 => m \in 1 .. l /\ name[m] # Blank
  <2>1. m > 0 => m \in 1 .. l
    BY <1>1, <1>5, SMT
  <2> QED BY <1>3, <1>7, <2>1 DEF Trimmed
<1>9. Trimmed(name, l, m)
  <2>1. \A i \in m + 1 .. l : i \in m + 1 .. 6 /\ i \in 1 .. l
    BY <1>1, <1>5, SMT
  <2>2. \A i \in m + 1 .. l : name[i] = Blank
    BY <1>3, <1>7, <2>1 DEF Trimmed
  <2> QED BY <1>5, <1>8, <2>2 DEF Trimmed
<1>10. WithoutBlanks(p) = Cut(p, m) /\ WithoutBlanks(name) = Cut(name, m)
  BY <1>1, <1>2, <1>3, <1>9, WithoutBlanksIs
<1>11. \A i \in 1 .. m : i \in 1 .. l
  BY <1>1, <1>5, SMT
<1>12. Cut(p, m) = Cut(name, m)
  BY <1>7, <1>11 DEF Cut
<1> DEFINE c == Cut(name, m)
<1>13. c \in [1 .. m -> Nat] /\ Len(c) = m
  <2>1. c \in [1 .. m -> Nat]
    BY <1>1, <1>11 DEF Cut
  <2> HIDE DEF c
  <2> QED BY <1>4, <2>1, TupleIsSeq
<1>14. \A i \in 1 .. m : c[i] = name[i]
  BY DEF Cut
<1> HIDE DEF c
<1>15. \A i \in 1 .. m : c[i] # NUL
  BY <1>11, <1>14 DEF Text, l
<1>16. m > 0 => c[m] # Blank
  <2>1. m > 0 => m \in 1 .. m
    BY <1>4, SMT
  <2> QED BY <1>8, <1>14, <2>1
<1>17. NameOf(c)
  BY <1>4, <1>13, <1>15, <1>16 DEF NameOf, Text
<1> QED BY <1>10, <1>12, <1>17 DEF c, p

\* The string in an address, and its SSID.
LEMMA TextOfAddress ==
  ASSUME NEW addr \in Addresses
  PROVE  /\ Text(ax25_get_addr_no_ssid(addr))
         /\ ax25_get_ssid(addr) \in 0 .. 15
<1> DEFINE a == [i \in 1 .. 6 |-> addr.name[i] \div 2]
           w == WithoutBlanks(a)
           name == CString(w)
<1>1. a \in [1 .. 6 -> Nat] /\ 6 \in Nat
  <2>1. \A i \in 1 .. 6 : addr.name[i] \in 0 .. 255
    BY DEF Addresses
  <2>2. \A x \in 0 .. 255 : x \div 2 \in Nat
    BY SMT
  <2>3. 6 \in Nat
    BY SMT
  <2> QED BY <2>1, <2>2, <2>3
<1> HIDE DEF a
<1>2. PICK m : Trimmed(a, 6, m)
  <2>1. DOMAIN a = 1 .. 6
    BY <1>1
  <2> QED BY <2>1, TrimmedAt
<1>3. w = Cut(a, m) /\ m \in 0 .. 6 /\ m \in Nat
  <2>1. m \in 0 .. 6
    BY <1>2 DEF Trimmed
  <2>2. m \in Nat
    BY <2>1, SMT
  <2> QED BY <1>1, <1>2, <2>1, <2>2, WithoutBlanksIs
<1> HIDE DEF w
<1>4. w \in [1 .. m -> Nat] /\ Len(w) = m /\ \A i \in 1 .. m : w[i] = a[i] /\ i \in 1 .. 6
  <2>1. \A i \in 1 .. m : i \in 1 .. 6
    BY <1>3, SMT
  <2> HIDE DEF a
  <2> QED BY <1>1, <1>3, <2>1, CutIs DEF Cut
<1>5. \E k : Ended(w, m, k)
  <2>1. CASE \A i \in 1 .. m : w[i] # NUL
    <3>1. Ended(w, m, m)
      BY <1>3, <2>1, SMT DEF Ended
    <3> QED BY <3>1
  <2>2. CASE \E i \in 1 .. m : w[i] = NUL
    <3> DEFINE Z(i) == i \in 1 .. m /\ w[i] = NUL
    <3>0. m = 0 \/ m = 1 \/ m = 2 \/ m = 3 \/ m = 4 \/ m = 5 \/ m = 6
      BY <1>3, SMT
    <3>1. \E i : Z(i) /\ \A j \in 1 .. i - 1 : ~Z(j)
      <4>1. CASE Z(1)
        BY <4>1, SMT
      <4>2. CASE ~Z(1) /\ Z(2)
        <5>1. 1 .. 2 - 1 = {1}
          BY SMT
        <5> QED BY <4>2, <5>1
      <4>3. CASE ~Z(1) /\ ~Z(2) /\ Z(3)
        <5>1. 1 .. 3 - 1 = {1, 2}
          BY SMT
        <5> QED BY <4>3, <5>1
      <4>4. CASE ~Z(1) /\ ~Z(2) /\ ~Z(3) /\ Z(4)
        <5>1. 1 .. 4 - 1 = {1, 2, 3}
          BY SMT
        <5> QED BY <4>4, <5>1
      <4>5. CASE ~Z(1) /\ ~Z(2) /\ ~Z(3) /\ ~Z(4) /\ Z(5)
        <5>1. 1 .. 5 - 1 = {1, 2, 3, 4}
          BY SMT
        <5> QED BY <4>5, <5>1
      <4>6. CASE ~Z(1) /\ ~Z(2) /\ ~Z(3) /\ ~Z(4) /\ ~Z(5) /\ Z(6)
        <5>1. 1 .. 6 - 1 = {1, 2, 3, 4, 5}
          BY SMT
        <5> QED BY <4>6, <5>1
      <4>7. \A i \in 1 .. m : i = 1 \/ i = 2 \/ i = 3 \/ i = 4 \/ i = 5 \/ i = 6
        BY <1>3, SMT
      <4>8. Z(1) \/ Z(2) \/ Z(3) \/ Z(4) \/ Z(5) \/ Z(6)
        BY <2>2, <4>7
      <4> HIDE DEF Z
      <4> QED BY <4>1, <4>2, <4>3, <4>4, <4>5, <4>6, <4>8
    <3>2. PICK i : Z(i) /\ \A j \in 1 .. i - 1 : ~Z(j)
      BY <3>1
    <3>3. i \in 1 .. m /\ i - 1 \in 0 .. m /\ (i - 1) + 1 = i /\ \A j \in 1 .. i - 1 : j \in 1 .. m
      BY <1>3, <3>2, SMT
    <3>4. Ended(w, m, i - 1)
      BY <3>2, <3>3 DEF Ended
    <3> QED BY <3>4
  <2> QED BY <2>1, <2>2
<1>6. PICK k : Ended(w, m, k)
  BY <1>5
<1>7. name = Cut(w, k) /\ k \in 0 .. m
  <2>1. k \in 0 .. m
    BY <1>6 DEF Ended
  <2>2. m \in Nat /\ w \in [1 .. m -> Nat]
    BY <1>3, <1>4
  <2> HIDE DEF name
  <2>3. CString(w) = Cut(w, k)
    BY <1>6, <2>2, CStringIs
  <2> QED BY <2>1, <2>3 DEF name
<1>8. name \in [1 .. k -> Nat] /\ Len(name) = k /\ \A i \in 1 .. k : name[i] = w[i] /\ i \in 1 .. m
  <2>1. \A i \in 1 .. k : i \in 1 .. m
    BY <1>3, <1>7, SMT
  <2> HIDE DEF name
  <2> QED BY <1>3, <1>4, <1>7, <2>1, CutIs DEF Cut
<1>9. \A i \in 1 .. k : name[i] # NUL
  BY <1>6, <1>8 DEF Ended
<1>11. k \in 0 .. 6
  BY <1>3, <1>7, SMT
<1>12. Text(name)
  BY <1>8, <1>9, <1>11 DEF Text
<1>13. name = ax25_get_addr_no_ssid(addr)
  BY DEF ax25_get_addr_no_ssid, w, a
<1>14. ax25_get_ssid(addr) \in 0 .. 15
  <2>1. addr.ssid \in 0 .. 255 /\ 2^1 = 2
    BY SMT DEF Addresses
  <2> QED BY <2>1, SMT DEF ax25_get_ssid, Field
<1> QED BY <1>12, <1>13, <1>14

-----------------------------------------------------------------------------
(* The header of a packet.                                                   *)

\* The frame types by their control octet.
STypes == {"RR", "RNR", "REJ", "SREJ"}
UTypes == {"SABM", "DISC", "DM", "UA", "FRMR", "UI"}

\* The control octet without P/F.
Plainly(c) == c - 16 * Field(c, 4, 2)

\* A type goes with its control octet.
LEMMA TypeIs ==
  ASSUME NEW c \in Byte, TypeOf(c) # "U"
  PROVE  \/ TypeOf(c) = "I" /\ c % 2 = 0
         \/ TypeOf(c) \in STypes /\ SControl[TypeOf(c)] = c % 16
         \/ TypeOf(c) \in UTypes /\ UControl[TypeOf(c)] = Plainly(c)
<1> DEFINE u == c - 16 * Field(c, 4, 2)
<1>1. CASE c % 2 = 0
  <2>1. TypeOf(c) = "I"
    <3>1. ~(c % 4 = 1) /\ ~(c % 4 = 3)
      BY <1>1, SMT DEF Byte
    <3> QED BY <1>1, <3>1 DEF TypeOf
  <2> QED BY <1>1, <2>1
<1>2. CASE c % 4 = 1
  <2>1. c % 16 \in {1, 5, 9, 13} /\ ~(c % 2 = 0) /\ ~(c % 4 = 3)
    BY <1>2, SMT DEF Byte
  <2>2. DOMAIN SControl = STypes /\ \E t \in STypes : SControl[t] = c % 16
    <3>1. DOMAIN SControl = STypes
      BY DEF SControl, STypes
    <3>2. SControl["RR"] = 1 /\ SControl["RNR"] = 5 /\ SControl["REJ"] = 9 /\ SControl["SREJ"] = 13
      BY DEF SControl
    <3> QED BY <2>1, <3>1, <3>2 DEF STypes
  <2>3. TypeOf(c) = CHOOSE t \in DOMAIN SControl : SControl[t] = c % 16
    BY <1>2, <2>1 DEF TypeOf
  <2> QED BY <2>2, <2>3
<1>3. CASE c % 4 = 3 /\ \E t \in DOMAIN UControl : UControl[t] = u
  <2>1. ~(c % 2 = 0) /\ ~(c % 4 = 1)
    BY <1>3, SMT DEF Byte
  <2>2. TypeOf(c) = CHOOSE t \in DOMAIN UControl : UControl[t] = u
    BY <1>3, <2>1 DEF TypeOf
  <2>3. DOMAIN UControl = UTypes
    BY DEF UControl, UTypes
  <2> QED BY <1>3, <2>2, <2>3 DEF Plainly
<1>4. CASE ~(c % 2 = 0) /\ ~(c % 4 = 1) /\ ~(c % 4 = 3 /\ \E t \in DOMAIN UControl : UControl[t] = u)
  BY <1>4 DEF TypeOf
<1> QED BY <1>1, <1>2, <1>3, <1>4

\* The fields of the header that il2p_type_1_header makes of a packet.
UiField(p) == IF ax25_frame_type(p).type = "UI" THEN 1 ELSE 0

PidField(p) ==
  LET f == ax25_frame_type(p)
  IN  CASE f.type \in {"I", "UI"} -> encode_pid(p.pid)
        [] f.type \in DOMAIN SControl -> 0
        [] OTHER -> 1

ControlField(p) ==
  LET f == ax25_frame_type(p)
      C == IF f.cr \in {"cmd", "11"} THEN 4 ELSE 0
  IN  f.pf * 64 +
      (CASE f.type = "I" -> f.nr * 8 + f.ns
         [] f.type \in DOMAIN SControl -> f.nr * 8 + C + SCode[f.type]
         [] OTHER -> Opcode[f.type] * 8 + C)

SixOf(addr) ==
  LET name == ax25_get_addr_no_ssid(addr)
  IN  [i \in 1 .. 6 |-> IF i <= Len(name) THEN name[i] - Blank ELSE 0]

Six(p) == SixOf(p.addrs[1]) \o SixOf(p.addrs[2])
Bit6(p) == <<UiField(p)>> \o Bits(PidField(p), 4) \o Bits(ControlField(p), 7)
Bit7(p) == <<1, 1>> \o Bits(p.info, 10)

\* The header by these fields.
LEMMA HeaderIs ==
  ASSUME NEW p
  PROVE  il2p_type_1_header(p) =
           [j \in 1 .. 12 |-> Six(p)[j] + 64 * Bit6(p)[j] + 128 * Bit7(p)[j]]
             \o <<16 * ax25_get_ssid(p.addrs[1]) + ax25_get_ssid(p.addrs[2])>>
  BY DEF il2p_type_1_header, Six, Bit6, Bit7, SixOf, UiField, PidField, ControlField

\* A packet that il2p_send_frame can be given and will send.
Carried(p) ==
  /\ Encodable(p) /\ p.info \in Nat /\ p.ctrl \in Byte
  /\ p.pid = NoPid <=> TypeOf(p.ctrl) \notin {"I", "UI"}
  /\ p.pid = NoPid \/ p.pid \in Byte
  /\ \A n \in 1 .. 2 : p.addrs[n] \in Addresses

\* A PID and its code.
LEMMA CodeIs ==
  ASSUME NEW pid \in Byte, Codes(pid) # {}
  PROVE  /\ encode_pid(pid) \in 2 .. 15
         /\ decode_pid(encode_pid(pid)) = IF Codes(pid) = {2} THEN 32 ELSE pid
<1>1. CASE Field(pid, 4, 4) \in {1, 2}
  <2>1. Codes(pid) = {2}
    BY <1>1 DEF Codes
  <2>2. encode_pid(pid) = 2
    BY <2>1 DEF encode_pid
  <2> QED BY <2>1, <2>2, SMT DEF decode_pid
<1>2. CASE Field(pid, 4, 4) \notin {1, 2}
  <2>1. DOMAIN PidCode = 1 .. 9
    BY DEF PidCode
  <2>2. /\ PidCode[1][1] = 1 /\ PidCode[2][1] = 6 /\ PidCode[3][1] = 7 /\ PidCode[4][1] = 8
        /\ PidCode[5][1] = 204 /\ PidCode[6][1] = 205 /\ PidCode[7][1] = 206
        /\ PidCode[8][1] = 207 /\ PidCode[9][1] = 240
    BY DEF PidCode
  <2>3. /\ PidCode[1][2] = 3 /\ PidCode[2][2] = 4 /\ PidCode[3][2] = 5 /\ PidCode[4][2] = 6
        /\ PidCode[5][2] = 11 /\ PidCode[6][2] = 12 /\ PidCode[7][2] = 13
        /\ PidCode[8][2] = 14 /\ PidCode[9][2] = 15
    BY DEF PidCode
  <2>4. 1 .. 9 = {1, 2, 3, 4, 5, 6, 7, 8, 9}
    BY SMT
  <2>5. /\ \A i, j \in 1 .. 9 : PidCode[i][1] = PidCode[j][1] => i = j
        /\ \A i, j \in 1 .. 9 : PidCode[i][2] = PidCode[j][2] => i = j
        /\ \A i \in 1 .. 9 : PidCode[i][2] \in 3 .. 15
    BY <2>2, <2>3, <2>4, SMT
  <2>6. Codes(pid) = {PidCode[i][2] : i \in {j \in 1 .. 9 : PidCode[j][1] = pid}}
    BY <1>2, <2>1 DEF Codes
  <2>7. PICK i \in 1 .. 9 : PidCode[i][1] = pid
    BY <2>6
  <2>8. Codes(pid) = {PidCode[i][2]}
    BY <2>5, <2>6, <2>7
  <2>9. encode_pid(pid) = PidCode[i][2]
    BY <2>8 DEF encode_pid
  <2>10. PidCode[i][2] \in 3 .. 15 /\ PidCode[i][2] # 2
    BY <2>5, SMT
  <2>11. \A k \in 1 .. 9 : PidCode[k][2] = encode_pid(pid) => k = i
    BY <2>5, <2>9
  <2>12. decode_pid(encode_pid(pid)) = pid
    BY <2>1, <2>7, <2>9, <2>10, <2>11 DEF decode_pid
  <2>13. Codes(pid) # {2}
    BY <2>8, <2>10
  <2> QED BY <2>9, <2>10, <2>12, <2>13, SMT
<1> QED BY <1>1, <1>2

\* The octets of a frame by what il2p_type_1_header tells apart.
Kind(p) ==
  LET c == p.ctrl
      t == TypeOf(c)
      pf == Field(c, 4, 2)
      nr == Field(c, 5, 8)
  IN  \/ /\ t = "I" /\ UiField(p) = 0 /\ c % 2 = 0
         /\ p.pid # NoPid /\ PidField(p) = encode_pid(p.pid)
         /\ ControlField(p) = pf * 64 + nr * 8 + Field(c, 1, 8)
      \/ /\ t \in STypes /\ UiField(p) = 0 /\ p.pid = NoPid /\ PidField(p) = 0
         /\ SControl[t] = c % 16
         /\ \E C \in {0, 4} : ControlField(p) = pf * 64 + nr * 8 + C + SCode[t]
      \/ /\ t \in UTypes \ {"UI"} /\ UiField(p) = 0 /\ p.pid = NoPid /\ PidField(p) = 1
         /\ UControl[t] = Plainly(c)
         /\ \E C \in {0, 4} : ControlField(p) = pf * 64 + Opcode[t] * 8 + C
      \/ /\ t = "UI" /\ UiField(p) = 1 /\ p.pid # NoPid /\ PidField(p) = encode_pid(p.pid)
         /\ UControl[t] = Plainly(c)
         /\ \E C \in {0, 4} : ControlField(p) = pf * 64 + Opcode[t] * 8 + C

\* Every packet that is carried is one of them.
LEMMA KindOf ==
  ASSUME NEW p, Carried(p)
  PROVE  Kind(p)
<1> DEFINE c == p.ctrl
           t == TypeOf(c)
           f == ax25_frame_type(p)
           pf == Field(c, 4, 2)
           nr == Field(c, 5, 8)
           C == IF f.cr \in {"cmd", "11"} THEN 4 ELSE 0
<1>1. c \in Byte /\ t # "U" /\ (p.pid = NoPid <=> t \notin {"I", "UI"})
  BY DEF Carried, Encodable
<1>2. /\ f.type = t /\ f.pf = pf
      /\ f.nr = IF t = "I" \/ t \in DOMAIN SControl THEN nr ELSE 0
      /\ f.ns = IF t = "I" THEN Field(c, 1, 8) ELSE 0
  BY DEF ax25_frame_type
<1>3. C \in {0, 4}
  OBVIOUS
<1>4. /\ UiField(p) = IF f.type = "UI" THEN 1 ELSE 0
      /\ PidField(p) = CASE f.type \in {"I", "UI"} -> encode_pid(p.pid)
                         [] f.type \in DOMAIN SControl -> 0
                         [] OTHER -> 1
      /\ ControlField(p) = f.pf * 64 +
            (CASE f.type = "I" -> f.nr * 8 + f.ns
               [] f.type \in DOMAIN SControl -> f.nr * 8 + C + SCode[f.type]
               [] OTHER -> Opcode[f.type] * 8 + C)
  BY DEF UiField, PidField, ControlField
<1>5. DOMAIN SControl = STypes
  BY DEF SControl, STypes
<1>6. /\ Field(c, 4, 2) \in Int /\ Field(c, 5, 8) \in Int /\ Field(c, 1, 8) \in Int
      /\ \A s \in STypes : SCode[s] \in Int
      /\ \A s \in UTypes : Opcode[s] \in Int
  <2>1. /\ Field(c, 4, 2) \in Int /\ Field(c, 5, 8) \in Int /\ Field(c, 1, 8) \in Int
    BY <1>1, SMT DEF Field, Byte
  <2>2. \A s \in STypes : SCode[s] \in Int
    BY SMT DEF STypes, SCode
  <2>3. \A s \in UTypes : Opcode[s] \in Int
    BY SMT DEF UTypes, Opcode
  <2> QED BY <2>1, <2>2, <2>3
<1> HIDE DEF f, C, c, pf, nr
<1>6a. pf \in Int /\ nr \in Int /\ Field(c, 1, 8) \in Int /\ C \in Int
  BY <1>3, <1>6 DEF pf, nr
<1>7. CASE t = "I" /\ c % 2 = 0
  <2>0. f.type = "I" /\ ~(f.type \in DOMAIN SControl) /\ f.pf = pf /\ f.nr = nr /\ f.ns = Field(c, 1, 8)
    BY <1>2, <1>5, <1>7 DEF STypes
  <2>1. ControlField(p) = pf * 64 + (nr * 8 + Field(c, 1, 8))
    BY <1>4, <2>0
  <2>2. ControlField(p) = pf * 64 + nr * 8 + Field(c, 1, 8)
    BY <1>6a, <2>1, SMT
  <2>3. UiField(p) = 0 /\ PidField(p) = encode_pid(p.pid) /\ p.pid # NoPid
    BY <1>1, <1>4, <1>7, <2>0
  <2> QED BY <1>7, <2>2, <2>3 DEF Kind, c, pf, nr
<1>8. CASE t \in STypes /\ SControl[t] = c % 16
  <2>1. t # "I" /\ t # "UI" /\ f.type = t /\ f.type \in DOMAIN SControl
    BY <1>2, <1>5, <1>8 DEF STypes
  <2>2. ControlField(p) = pf * 64 + (nr * 8 + C + SCode[t]) /\ PidField(p) = 0 /\ UiField(p) = 0
    BY <1>2, <1>4, <2>1
  <2>3. ControlField(p) = pf * 64 + nr * 8 + C + SCode[t]
    BY <1>6, <1>6a, <1>8, <2>2, SMT
  <2>4. p.pid = NoPid
    BY <1>1, <2>1
  <2> QED BY <1>3, <1>8, <2>2, <2>3, <2>4 DEF Kind, c, pf, nr
<1>9. CASE t \in UTypes /\ UControl[t] = Plainly(c)
  <2>1. t # "I" /\ f.type = t /\ ~(f.type \in DOMAIN SControl)
    BY <1>2, <1>5, <1>9 DEF UTypes, STypes
  <2>2. ControlField(p) = pf * 64 + (Opcode[t] * 8 + C)
    BY <1>2, <1>4, <2>1
  <2>3. ControlField(p) = pf * 64 + Opcode[t] * 8 + C
    BY <1>6, <1>6a, <1>9, <2>2, SMT
  <2>4. CASE t = "UI"
    <3>1. UiField(p) = 1 /\ PidField(p) = encode_pid(p.pid) /\ p.pid # NoPid
      BY <1>1, <1>4, <2>1, <2>4
    <3> QED BY <1>3, <1>9, <2>3, <2>4, <3>1 DEF Kind, c, pf, nr
  <2>5. CASE t # "UI"
    <3>1. UiField(p) = 0 /\ PidField(p) = 1 /\ p.pid = NoPid
      BY <1>1, <1>4, <2>1, <2>5
    <3> QED BY <1>3, <1>9, <2>3, <2>5, <3>1 DEF Kind, c, pf, nr
  <2> QED BY <2>4, <2>5
<1> QED BY <1>1, <1>7, <1>8, <1>9, TypeIs DEF c

\* A sequence of m elements put before one of n.
Joined(q, s, t, m, n, S) ==
  /\ q \in [1 .. m + n -> S] /\ q \in Seq(S)
  /\ \A i \in 1 .. m : q[i] = s[i]
  /\ \A i \in 1 .. n : q[m + i] = t[i] /\ m + i \in 1 .. m + n

\* \o joins.
LEMMA JoinedAre ==
  ASSUME NEW S, NEW m \in Nat, NEW n \in Nat, NEW s \in [1 .. m -> S], NEW t \in [1 .. n -> S]
  PROVE  Joined(s \o t, s, t, m, n, S)
<1>1. s \in Seq(S) /\ t \in Seq(S) /\ Len(s) = m /\ Len(t) = n
  BY TupleIsSeq
<1> DEFINE q == s \o t
<1>2. q \in Seq(S) /\ Len(q) = m + n /\ \A i \in 1 .. m + n : q[i] = IF i <= m THEN s[i] ELSE t[i - m]
  BY <1>1, ConcatProperties
<1> HIDE DEF q
<1>3. q \in [1 .. Len(q) -> S]
  BY <1>2, LenProperties
<1>4. ASSUME NEW i \in 1 .. m PROVE q[i] = s[i]
  <2>1. i \in 1 .. m + n /\ i <= m
    BY SMT
  <2> QED BY <1>2, <2>1
<1>5. ASSUME NEW i \in 1 .. n PROVE q[m + i] = t[i] /\ m + i \in 1 .. m + n
  <2>1. m + i \in 1 .. m + n /\ ~(m + i <= m) /\ (m + i) - m = i
    BY SMT
  <2> QED BY <1>2, <2>1
<1> QED BY <1>2, <1>3, <1>4, <1>5 DEF q, Joined

\* The fields fit their places.
LEMMA FieldsTyped ==
  ASSUME NEW p, Carried(p)
  PROVE  UiField(p) \in Bit /\ PidField(p) \in 0 .. 15 /\ ControlField(p) \in 0 .. 127
<1> DEFINE c == p.ctrl
           t == TypeOf(c)
           pf == Field(c, 4, 2)
           nr == Field(c, 5, 8)
           ns == Field(c, 1, 8)
<1>1. Kind(p) /\ c \in 0 .. 255
  BY KindOf DEF Carried, Byte
<1>2. pf \in 0 .. 1 /\ nr \in 0 .. 7 /\ ns \in 0 .. 7
  BY <1>1, SMT DEF Field
<1> HIDE DEF pf, nr, ns
<1>3. pf * 64 + nr * 8 + ns \in 0 .. 127
  BY <1>2, SMT
<1>4. /\ \A s \in STypes : SCode[s] \in 0 .. 3
      /\ \A s \in UTypes : Opcode[s] \in 0 .. 5
  <2>1. \A s \in STypes : SCode[s] \in 0 .. 3
    BY SMT DEF STypes, SCode
  <2>2. \A s \in UTypes : Opcode[s] \in 0 .. 5
    BY SMT DEF UTypes, Opcode
  <2> QED BY <2>1, <2>2
<1>5. t \in {"I", "UI"} /\ PidField(p) = encode_pid(p.pid) => PidField(p) \in 0 .. 15
  <2> SUFFICES ASSUME t \in {"I", "UI"} PROVE encode_pid(p.pid) \in 0 .. 15
    OBVIOUS
  <2>1. p.pid \in Byte /\ Codes(p.pid) # {}
    BY DEF Carried, Encodable
  <2>2. encode_pid(p.pid) \in 2 .. 15
    BY <2>1, CodeIs
  <2> QED BY <2>2, SMT
<1> DEFINE Ok == UiField(p) \in Bit /\ PidField(p) \in 0 .. 15 /\ ControlField(p) \in 0 .. 127
<1>6. 0 \in Bit /\ 1 \in Bit /\ 0 \in 0 .. 15 /\ 1 \in 0 .. 15 /\ 0 \in 0 .. 7 /\ 0 \in 0 .. 3 /\ 0 \in 0 .. 5
  BY SMT DEF Bit
<1>7. CASE t = "I" /\ UiField(p) = 0 /\ PidField(p) = encode_pid(p.pid) /\ ControlField(p) = pf * 64 + nr * 8 + ns
  BY <1>3, <1>5, <1>6, <1>7
<1>8. ASSUME t \in STypes, UiField(p) = 0, PidField(p) = 0, NEW C \in {0, 4},
             ControlField(p) = pf * 64 + nr * 8 + C + SCode[t]
      PROVE  Ok
  <2>1. SCode[t] \in 0 .. 3
    BY <1>4, <1>8
  <2>2. pf * 64 + nr * 8 + C + SCode[t] \in 0 .. 127
    BY <1>2, <1>8, <2>1, SMT
  <2> QED BY <1>6, <1>8, <2>2
<1>9. ASSUME t \in UTypes, UiField(p) \in Bit, PidField(p) \in 0 .. 15, NEW C \in {0, 4},
             ControlField(p) = pf * 64 + Opcode[t] * 8 + C
      PROVE  Ok
  <2>1. Opcode[t] \in 0 .. 5
    BY <1>4, <1>9
  <2>2. pf * 64 + Opcode[t] * 8 + C \in 0 .. 127
    BY <1>2, <1>9, <2>1, SMT
  <2> QED BY <1>9, <2>2
<1>10. "UI" \in UTypes
  BY DEF UTypes
<1> HIDE DEF Ok
<1>11. Ok
  <2>1. CASE /\ t = "I" /\ UiField(p) = 0 /\ c % 2 = 0
             /\ p.pid # NoPid /\ PidField(p) = encode_pid(p.pid)
             /\ ControlField(p) = pf * 64 + nr * 8 + ns
    BY <1>7, <2>1 DEF Ok
  <2>2. CASE /\ t \in STypes /\ UiField(p) = 0 /\ p.pid = NoPid /\ PidField(p) = 0
             /\ SControl[t] = c % 16
             /\ \E C \in {0, 4} : ControlField(p) = pf * 64 + nr * 8 + C + SCode[t]
    BY <1>8, <2>2
  <2>3. CASE /\ t \in UTypes \ {"UI"} /\ UiField(p) = 0 /\ p.pid = NoPid /\ PidField(p) = 1
             /\ UControl[t] = Plainly(c)
             /\ \E C \in {0, 4} : ControlField(p) = pf * 64 + Opcode[t] * 8 + C
    BY <1>6, <1>9, <2>3
  <2>4. CASE /\ t = "UI" /\ UiField(p) = 1 /\ p.pid # NoPid /\ PidField(p) = encode_pid(p.pid)
             /\ UControl[t] = Plainly(c)
             /\ \E C \in {0, 4} : ControlField(p) = pf * 64 + Opcode[t] * 8 + C
    BY <1>5, <1>6, <1>9, <1>10, <2>4
  <2> QED BY <1>1, <2>1, <2>2, <2>3, <2>4 DEF Kind, c, t, pf, nr, ns
<1> QED BY <1>11 DEF Ok

\* The names fit into six bits a character.
LEMMA SixIs ==
  ASSUME NEW p, Carried(p)
  PROVE  /\ \A n \in 1 .. 2 : Text(ax25_get_addr_no_ssid(p.addrs[n]))
         /\ Six(p) \in [1 .. 12 -> 0 .. 63]
         /\ \A n \in 1 .. 2, i \in 1 .. 6 :
              /\ 6 * (n - 1) + i \in 1 .. 12
              /\ Six(p)[6 * (n - 1) + i] + Blank = Padded(ax25_get_addr_no_ssid(p.addrs[n]))[i]
<1> DEFINE Name(n) == ax25_get_addr_no_ssid(p.addrs[n])
<1>1. \A n \in 1 .. 2 : Text(Name(n))
  BY TextOfAddress DEF Carried
<1>2. \A n \in 1 .. 2 : \A i \in 1 .. Len(Name(n)) : Name(n)[i] \in 32 .. 95
  <2>1. \A n \in 1 .. 2 : DOMAIN Name(n) = 1 .. Len(Name(n))
    BY <1>1 DEF Text
  <2> QED BY <2>1 DEF Carried, Encodable, Sendable
<1>3. ASSUME NEW n \in 1 .. 2
      PROVE  /\ SixOf(p.addrs[n]) \in [1 .. 6 -> 0 .. 63]
             /\ \A i \in 1 .. 6 : SixOf(p.addrs[n])[i] + Blank = Padded(Name(n))[i]
  <2>1. SixOf(p.addrs[n]) = [i \in 1 .. 6 |-> IF i <= Len(Name(n)) THEN Name(n)[i] - Blank ELSE 0]
    BY DEF SixOf
  <2>2. Padded(Name(n)) = [i \in 1 .. 6 |-> IF i <= Len(Name(n)) THEN Name(n)[i] ELSE Blank]
    BY DEF Padded
  <2>3. Len(Name(n)) \in 0 .. 6
    BY <1>1 DEF Text
  <2> HIDE DEF Name
  <2>4. ASSUME NEW i \in 1 .. 6
        PROVE  LET x == IF i <= Len(Name(n)) THEN Name(n)[i] - Blank ELSE 0
                   y == IF i <= Len(Name(n)) THEN Name(n)[i] ELSE Blank
               IN  x \in 0 .. 63 /\ x + Blank = y
    <3>1. CASE i <= Len(Name(n))
      <4>1. i \in 1 .. Len(Name(n))
        BY <2>3, <3>1, SMT
      <4>2. Name(n)[i] \in 32 .. 95
        BY <1>2, <4>1
      <4> DEFINE v == Name(n)[i]
      <4>3. v \in 32 .. 95
        BY <4>2
      <4> HIDE DEF v
      <4>4. v - Blank \in 0 .. 63 /\ v - Blank + Blank = v
        BY <4>3, SMT DEF Blank
      <4> QED BY <3>1, <4>4 DEF v
    <3>2. CASE ~(i <= Len(Name(n)))
      BY <3>2, SMT DEF Blank
    <3> QED BY <3>1, <3>2
  <2> QED BY <2>1, <2>2, <2>4
<1>4. Six(p) \in [1 .. 12 -> 0 .. 63] /\ \A n \in 1 .. 2, i \in 1 .. 6 :
         /\ 6 * (n - 1) + i \in 1 .. 12 /\ Six(p)[6 * (n - 1) + i] = SixOf(p.addrs[n])[i]
  <2> DEFINE a == SixOf(p.addrs[1])
             d == SixOf(p.addrs[2])
  <2>1. a \in [1 .. 6 -> 0 .. 63] /\ d \in [1 .. 6 -> 0 .. 63] /\ 6 \in Nat
    <3>1. 1 \in 1 .. 2 /\ 2 \in 1 .. 2
      BY SMT
    <3> QED BY <1>3, <3>1
  <2>2. Six(p) = a \o d
    BY DEF Six
  <2> HIDE DEF a, d
  <2> DEFINE s == Six(p)
  <2>3. Joined(s, a, d, 6, 6, 0 .. 63)
    BY <2>1, <2>2, JoinedAre
  <2> HIDE DEF s
  <2>4. 6 + 6 = 12
    BY SMT
  <2>5. s \in [1 .. 12 -> 0 .. 63] /\ \A i \in 1 .. 6 : s[i] = a[i] /\ s[6 + i] = d[i]
    BY <2>3, <2>4 DEF Joined
  <2>6. ASSUME NEW n \in 1 .. 2, NEW i \in 1 .. 6
        PROVE  6 * (n - 1) + i \in 1 .. 12 /\ s[6 * (n - 1) + i] = SixOf(p.addrs[n])[i]
    <3>1. CASE n = 1
      <4>1. 6 * (1 - 1) + i = i /\ i \in 1 .. 12
        BY SMT
      <4> QED BY <2>5, <3>1, <4>1 DEF a
    <3>2. CASE n = 2
      <4>1. 6 * (2 - 1) + i = 6 + i /\ 6 + i \in 1 .. 12
        BY SMT
      <4> QED BY <2>5, <3>2, <4>1 DEF d
    <3>3. n = 1 \/ n = 2
      BY SMT
    <3> QED BY <3>1, <3>2, <3>3
  <2> QED BY <2>5, <2>6 DEF s
<1> QED BY <1>1, <1>3, <1>4

\* What the receiver finds in the header of a packet.
HeaderOf(hdr, p) ==
  /\ hdr \in [1 .. 13 -> Byte]
  /\ \A j \in 1 .. 12 : /\ hdr[j] % 64 = Six(p)[j]
                        /\ Field(hdr[j], 6, 2) = Bit6(p)[j] /\ Field(hdr[j], 7, 2) = Bit7(p)[j]
  /\ hdr[13] = 16 * ax25_get_ssid(p.addrs[1]) + ax25_get_ssid(p.addrs[2])

\* The fields in the bits 6 and 7.
LEMMA HighBits ==
  ASSUME NEW p, Carried(p)
  PROVE  /\ Bit6(p) \in [1 .. 12 -> Bit] /\ Bit7(p) \in [1 .. 12 -> Bit]
         /\ Bit6(p)[1] = UiField(p)
         /\ \A i \in 1 .. 4 : Bit6(p)[1 + i] = Bits(PidField(p), 4)[i]
         /\ \A i \in 1 .. 7 : Bit6(p)[5 + i] = Bits(ControlField(p), 7)[i]
         /\ \A i \in 1 .. 10 : Bit7(p)[2 + i] = Bits(p.info, 10)[i]
<1> DEFINE u == <<UiField(p)>>
           a == Bits(PidField(p), 4)
           c == Bits(ControlField(p), 7)
           d == Bits(p.info, 10)
           uu == <<1, 1>>
<1>1. UiField(p) \in Bit /\ PidField(p) \in 0 .. 15 /\ ControlField(p) \in 0 .. 127
  BY FieldsTyped
<1>2. p.info \in 0 .. 1023
  BY SMT DEF Carried, Encodable, IL2P_MAX_PAYLOAD_SIZE
<1>3. a \in [1 .. 4 -> Bit] /\ c \in [1 .. 7 -> Bit] /\ d \in [1 .. 10 -> Bit]
  BY <1>1, <1>2, Back4, Back7, Back10
<1>4. u \in [1 .. 1 -> Bit] /\ u[1] = UiField(p) /\ uu \in [1 .. 2 -> Bit]
  BY <1>1, SMT DEF Bit
<1>5. Bit6(p) = (u \o a) \o c /\ Bit7(p) = uu \o d
  BY DEF Bit6, Bit7
<1> HIDE DEF u, a, c, d, uu
<1>6. 1 \in Nat /\ 4 \in Nat /\ 5 \in Nat /\ 7 \in Nat /\ 2 \in Nat /\ 10 \in Nat /\ 1 + 4 = 5 /\ 5 + 7 = 12 /\ 2 + 10 = 12
  BY SMT
<1> DEFINE e == u \o a
<1>7. Joined(e, u, a, 1, 4, Bit)
  BY <1>3, <1>4, <1>6, JoinedAre
<1>8. e \in [1 .. 5 -> Bit] /\ e[1] = UiField(p) /\ \A i \in 1 .. 4 : e[1 + i] = a[i] /\ 1 + i \in 1 .. 5
  <2>1. 1 \in 1 .. 1
    BY SMT
  <2> QED BY <1>4, <1>6, <1>7, <2>1 DEF Joined
<1> HIDE DEF e
<1> DEFINE x == e \o c
<1>9. Joined(x, e, c, 5, 7, Bit)
  BY <1>3, <1>6, <1>8, JoinedAre
<1> HIDE DEF x
<1>10. /\ x \in [1 .. 12 -> Bit] /\ x[1] = UiField(p)
       /\ \A i \in 1 .. 4 : x[1 + i] = a[i]
       /\ \A i \in 1 .. 7 : x[5 + i] = c[i]
  <2>1. 1 \in 1 .. 5
    BY SMT
  <2> QED BY <1>6, <1>8, <1>9, <2>1 DEF Joined
<1>11. Bit6(p) = x
  BY <1>5 DEF x, e
<1> DEFINE y == uu \o d
<1>12. Joined(y, uu, d, 2, 10, Bit)
  BY <1>3, <1>4, <1>6, JoinedAre
<1>13. y \in [1 .. 12 -> Bit] /\ \A i \in 1 .. 10 : y[2 + i] = d[i]
  BY <1>6, <1>12 DEF Joined
<1>14. Bit7(p) = y
  BY <1>5
<1> HIDE DEF y
<1> QED BY <1>10, <1>11, <1>13, <1>14 DEF a, c, d

\* It is found in the header that is sent.
LEMMA HeaderOfIs ==
  ASSUME NEW p, Carried(p)
  PROVE  HeaderOf(il2p_type_1_header(p), p)
<1> DEFINE s == Six(p)
           x == Bit6(p)
           y == Bit7(p)
           h == [j \in 1 .. 12 |-> s[j] + 64 * x[j] + 128 * y[j]]
           o == 16 * ax25_get_ssid(p.addrs[1]) + ax25_get_ssid(p.addrs[2])
           hdr == il2p_type_1_header(p)
<1>1. s \in [1 .. 12 -> 0 .. 63] /\ x \in [1 .. 12 -> Bit] /\ y \in [1 .. 12 -> Bit]
  BY SixIs, HighBits
<1> HIDE DEF s, x, y
<1>2. ASSUME NEW j \in 1 .. 12
      PROVE  /\ h[j] \in Byte /\ h[j] % 64 = s[j]
             /\ Field(h[j], 6, 2) = x[j] /\ Field(h[j], 7, 2) = y[j]
  <2>1. s[j] \in 0 .. 63 /\ x[j] \in {0, 1} /\ y[j] \in {0, 1} /\ h[j] = s[j] + 64 * x[j] + 128 * y[j]
    BY <1>1 DEF Bit
  <2> DEFINE v == h[j]
  <2> HIDE DEF h
  <2>2. 2^6 = 64 /\ 2^7 = 128
    BY SMT
  <2>3. v \in 0 .. 255 /\ v % 64 = s[j] /\ (v \div 64) % 2 = x[j] /\ (v \div 128) % 2 = y[j]
    <3> HIDE DEF v
    <3>1. v = s[j] + 64 * x[j] + 128 * y[j]
      BY <2>1 DEF v
    <3>2. v \in 0 .. 255
      BY <2>1, <3>1, SMT
    <3>3. v % 64 = s[j]
      BY <2>1, <3>1, SMT
    <3>4. v \div 64 = x[j] + 2 * y[j]
      BY <2>1, <3>1, SMT
    <3>5. v \div 128 = y[j]
      BY <2>1, <3>1, SMT
    <3>6. (v \div 64) % 2 = x[j] /\ (v \div 128) % 2 = y[j]
      BY <2>1, <3>4, <3>5, SMT
    <3> QED BY <3>2, <3>3, <3>6
  <2> QED BY <2>2, <2>3 DEF Byte, Field
<1>3. o \in Byte
  <2>1. ax25_get_ssid(p.addrs[1]) \in 0 .. 15 /\ ax25_get_ssid(p.addrs[2]) \in 0 .. 15
    <3>1. 1 \in 1 .. 2 /\ 2 \in 1 .. 2
      BY SMT
    <3> QED BY <3>1, TextOfAddress DEF Carried
  <2> QED BY <2>1, SMT DEF Byte
<1>4. hdr = h \o <<o>>
  BY HeaderIs DEF s, x, y
<1> HIDE DEF o, hdr
<1>5. h \in [1 .. 12 -> Byte] /\ 12 \in Nat
  <2>1. DOMAIN h = 1 .. 12 /\ \A j \in 1 .. 12 : h[j] \in Byte
    BY <1>2
  <2>2. h = [j \in 1 .. 12 |-> h[j]]
    OBVIOUS
  <2> HIDE DEF h
  <2> QED BY <2>1, <2>2
<1> HIDE DEF h
<1>6. <<o>> \in [1 .. 1 -> Byte] /\ 1 \in Nat /\ <<o>>[1] = o
  BY <1>3, SMT
<1> DEFINE w == <<o>>
<1>7. w \in [1 .. 1 -> Byte] /\ w[1] = o /\ hdr = h \o w
  BY <1>4, <1>6
<1> HIDE DEF w
<1>8. Joined(hdr, h, w, 12, 1, Byte)
  BY <1>5, <1>6, <1>7, JoinedAre
<1>9. 12 + 1 = 13 /\ 1 \in 1 .. 1
  BY SMT
<1>10. hdr \in [1 .. 13 -> Byte] /\ (\A i \in 1 .. 12 : hdr[i] = h[i]) /\ hdr[13] = o
  BY <1>7, <1>8, <1>9 DEF Joined
<1> QED BY <1>2, <1>10 DEF HeaderOf, hdr, s, x, y, o

\* il2p_decode_header_type_1, from the fields it reads out of the header.
Rebuilt(names, ssids, ui, pid, control) ==
  LET pf == Field(control, 6, 2)
      hi == Field(control, 3, 8)
      cr == IF Field(control, 2, 2) = 1 THEN "cmd" ELSE "res"
      UType == IF hi > 5 THEN "FRMR" ELSE CHOOSE t \in DOMAIN Opcode : Opcode[t] = hi
      addrs(c) == set_addrs(names, ssids, c)
  IN  CASE pid = 0 ->
             ax25_s_frame(addrs(cr), CHOOSE t \in DOMAIN SCode : SCode[t] = control % 4, hi, pf)
        [] pid = 1 -> ax25_u_frame(addrs(cr), UType, pf, 240)
        [] pid > 1 /\ ui = 1 -> ax25_u_frame(addrs(cr), "UI", pf, decode_pid(pid))
        [] OTHER -> ax25_i_frame(addrs("cmd"), hi, control % 8, pf, decode_pid(pid))

\* The names of both stations, and their SSIDs.
Names(p) == [n \in 1 .. 2 |-> Station(p.addrs[n])]
SsidsOf(p) == <<ax25_get_ssid(p.addrs[1]), ax25_get_ssid(p.addrs[2])>>

\* The names in the header are those of the packet.
LEMMA NamesBack ==
  ASSUME NEW p, Carried(p), NEW hdr, HeaderOf(hdr, p)
  PROVE  NamesIn(hdr) = Names(p)
<1> DEFINE Name(n) == ax25_get_addr_no_ssid(p.addrs[n])
<1>1. ASSUME NEW n \in 1 .. 2
      PROVE  WithoutBlanks([i \in 1 .. 6 |-> (hdr[6 * (n - 1) + i] % 64) + Blank]) = Station(p.addrs[n])
  <2>1. \A i \in 1 .. 6 : (hdr[6 * (n - 1) + i] % 64) + Blank = Padded(Name(n))[i]
    <3>1. \A i \in 1 .. 6 : /\ 6 * (n - 1) + i \in 1 .. 12
                            /\ Six(p)[6 * (n - 1) + i] + Blank = Padded(Name(n))[i]
      BY SixIs
    <3>2. \A i \in 1 .. 6 : hdr[6 * (n - 1) + i] % 64 = Six(p)[6 * (n - 1) + i]
      BY <3>1 DEF HeaderOf
    <3> QED BY <3>1, <3>2
  <2>2. [i \in 1 .. 6 |-> (hdr[6 * (n - 1) + i] % 64) + Blank] = Padded(Name(n))
    BY <2>1 DEF Padded
  <2>3. Text(Name(n))
    BY SixIs
  <2> QED BY <2>2, <2>3, PaddedText DEF Station
<1> QED BY <1>1 DEF NamesIn, Names

\* The fields are read as they were written.
LEMMA DecodedIs ==
  ASSUME NEW p, Carried(p), NEW hdr, HeaderOf(hdr, p)
  PROVE  il2p_decode_header_type_1(hdr) =
           Rebuilt(Names(p), SsidsOf(p), UiField(p), PidField(p), ControlField(p))
<1> DEFINE bit6 == [j \in 1 .. 12 |-> Field(hdr[j], 6, 2)]
           a == Bits(PidField(p), 4)
           c == Bits(ControlField(p), 7)
<1>1. Number(a) = PidField(p) /\ Number(c) = ControlField(p) /\ a \in [1 .. 4 -> Bit] /\ c \in [1 .. 7 -> Bit]
  BY FieldsTyped, Back4, Back7
<1> HIDE DEF a, c
<1>2. \A j \in 1 .. 12 : bit6[j] = Bit6(p)[j]
  BY DEF HeaderOf
<1> HIDE DEF bit6
<1>3. /\ Bit6(p)[1] = UiField(p) /\ \A i \in 1 .. 4 : Bit6(p)[1 + i] = a[i]
      /\ \A i \in 1 .. 7 : Bit6(p)[5 + i] = c[i]
  BY HighBits DEF a, c
<1>4. bit6[1] = UiField(p)
  <2>1. 1 \in 1 .. 12
    BY SMT
  <2> QED BY <1>2, <1>3, <2>1
<1>5. SubSeq(bit6, 2, 5) = a
  <2>1. 5 - 2 + 1 = 4 /\ \A i \in 1 .. 4 : i + 2 - 1 = 1 + i /\ 1 + i \in 1 .. 12
    BY SMT
  <2>2. SubSeq(bit6, 2, 5) = [i \in 1 .. 4 |-> bit6[i + 2 - 1]]
    BY <2>1 DEF SubSeq
  <2>3. \A i \in 1 .. 4 : bit6[i + 2 - 1] = a[i]
    BY <1>2, <1>3, <2>1
  <2> QED BY <1>1, <2>2, <2>3
<1>6. SubSeq(bit6, 6, 12) = c
  <2>1. 12 - 6 + 1 = 7 /\ \A i \in 1 .. 7 : i + 6 - 1 = 5 + i /\ 5 + i \in 1 .. 12
    BY SMT
  <2>2. SubSeq(bit6, 6, 12) = [i \in 1 .. 7 |-> bit6[i + 6 - 1]]
    BY <2>1 DEF SubSeq
  <2>3. \A i \in 1 .. 7 : bit6[i + 6 - 1] = c[i]
    BY <1>2, <1>3, <2>1
  <2> QED BY <1>1, <2>2, <2>3
<1>7. <<hdr[13] \div 16, hdr[13] % 16>> = SsidsOf(p)
  <2> DEFINE x == ax25_get_ssid(p.addrs[1])
             y == ax25_get_ssid(p.addrs[2])
  <2>1. x \in 0 .. 15 /\ y \in 0 .. 15
    <3>1. 1 \in 1 .. 2 /\ 2 \in 1 .. 2
      BY SMT
    <3> QED BY <3>1, TextOfAddress DEF Carried
  <2>2. hdr[13] = 16 * x + y
    BY DEF HeaderOf
  <2> HIDE DEF x, y
  <2>3. (16 * x + y) \div 16 = x /\ (16 * x + y) % 16 = y
    BY <2>1, SMT
  <2> QED BY <2>2, <2>3 DEF SsidsOf, x, y
<1>8. il2p_decode_header_type_1(hdr) =
        Rebuilt(NamesIn(hdr), <<hdr[13] \div 16, hdr[13] % 16>>, bit6[1],
                Number(SubSeq(bit6, 2, 5)), Number(SubSeq(bit6, 6, 12)))
  BY DEF il2p_decode_header_type_1, Rebuilt, bit6
<1>9. NamesIn(hdr) = Names(p)
  BY NamesBack
<1> QED BY <1>1, <1>4, <1>5, <1>6, <1>7, <1>8, <1>9

\* Two stations as they were.
LEMMA AddressesBack ==
  ASSUME NEW p, Carried(p), NEW cr
  PROVE  \A n \in 1 .. 2 :
           /\ ax25_get_addr_no_ssid(set_addrs(Names(p), SsidsOf(p), cr)[n]) = Station(p.addrs[n])
           /\ ax25_get_ssid(set_addrs(Names(p), SsidsOf(p), cr)[n]) = ax25_get_ssid(p.addrs[n])
<1> SUFFICES ASSUME NEW n \in 1 .. 2
             PROVE  /\ ax25_get_addr_no_ssid(set_addrs(Names(p), SsidsOf(p), cr)[n]) = Station(p.addrs[n])
                    /\ ax25_get_ssid(set_addrs(Names(p), SsidsOf(p), cr)[n]) = ax25_get_ssid(p.addrs[n])
  OBVIOUS
<1> DEFINE name == Station(p.addrs[n])
           s == ax25_get_ssid(p.addrs[n])
           x == IF cr = <<"cmd", "res">>[n] THEN 128 ELSE 0
           addr == set_addrs(Names(p), SsidsOf(p), cr)[n]
<1>1. NameOf(name) /\ s \in 0 .. 15
  <2>1. Text(ax25_get_addr_no_ssid(p.addrs[n])) /\ s \in 0 .. 15
    BY TextOfAddress DEF Carried
  <2> QED BY <2>1, PaddedText DEF Station
<1>2. Names(p)[n] = name
  BY DEF Names
<1>3. SsidsOf(p)[n] = s
  <2>1. n = 1 \/ n = 2
    BY SMT
  <2>2. CASE n = 1
    BY <2>2 DEF SsidsOf
  <2>3. CASE n = 2
    BY <2>3 DEF SsidsOf
  <2> QED BY <2>1, <2>2, <2>3
<1>4. addr = [name |-> [i \in 1 .. 6 |-> 2 * (IF i <= Len(Names(p)[n]) THEN Names(p)[n][i] ELSE Blank)],
              ssid |-> 96 + 2 * SsidsOf(p)[n] + (n - 1) + x]
  BY DEF set_addrs
<1>5. x \in {0, 128}
  OBVIOUS
<1> HIDE DEF name, s, x, addr
<1>6. addr.name = [i \in 1 .. 6 |-> 2 * Padded(name)[i]] /\ addr.ssid = 96 + 2 * s + (n - 1) + x
  BY <1>2, <1>3, <1>4 DEF Padded
<1>7. ax25_get_addr_no_ssid(addr) = name
  <2>1. \A i \in 1 .. 6 : Padded(name)[i] \in Nat
    <3>1. \A i \in 1 .. 6 : i <= Len(name) => i \in 1 .. Len(name)
      BY <1>1, SMT DEF NameOf, Text
    <3> QED BY <1>1, <3>1 DEF Padded, Blank, NameOf, Text
  <2>2. \A y \in Nat : (2 * y) \div 2 = y
    BY SMT
  <2>3. [i \in 1 .. 6 |-> addr.name[i] \div 2] = Padded(name)
    BY <1>6, <2>1, <2>2 DEF Padded
  <2> QED BY <1>1, <2>3, PaddedBack DEF ax25_get_addr_no_ssid
<1>8. ax25_get_ssid(addr) = s
  <2>1. 2^1 = 2
    BY SMT
  <2>2. ((96 + 2 * s + (n - 1) + x) \div 2) % 16 = s
    <3> DEFINE v == 96 + 2 * s + (n - 1) + x
    <3>1. CASE x = 0
      <4>1. v = 96 + 2 * s + (n - 1)
        BY <1>1, <3>1, SMT
      <4> HIDE DEF v
      <4>2. v \div 2 = 48 + s
        BY <1>1, <4>1, SMT
      <4> QED BY <1>1, <4>2, SMT DEF v
    <3>2. CASE x = 128
      <4>1. v = 224 + 2 * s + (n - 1)
        BY <1>1, <3>2, SMT
      <4> HIDE DEF v
      <4>2. v \div 2 = 112 + s
        BY <1>1, <4>1, SMT
      <4> QED BY <1>1, <4>2, SMT DEF v
    <3> QED BY <1>5, <3>1, <3>2
  <2> QED BY <1>6, <2>1, <2>2 DEF ax25_get_ssid, Field
<1> QED BY <1>7, <1>8 DEF addr, name, s

\* A packet that says what p said.
Says(g, p) ==
  /\ g = Packet(g.addrs, g.ctrl, g.pid)
  /\ g.ctrl = p.ctrl
  /\ g.pid = (IF p.pid # NoPid /\ Codes(p.pid) = {2} THEN 32 ELSE p.pid)
  /\ \A n \in 1 .. 2 :
       /\ ax25_get_addr_no_ssid(g.addrs[n]) = Station(p.addrs[n])
       /\ ax25_get_ssid(g.addrs[n]) = ax25_get_ssid(p.addrs[n])

\* A packet built from the names of another one says what that says.
LEMMA PacketSays ==
  ASSUME NEW p, Carried(p), NEW cr, NEW ctrl, NEW pid, ctrl = p.ctrl,
         pid = (IF p.pid # NoPid /\ Codes(p.pid) = {2} THEN 32 ELSE p.pid)
  PROVE  Says(Packet(set_addrs(Names(p), SsidsOf(p), cr), ctrl, pid), p)
<1> DEFINE a == set_addrs(Names(p), SsidsOf(p), cr)
           g == Packet(a, ctrl, pid)
<1>1. \A n \in 1 .. 2 :
       /\ ax25_get_addr_no_ssid(a[n]) = Station(p.addrs[n])
       /\ ax25_get_ssid(a[n]) = ax25_get_ssid(p.addrs[n])
  BY AddressesBack
<1> HIDE DEF a
<1>2. g.addrs = a /\ g.ctrl = ctrl /\ g.pid = pid
  BY DEF Packet
<1> HIDE DEF g
<1>3. g = Packet(g.addrs, g.ctrl, g.pid)
  BY <1>2 DEF g
<1>4. Says(g, p)
  BY <1>1, <1>2, <1>3 DEF Says
<1> QED BY <1>4 DEF g, a

\* What il2p_decode_header_type_1 makes of the fields of a packet.
LEMMA RebuiltSays ==
  ASSUME NEW p, Carried(p)
  PROVE  Says(Rebuilt(Names(p), SsidsOf(p), UiField(p), PidField(p), ControlField(p)), p)
<1> DEFINE c == p.ctrl
           t == TypeOf(c)
           cpf == Field(c, 4, 2)
           nr == Field(c, 5, 8)
           ns == Field(c, 1, 8)
           pid == PidField(p)
           ui == UiField(p)
           control == ControlField(p)
           pf == Field(control, 6, 2)
           hi == Field(control, 3, 8)
           cr == IF Field(control, 2, 2) = 1 THEN "cmd" ELSE "res"
           UType == IF hi > 5 THEN "FRMR" ELSE CHOOSE s \in DOMAIN Opcode : Opcode[s] = hi
           SType == CHOOSE s \in DOMAIN SCode : SCode[s] = control % 4
           A(x) == set_addrs(Names(p), SsidsOf(p), x)
           g == Rebuilt(Names(p), SsidsOf(p), ui, pid, control)
<1>1. Kind(p) /\ c \in 0 .. 255
  BY KindOf DEF Carried, Byte
<1>2. g = CASE pid = 0 -> ax25_s_frame(A(cr), SType, hi, pf)
            [] pid = 1 -> ax25_u_frame(A(cr), UType, pf, 240)
            [] pid > 1 /\ ui = 1 -> ax25_u_frame(A(cr), "UI", pf, decode_pid(pid))
            [] OTHER -> ax25_i_frame(A("cmd"), hi, control % 8, pf, decode_pid(pid))
  BY DEF Rebuilt
<1>3. cpf \in 0 .. 1 /\ nr \in 0 .. 7 /\ ns \in 0 .. 7
  BY <1>1, SMT DEF Field
<1>4. c = nr * 32 + cpf * 16 + (c % 16) /\ (c % 2 = 0 => c % 16 = 2 * ns) /\ Plainly(c) = c - 16 * cpf
  <2>1. c = nr * 32 + cpf * 16 + (c % 16)
    BY <1>1, SMT DEF Field
  <2>2. c % 2 = 0 => c % 16 = 2 * ns
    BY <1>1, SMT DEF Field
  <2> QED BY <2>1, <2>2 DEF Plainly
<1> HIDE DEF g, A, cpf, nr, ns, UType, SType, cr
<1>5. ASSUME NEW x \in 0 .. 7, NEW y \in 0 .. 7, control = cpf * 64 + x * 8 + y
      PROVE  pf = cpf /\ hi = x /\ control % 8 = y /\ control % 4 = y % 4
  <2>1. 2^6 = 64 /\ 2^3 = 8
    BY SMT
  <2> DEFINE v == control
  <2>2. v = cpf * 64 + x * 8 + y
    BY <1>5
  <2>3. pf = (v \div 64) % 2 /\ hi = (v \div 8) % 8
    BY <2>1 DEF Field
  <2> HIDE DEF v, pf, hi
  <2>4. v \div 64 = cpf /\ v \div 8 = cpf * 8 + x
    BY <1>3, <2>2, SMT
  <2>5. pf = cpf /\ hi = x
    BY <1>3, <2>3, <2>4, SMT
  <2>6. v % 8 = y /\ v % 4 = y % 4
    BY <1>3, <2>2, SMT
  <2> QED BY <2>5, <2>6 DEF v
<1> HIDE DEF control, pf, hi
<1>6. ASSUME t \in {"I", "UI"}, p.pid # NoPid, pid = encode_pid(p.pid)
      PROVE  /\ pid \in 2 .. 15
             /\ decode_pid(pid) = (IF p.pid # NoPid /\ Codes(p.pid) = {2} THEN 32 ELSE p.pid)
  <2>1. p.pid \in Byte /\ Codes(p.pid) # {}
    BY <1>6 DEF Carried, Encodable
  <2> QED BY <1>6, <2>1, CodeIs
<1> HIDE DEF pid, ui
<1>7. CASE /\ t = "I" /\ ui = 0 /\ c % 2 = 0
           /\ p.pid # NoPid /\ pid = encode_pid(p.pid)
           /\ control = cpf * 64 + nr * 8 + ns
  <2>1. /\ pid \in 2 .. 15
        /\ decode_pid(pid) = (IF p.pid # NoPid /\ Codes(p.pid) = {2} THEN 32 ELSE p.pid)
    BY <1>6, <1>7
  <2>2. pf = cpf /\ hi = nr /\ control % 8 = ns
    BY <1>3, <1>5, <1>7
  <2>3. ~(pid = 0) /\ ~(pid = 1) /\ ~(pid > 1 /\ ui = 1)
    BY <1>7, <2>1, SMT
  <2>4. g = ax25_i_frame(A("cmd"), hi, control % 8, pf, decode_pid(pid))
    BY <1>2, <2>3
  <2>5. g = Packet(A("cmd"), nr * 32 + cpf * 16 + ns * 2, decode_pid(pid))
    BY <2>2, <2>4 DEF ax25_i_frame
  <2>6. nr * 32 + cpf * 16 + ns * 2 = p.ctrl
    BY <1>3, <1>4, <1>7, SMT
  <2> QED BY <2>1, <2>5, <2>6, PacketSays DEF A, g, control, pid, ui
<1>8. ASSUME t \in STypes, p.pid = NoPid, pid = 0, SControl[t] = c % 16,
             NEW C \in {0, 4}, control = cpf * 64 + nr * 8 + C + SCode[t]
      PROVE  Says(g, p)
  <2>1. DOMAIN SCode = STypes /\ \A s \in STypes : SCode[s] \in 0 .. 3
    BY SMT DEF SCode, STypes
  <2>2. \A r, s \in STypes : SCode[r] = SCode[s] => r = s
    BY SMT DEF SCode, STypes
  <2> DEFINE y == C + SCode[t]
  <2>3. y \in 0 .. 7 /\ y % 4 = SCode[t] /\ control = cpf * 64 + nr * 8 + y
    BY <1>3, <1>8, <2>1, SMT
  <2> HIDE DEF y
  <2>4. pf = cpf /\ hi = nr /\ control % 4 = SCode[t]
    BY <1>3, <1>5, <2>3
  <2>5. SType = t
    BY <1>8, <2>1, <2>2, <2>4 DEF SType
  <2>6. ~(pid = 1) /\ ~(pid > 1)
    BY <1>8, SMT
  <2>7. g = ax25_s_frame(A(cr), SType, hi, pf)
    BY <1>2, <1>8, <2>6
  <2>8. g = Packet(A(cr), (c % 16) + nr * 32 + cpf * 16, NoPid)
    BY <1>8, <2>4, <2>5, <2>7 DEF ax25_s_frame
  <2>9. (c % 16) + nr * 32 + cpf * 16 = p.ctrl
    BY <1>1, <1>3, <1>4, SMT
  <2> QED BY <1>8, <2>8, <2>9, PacketSays DEF A, g, control, pid, ui
<1>9. \A s \in UTypes : Opcode[s] \in 0 .. 5
  BY SMT DEF Opcode, UTypes
<1>10. ASSUME t \in UTypes \ {"UI"}, p.pid = NoPid, pid = 1, UControl[t] = Plainly(c),
              NEW C \in {0, 4}, control = cpf * 64 + Opcode[t] * 8 + C
       PROVE  Says(g, p)
  <2>1. DOMAIN Opcode = UTypes /\ \A r, s \in UTypes : Opcode[r] = Opcode[s] => r = s
    BY SMT DEF Opcode, UTypes
  <2>2. Opcode[t] \in 0 .. 7 /\ ~(Opcode[t] > 5) /\ C \in 0 .. 7
    BY <1>9, <1>10, SMT
  <2>3. pf = cpf /\ hi = Opcode[t]
    BY <1>5, <1>10, <2>2
  <2>4. UType = t
    BY <1>10, <2>1, <2>2, <2>3 DEF UType
  <2>5. ~(pid = 0) /\ ~(pid > 1)
    BY <1>10, SMT
  <2>6. g = ax25_u_frame(A(cr), UType, pf, 240)
    BY <1>2, <1>10, <2>5
  <2>7. g = Packet(A(cr), Plainly(c) + cpf * 16, NoPid)
    BY <1>10, <2>3, <2>4, <2>6 DEF ax25_u_frame
  <2>8. Plainly(c) + cpf * 16 = p.ctrl
    BY <1>1, <1>3, <1>4, SMT
  <2> QED BY <1>10, <2>7, <2>8, PacketSays DEF A, g, control, pid, ui
<1>11. ASSUME t = "UI", ui = 1, p.pid # NoPid, pid = encode_pid(p.pid), UControl[t] = Plainly(c),
              NEW C \in {0, 4}, control = cpf * 64 + Opcode[t] * 8 + C
       PROVE  Says(g, p)
  <2>1. /\ pid \in 2 .. 15
        /\ decode_pid(pid) = (IF p.pid # NoPid /\ Codes(p.pid) = {2} THEN 32 ELSE p.pid)
    BY <1>6, <1>11
  <2>2. Opcode[t] \in 0 .. 7 /\ C \in 0 .. 7
    <3>1. t \in UTypes
      BY <1>11 DEF UTypes
    <3> QED BY <1>9, <1>11, <3>1, SMT
  <2>3. pf = cpf
    BY <1>5, <1>11, <2>2
  <2>4. ~(pid = 0) /\ ~(pid = 1) /\ pid > 1
    BY <2>1, SMT
  <2>5. g = ax25_u_frame(A(cr), "UI", pf, decode_pid(pid))
    BY <1>2, <1>11, <2>4
  <2>6. g = Packet(A(cr), Plainly(c) + cpf * 16, decode_pid(pid))
    BY <1>11, <2>3, <2>5 DEF ax25_u_frame
  <2>7. Plainly(c) + cpf * 16 = p.ctrl
    BY <1>1, <1>3, <1>4, SMT
  <2> QED BY <2>1, <2>6, <2>7, PacketSays DEF A, g, control, pid, ui
<1>12. Says(g, p)
  <2>1. CASE /\ t \in STypes /\ ui = 0 /\ p.pid = NoPid /\ pid = 0
             /\ SControl[t] = c % 16
             /\ \E C \in {0, 4} : control = cpf * 64 + nr * 8 + C + SCode[t]
    BY <1>8, <2>1
  <2>2. CASE /\ t \in UTypes \ {"UI"} /\ ui = 0 /\ p.pid = NoPid /\ pid = 1
             /\ UControl[t] = Plainly(c)
             /\ \E C \in {0, 4} : control = cpf * 64 + Opcode[t] * 8 + C
    BY <1>10, <2>2
  <2>3. CASE /\ t = "UI" /\ ui = 1 /\ p.pid # NoPid /\ pid = encode_pid(p.pid)
             /\ UControl[t] = Plainly(c)
             /\ \E C \in {0, 4} : control = cpf * 64 + Opcode[t] * 8 + C
    BY <1>11, <2>3
  <2> QED BY <1>1, <1>7, <2>1, <2>2, <2>3 DEF Kind, c, t, cpf, nr, ns, ui, pid, control, g
<1> QED BY <1>12 DEF g, ui, pid, control

\* The packet the receiver rebuilds from the header says what was sent, and the
\* header counts the octets of its information part.
LEMMA HeaderBack ==
  ASSUME NEW p, Carried(p), NEW hdr, hdr = il2p_type_1_header(p)
  PROVE  /\ hdr \in [1 .. 13 -> Byte] /\ Says(il2p_decode_header_type_1(hdr), p)
         /\ il2p_get_header_attributes(hdr) = p.info
         /\ NamesIn(hdr) = Names(p)
<1>1. HeaderOf(hdr, p)
  BY HeaderOfIs
<1>2. Says(il2p_decode_header_type_1(hdr), p)
  BY <1>1, DecodedIs, RebuiltSays
<1>3. il2p_get_header_attributes(hdr) = p.info
  <2> DEFINE d == Bits(p.info, 10)
  <2>1. p.info \in 0 .. 1023
    BY SMT DEF Carried, Encodable, IL2P_MAX_PAYLOAD_SIZE
  <2>2. d \in [1 .. 10 -> Bit] /\ Number(d) = p.info
    BY <2>1, Back10
  <2>3. \A j \in 1 .. 10 : Field(hdr[j + 2], 7, 2) = d[j]
    <3>1. \A j \in 1 .. 10 : j + 2 = 2 + j /\ 2 + j \in 1 .. 12
      BY SMT
    <3> QED BY <1>1, <3>1, HighBits DEF HeaderOf
  <2> HIDE DEF d
  <2>4. [j \in 1 .. 10 |-> Field(hdr[j + 2], 7, 2)] = d
    BY <2>2, <2>3
  <2> QED BY <2>2, <2>4 DEF il2p_get_header_attributes
<1>4. NamesIn(hdr) = Names(p)
  BY <1>1, NamesBack
<1> QED BY <1>1, <1>2, <1>3, <1>4 DEF HeaderOf

-----------------------------------------------------------------------------
(* The packets in the queue.                                                 *)

\* What is queued and can be sent is carried.
LEMMA QueuedCarried ==
  ASSUME NEW p \in Queued
  PROVE  /\ p.info \in Nat
         /\ Encodable(p) => Carried(p)
<1>1. p \in AnyPacket
  BY CodecAssumption
<1>2. /\ p.pid = NoPid <=> TypeOf(p.ctrl) \notin {"I", "UI"}
      /\ p.info \in Nat /\ p.ctrl \in Byte /\ (p.pid = NoPid \/ p.pid \in Byte)
      /\ p.addrs \in Addresses \X Addresses
  BY <1>1 DEF AnyPacket, Byte
<1>3. \A n \in 1 .. 2 : p.addrs[n] \in Addresses
  <2>1. \A n \in 1 .. 2 : n = 1 \/ n = 2
    BY SMT
  <2> QED BY <1>2, <2>1
<1> QED BY <1>2, <1>3 DEF Carried

\* A header that was sent is refused only for one of the names in it.
LEMMA RefusedForName ==
  ASSUME NEW p, NEW hdr, NamesIn(hdr) = Names(p), ~Readable(hdr)
  PROVE  \E n \in 1 .. 2 : ~(Range(Station(p.addrs[n])) \subseteq Letters \cup Digits)
BY DEF Readable, Names

-----------------------------------------------------------------------------
(* The blocks of the payload.                                                *)

\* The octets of the payload in its first c blocks.
At(n, c) ==
  IF c = 0 THEN 0
  ELSE c * SmallSize(n) + (IF c <= LargeCount(n) THEN c ELSE LargeCount(n))

\* Where a plan of blocks leads to.
Planned(n, c) ==
  /\ BlockSize(n, c + 1) \in 0 .. 240
  /\ At(n, c) \in Nat /\ At(n, c + 1) = At(n, c) + BlockSize(n, c + 1)

\* No octets, no blocks.
LEMMA NoBlocks == BlockCount(0) = 0
BY SMT DEF BlockCount

\* The plan of blocks leads to the end of the payload, and
\* il2p_payload_compute counts the octets of all of them.
LEMMA PlanIs ==
  ASSUME NEW n \in 0 .. IL2P_MAX_PAYLOAD_SIZE
  PROVE  /\ BlockCount(n) \in 0 .. 5 /\ At(n, BlockCount(n)) = n
         /\ il2p_payload_compute(n) = n + 16 * BlockCount(n)
         /\ \A c \in 0 .. BlockCount(n) - 1 : Planned(n, c)
<1>1. CASE n = 0
  <2>1. ~(\E c \in 0 .. 0 - 1 : TRUE)
    BY SMT
  <2>2. 0 = 0 + 16 * 0
    BY SMT
  <2> QED BY <1>1, <2>1, <2>2, NoBlocks DEF At, il2p_payload_compute
<1>2. CASE n # 0
  <2> DEFINE d == BlockCount(n)
             s == SmallSize(n)
             l == LargeCount(n)
  <2>0. n \in 1 .. IL2P_MAX_PAYLOAD_SIZE /\ n \in Nat
    BY <1>2, SMT DEF IL2P_MAX_PAYLOAD_SIZE
  <2>1. d \in 1 .. 5 /\ n <= 239 * d
    BY <2>0, BlockCountBounds
  <2>2. s = n \div d /\ l = n - d * s
    BY DEF SmallSize, LargeCount
  <2>3. SmallCount(n) = d - l /\ LargeSize(n) = s + 1
    BY DEF SmallCount, LargeSize
  <2>4. il2p_payload_compute(n) = (d - l) * (s + 16) + l * ((s + 1) + 16)
    BY <1>2, <2>3 DEF il2p_payload_compute, ParitySymbols
  <2>5. \A c : /\ BlockSize(n, c + 1) = IF c + 1 <= l THEN s + 1 ELSE s
               /\ At(n, c) = IF c = 0 THEN 0 ELSE c * s + (IF c <= l THEN c ELSE l)
    BY <2>3 DEF BlockSize, At
  <2> HIDE DEF d, s, l
  <2>6. s \in 0 .. 239 /\ l \in 0 .. 4 /\ l < d
    <3>1. CASE d = 1  BY <2>0, <2>1, <2>2, <3>1, SMT
    <3>2. CASE d = 2  BY <2>0, <2>1, <2>2, <3>2, SMT
    <3>3. CASE d = 3  BY <2>0, <2>1, <2>2, <3>3, SMT
    <3>4. CASE d = 4  BY <2>0, <2>1, <2>2, <3>4, SMT
    <3>5. CASE d = 5  BY <2>0, <2>1, <2>2, <3>5, SMT
    <3> QED BY <2>1, <3>1, <3>2, <3>3, <3>4, <3>5, SMT
  <2>7. d * s + l = n
    <3>1. CASE d = 1  BY <2>0, <2>2, <2>6, <3>1, SMT
    <3>2. CASE d = 2  BY <2>0, <2>2, <2>6, <3>2, SMT
    <3>3. CASE d = 3  BY <2>0, <2>2, <2>6, <3>3, SMT
    <3>4. CASE d = 4  BY <2>0, <2>2, <2>6, <3>4, SMT
    <3>5. CASE d = 5  BY <2>0, <2>2, <2>6, <3>5, SMT
    <3> QED BY <2>1, <3>1, <3>2, <3>3, <3>4, <3>5, SMT
  <2>8. (d - l) * (s + 16) + l * ((s + 1) + 16) = n + 16 * d
    <3>1. CASE d = 1  BY <2>6, <2>7, <3>1, SMT
    <3>2. CASE d = 2  
      <4>1. l = 0 \/ l = 1
        BY <2>6, <3>2, SMT
      <4> QED BY <2>6, <2>7, <3>2, <4>1, SMT
    <3>3. CASE d = 3
      <4>1. l = 0 \/ l = 1 \/ l = 2
        BY <2>6, <3>3, SMT
      <4> QED BY <2>6, <2>7, <3>3, <4>1, SMT
    <3>4. CASE d = 4
      <4>1. l = 0 \/ l = 1 \/ l = 2 \/ l = 3
        BY <2>6, <3>4, SMT
      <4> QED BY <2>6, <2>7, <3>4, <4>1, SMT
    <3>5. CASE d = 5
      <4>1. l = 0 \/ l = 1 \/ l = 2 \/ l = 3 \/ l = 4
        BY <2>6, <3>5, SMT
      <4> QED BY <2>6, <2>7, <3>5, <4>1, SMT
    <3> QED BY <2>1, <3>1, <3>2, <3>3, <3>4, <3>5, SMT
  <2>9. At(n, d) = n
    <3>1. At(n, d) = d * s + l
      BY <2>1, <2>5, <2>6, SMT
    <3> QED BY <2>7, <3>1
  <2>10. ASSUME NEW c \in 0 .. d - 1 PROVE Planned(n, c)
    <3>1. c \in Nat /\ (c = 0 \/ c = 1 \/ c = 2 \/ c = 3 \/ c = 4)
      BY <2>1, SMT
    <3>2. BlockSize(n, c + 1) = IF c + 1 <= l THEN s + 1 ELSE s
      BY <2>5
    <3>3. At(n, c) = IF c = 0 THEN 0 ELSE c * s + (IF c <= l THEN c ELSE l)
      BY <2>5
    <3>4. At(n, c + 1) = IF c + 1 = 0 THEN 0 ELSE (c + 1) * s + (IF c + 1 <= l THEN c + 1 ELSE l)
      BY <2>5
    <3>5. BlockSize(n, c + 1) \in 0 .. 240
      BY <2>6, <3>2, SMT
    <3>6. At(n, c) \in Nat
      BY <2>6, <3>1, <3>3, SMT
    <3>7. At(n, c + 1) = At(n, c) + BlockSize(n, c + 1)
      BY <2>6, <3>1, <3>2, <3>3, <3>4, SMT
    <3> QED BY <3>5, <3>6, <3>7 DEF Planned
  <2>11. d \in 0 .. 5
    BY <2>1, SMT
  <2> QED BY <2>4, <2>8, <2>9, <2>10, <2>11 DEF d
<1> QED BY <1>1, <1>2

\* The encoder's octets e after c blocks: those of the payload in order, sixteen
\* octets more after every block.
EncodedTo(e, n, c) ==
  /\ e \in Seq(Nat) /\ Len(e) = At(n, c) + 16 * c
  /\ \A k \in 0 .. c - 1 : \A i \in 1 .. BlockSize(n, k + 1) : e[At(n, k) + 16 * k + i] = At(n, k) + i

\* Places in a block that was put out before are those of octets put out before.
LEMMA AtGrows ==
  ASSUME NEW n \in 0 .. IL2P_MAX_PAYLOAD_SIZE, NEW c \in 0 .. BlockCount(n)
  PROVE  /\ At(n, c) \in Nat
         /\ \A k \in 0 .. c - 1 : At(n, k) + 16 * k + BlockSize(n, k + 1) <= At(n, c) + 16 * c
<1>0. BlockCount(n) \in 0 .. 5 /\ \A k \in 0 .. BlockCount(n) - 1 : Planned(n, k)
  BY PlanIs
<1> DEFINE T == {m \in 0 .. BlockCount(n) :
                   /\ At(n, m) \in Nat
                   /\ \A k \in 0 .. m - 1 : At(n, k) + 16 * k + BlockSize(n, k + 1) <= At(n, m) + 16 * m}
<1>1. 0 \in T
  <2>1. 0 \in 0 .. BlockCount(n) /\ ~(\E k \in 0 .. 0 - 1 : TRUE) /\ At(n, 0) = 0 /\ 0 \in Nat
    BY <1>0, SMT DEF At
  <2> QED BY <2>1
<1>2. ASSUME NEW m \in 0 .. BlockCount(n) - 1, m \in T PROVE m + 1 \in T
  <2>1. Planned(n, m) /\ m \in Nat /\ m + 1 \in 0 .. BlockCount(n)
    BY <1>0, SMT
  <2> DEFINE x == At(n, m)
             y == At(n, m + 1)
             z == BlockSize(n, m + 1)
  <2>2. x \in Nat /\ y = x + z /\ z \in 0 .. 240
    BY <2>1 DEF Planned
  <2>3. ASSUME NEW k \in 0 .. (m + 1) - 1
        PROVE  At(n, k) + 16 * k + BlockSize(n, k + 1) <= y + 16 * (m + 1)
    <3> HIDE DEF x, y, z
    <3>1. CASE k = m
      <4>1. x + 16 * m + z <= y + 16 * (m + 1)
        BY <2>1, <2>2, SMT
      <4> QED BY <3>1, <4>1 DEF x, z
    <3>2. CASE k # m
      <4>1. k \in 0 .. m - 1 /\ k \in 0 .. BlockCount(n) - 1
        BY <1>0, <2>1, <3>2, SMT
      <4>2. At(n, k) + 16 * k + BlockSize(n, k + 1) <= x + 16 * m
        BY <1>2, <4>1 DEF x
      <4>3. At(n, k) \in Nat /\ BlockSize(n, k + 1) \in 0 .. 240
        BY <1>0, <4>1 DEF Planned
      <4> DEFINE u == At(n, k)
                 v == BlockSize(n, k + 1)
      <4> HIDE DEF u, v
      <4>4. u + 16 * k + v <= x + 16 * m /\ u \in Nat /\ v \in 0 .. 240
        BY <4>2, <4>3 DEF u, v
      <4>5. u + 16 * k + v <= y + 16 * (m + 1)
        BY <2>1, <2>2, <4>4, SMT
      <4> QED BY <4>5 DEF u, v
    <3> QED BY <3>1, <3>2
  <2>4. y \in Nat
    <3> HIDE DEF x, y, z
    <3> QED BY <2>2, SMT
  <2> QED BY <2>1, <2>3, <2>4
<1>3. 0 .. BlockCount(n) \subseteq T
  <2>1. BlockCount(n) \in Nat
    BY <1>0
  <2> HIDE DEF T
  <2> QED BY <1>1, <1>2, <2>1, UpTo
<1>4. c \in T
  BY <1>3
<1> QED BY <1>4

\* One sequence behind another.
Behind(new, s, t) ==
  /\ new \in Seq(Nat) /\ Len(new) = Len(s) + Len(t)
  /\ \A i \in 1 .. Len(s) + Len(t) : new[i] = IF i <= Len(s) THEN s[i] ELSE t[i - Len(s)]

\* \o puts them so.
LEMMA Concatenated ==
  ASSUME NEW s \in Seq(Nat), NEW t \in Seq(Nat)
  PROVE  Behind(s \o t, s, t)
<1> DEFINE new == s \o t
<1>1. new \in Seq(Nat) /\ Len(new) = Len(s) + Len(t)
  BY ConcatProperties
<1>2. \A i \in 1 .. Len(s) + Len(t) : new[i] = IF i <= Len(s) THEN s[i] ELSE t[i - Len(s)]
  BY ConcatProperties
<1> QED BY <1>1, <1>2 DEF Behind

\* SubSeq takes such a part.
LEMMA PartIs ==
  ASSUME NEW s, NEW p \in Int, NEW n \in Int
  PROVE  SubSeq(s, p + 1, p + n) = [i \in 1 .. n |-> s[p + i]]
<1> DEFINE a == p + 1
           d == p + n
<1>1. a \in Int /\ d \in Int /\ d - a + 1 = n /\ \A i \in 1 .. n : i + a - 1 = p + i
  BY SMT
<1> HIDE DEF a, d
<1>2. SubSeq(s, a, d) = [i \in 1 .. (d - a + 1) |-> s[i + a - 1]]
  BY <1>1 DEF SubSeq
<1>3. [i \in 1 .. n |-> s[i + a - 1]] = [i \in 1 .. n |-> s[p + i]]
  BY <1>1
<1> QED BY <1>1, <1>2, <1>3 DEF a, d

\* One pass through the loop of the encoder.
LEMMA EncodesOn ==
  ASSUME NEW n \in 0 .. IL2P_MAX_PAYLOAD_SIZE, NEW c \in 0 .. BlockCount(n) - 1,
         NEW e, EncodedTo(e, n, c), NEW new,
         new = e \o [i \in 1 .. BlockSize(n, c + 1) + ParitySymbols |->
                       IF i <= BlockSize(n, c + 1) THEN At(n, c) + i ELSE 0]
  PROVE  EncodedTo(new, n, c + 1)
<1> DEFINE z == BlockSize(n, c + 1)
           x == At(n, c)
           f == [i \in 1 .. z + 16 |-> IF i <= z THEN x + i ELSE 0]
<1>0. BlockCount(n) \in 0 .. 5 /\ Planned(n, c) /\ c \in Nat /\ c \in 0 .. BlockCount(n)
  BY PlanIs, SMT
<1>1. z \in 0 .. 240 /\ x \in Nat /\ At(n, c + 1) = x + z
  BY <1>0 DEF Planned
<1>2. /\ e \in Seq(Nat) /\ Len(e) = x + 16 * c
      /\ \A k \in 0 .. c - 1 : \A i \in 1 .. BlockSize(n, k + 1) : e[At(n, k) + 16 * k + i] = At(n, k) + i
  BY DEF EncodedTo
<1>3. new = e \o f
  BY DEF ParitySymbols
<1>4. \A k \in 0 .. c - 1 : At(n, k) + 16 * k + BlockSize(n, k + 1) <= x + 16 * c
  BY <1>0, AtGrows
<1> HIDE DEF z, x
<1>5. f \in [1 .. z + 16 -> Nat] /\ z + 16 \in Nat
  BY <1>1, SMT
<1>6. f \in Seq(Nat) /\ Len(f) = z + 16 /\ \A i \in 1 .. z : f[i] = x + i
  <2>1. f \in Seq(Nat) /\ Len(f) = z + 16
    BY <1>5, TupleIsSeq
  <2>2. \A i \in 1 .. z : i \in 1 .. z + 16 /\ i <= z
    BY <1>1, SMT
  <2> QED BY <2>1, <2>2
<1> HIDE DEF f
<1>7. /\ new \in Seq(Nat) /\ Len(new) = Len(e) + Len(f)
      /\ \A i \in 1 .. Len(e) + Len(f) : new[i] = IF i <= Len(e) THEN e[i] ELSE f[i - Len(e)]
  <2>1. e \in Seq(Nat) /\ f \in Seq(Nat)
    BY <1>2, <1>6
  <2>2. Behind(e \o f, e, f)
    BY <2>1, Concatenated
  <2> QED BY <1>3, <2>2 DEF Behind
<1>8. Len(new) = At(n, c + 1) + 16 * (c + 1)
  <2>1. Len(e) + Len(f) = (x + z) + 16 * (c + 1)
    BY <1>0, <1>1, <1>2, <1>6, SMT
  <2> QED BY <1>1, <1>7, <2>1
<1>9. ASSUME NEW k \in 0 .. (c + 1) - 1, NEW i \in 1 .. BlockSize(n, k + 1)
      PROVE  new[At(n, k) + 16 * k + i] = At(n, k) + i
  <2>1. CASE k = c
    <3>1. i \in 1 .. z
      BY <2>1 DEF z
    <3> DEFINE j == x + 16 * c + i
    <3>2. j \in 1 .. Len(e) + Len(f) /\ ~(j <= Len(e)) /\ j - Len(e) = i
      BY <1>0, <1>1, <1>2, <1>6, <3>1, SMT
    <3> HIDE DEF j
    <3>3. new[j] = x + i
      BY <1>6, <1>7, <3>1, <3>2
    <3> QED BY <2>1, <3>3 DEF j, x
  <2>2. CASE k # c
    <3>1. k \in 0 .. c - 1 /\ k \in 0 .. BlockCount(n) - 1
      BY <1>0, <2>2, SMT
    <3>2. Planned(n, k)
      BY <3>1, PlanIs
    <3> DEFINE u == At(n, k)
               v == BlockSize(n, k + 1)
               j == u + 16 * k + i
    <3>3. u \in Nat /\ v \in 0 .. 240 /\ u + 16 * k + v <= x + 16 * c /\ i \in 1 .. v
      BY <1>4, <3>1, <3>2 DEF Planned
    <3> HIDE DEF u, v
    <3>4. Len(e) = x + 16 * c /\ Len(f) = z + 16 /\ k \in Nat /\ i \in Nat
      BY <1>0, <1>2, <1>6, <3>1, <3>3, SMT
    <3>7. j \in 1 .. Len(e) + Len(f) /\ j <= Len(e)
      BY <1>0, <1>1, <3>3, <3>4, SMT
    <3> HIDE DEF j
    <3>5. e[j] = u + i
      BY <1>2, <3>1, <3>3 DEF j, u, v
    <3>6. new[j] = e[j]
      BY <1>7, <3>7
    <3> QED BY <3>5, <3>6 DEF j, u
  <2> QED BY <2>1, <2>2
<1> QED BY <1>7, <1>8, <1>9 DEF EncodedTo

\* One pass through the loop of the decoder, c blocks done.
LEMMA DecodesOn ==
  ASSUME NEW n \in 0 .. IL2P_MAX_PAYLOAD_SIZE, NEW c \in 0 .. BlockCount(n) - 1,
         NEW e, EncodedTo(e, n, BlockCount(n)), NEW new,
         new = [i \in 1 .. At(n, c) |-> i] \o SubSeq(e, (At(n, c) + 16 * c) + 1,
                                                     (At(n, c) + 16 * c) + BlockSize(n, c + 1))
  PROVE  new = [i \in 1 .. At(n, c + 1) |-> i]
<1> DEFINE z == BlockSize(n, c + 1)
           x == At(n, c)
           at == x + 16 * c
           f == SubSeq(e, at + 1, at + z)
           g == [i \in 1 .. x |-> i]
<1>0. Planned(n, c) /\ c \in Nat
  BY PlanIs, SMT
<1>1. z \in 0 .. 240 /\ x \in Nat /\ At(n, c + 1) = x + z
  BY <1>0 DEF Planned
<1>2. \A i \in 1 .. z : e[at + i] = x + i
  BY DEF EncodedTo
<1>3. new = g \o f
  OBVIOUS
<1> HIDE DEF z, x
<1>4. f = [i \in 1 .. z |-> x + i]
  <2>1. at \in Int /\ z \in Int
    BY <1>0, <1>1, SMT
  <2> HIDE DEF at
  <2>2. f = [i \in 1 .. z |-> e[at + i]]
    BY <2>1, PartIs
  <2> HIDE DEF f
  <2> QED BY <1>2, <2>2 DEF at
<1> HIDE DEF f
<1>5. f \in Seq(Nat) /\ Len(f) = z
  <2>1. f \in [1 .. z -> Nat] /\ z \in Nat
    BY <1>1, <1>4, SMT
  <2> QED BY <2>1, TupleIsSeq
<1>6. g \in Seq(Nat) /\ Len(g) = x
  <2>1. g \in [1 .. x -> Nat]
    BY <1>1, SMT
  <2> QED BY <1>1, <2>1, TupleIsSeq
<1> HIDE DEF g
<1>7. /\ new \in Seq(Nat) /\ Len(new) = Len(g) + Len(f)
      /\ \A i \in 1 .. Len(g) + Len(f) : new[i] = IF i <= Len(g) THEN g[i] ELSE f[i - Len(g)]
  <2>1. g \in Seq(Nat) /\ f \in Seq(Nat)
    BY <1>5, <1>6
  <2>2. Behind(g \o f, g, f)
    BY <2>1, Concatenated
  <2> QED BY <1>3, <2>2 DEF Behind
<1>8. ASSUME NEW i \in 1 .. x + z PROVE new[i] = i
  <2>1. CASE i <= x
    <3>1. i \in 1 .. x
      BY <1>1, <2>1, SMT
    <3>2. g[i] = i
      BY <3>1 DEF g
    <3> QED BY <1>5, <1>6, <1>7, <2>1, <3>2
  <2>2. CASE ~(i <= x)
    <3>1. i - x \in 1 .. z /\ x + (i - x) = i
      BY <1>1, <2>2, SMT
    <3> QED BY <1>4, <1>5, <1>6, <1>7, <2>2, <3>1
  <2> QED BY <2>1, <2>2
<1>9. new \in [1 .. x + z -> Nat]
  <2>1. new \in [1 .. Len(new) -> Nat]
    BY <1>7, LenProperties
  <2> QED BY <1>5, <1>6, <1>7, <2>1
<1>10. new = [i \in 1 .. x + z |-> i]
  BY <1>8, <1>9
<1> QED BY <1>1, <1>10

-----------------------------------------------------------------------------
(* A packet under way.  CodecInv says what holds of it, stage by stage.       *)

\* What holds of a packet under way, stage by stage.
\* While il2p_encode_payload runs.
Sending ==
  /\ air = SentHeader(il2p_type_1_header(sent))
  /\ b \in 0 .. BlockCount(size) /\ pin = At(size, b) /\ EncodedTo(enc, size, b)

\* All blocks are encoded, and the receiver knows how long the payload is.
AllEncoded == rsize = size /\ EncodedTo(enc, size, BlockCount(size))

\* Nothing is decoded yet.
Empty == payload = <<>> /\ place = 0 /\ failed = FALSE

\* While il2p_decode_payload runs.
Decoding ==
  /\ AllEncoded /\ b \in 0 .. BlockCount(size)
  /\ Says(got, sent) /\ payload = [i \in 1 .. At(size, b) |-> i] /\ place = At(size, b) + 16 * b

\* The invariant.
CodecInv ==
  /\ sent \in Queued
  /\ stage \in {"queued", "encode", "header", "decode", "received", "lost", "refused"}
  /\ stage \in {"encode", "header", "decode", "received", "lost"} =>
       Encodable(sent) /\ size = sent.info
  /\ stage \in {"queued", "encode", "header"} => Empty
  /\ stage = "queued" => b = 0 /\ pin = 0 /\ enc = <<>>
  /\ stage = "encode" => Sending
  /\ stage = "header" => AllEncoded /\ b = 0 /\ uhdr = il2p_type_1_header(sent)
  /\ stage = "decode" => Decoding
  /\ OctetsSurvive

\* It holds of a packet in the queue, and every step keeps it.
LEMMA InitCodec == Init => CodecInv
<1> SUFFICES ASSUME Init PROVE CodecInv
  OBVIOUS
<1>1. stage = "queued" /\ sent \in Queued
  BY DEF Init
<1>2. Empty /\ b = 0 /\ pin = 0 /\ enc = <<>>
  BY DEF Init, PayloadInit, Empty
<1>3. OctetsSurvive
  BY <1>1 DEF OctetsSurvive
<1> QED BY <1>1, <1>2, <1>3 DEF CodecInv

\* il2p_type_1_header takes the packet or refuses it.
LEMMA SendKeepsCodec ==
  ASSUME CodecInv, il2p_send_frame
  PROVE  CodecInv'
<1>1. /\ stage = "queued" /\ sent' = sent /\ sent \in Queued
      /\ Empty /\ b = 0 /\ pin = 0 /\ enc = <<>>
  BY DEF il2p_send_frame, CodecInv
<1>2. Empty' /\ b' = 0 /\ pin' = 0 /\ enc' = <<>>
  BY <1>1 DEF il2p_send_frame, Empty
<1>3. CASE ~Encodable(sent)
  <2>1. stage' = "refused"
    BY <1>3 DEF il2p_send_frame
  <2>2. OctetsSurvive'
    BY <2>1 DEF OctetsSurvive
  <2> QED BY <1>1, <2>1, <2>2 DEF CodecInv
<1>4. CASE Encodable(sent)
  <2>1. stage' = "encode" /\ size' = sent.info /\ air' = SentHeader(il2p_type_1_header(sent))
    BY <1>4 DEF il2p_send_frame
  <2>2. size' \in 0 .. IL2P_MAX_PAYLOAD_SIZE
    <3>1. sent.info <= IL2P_MAX_PAYLOAD_SIZE
      BY <1>4 DEF Encodable
    <3>2. sent.info \in Nat
      BY <1>1, QueuedCarried
    <3> QED BY <2>1, <3>1, <3>2, SMT DEF IL2P_MAX_PAYLOAD_SIZE
  <2>3. BlockCount(size') \in 0 .. 5
    BY <2>2, PlanIs
  <2>4. 0 \in 0 .. BlockCount(size') /\ At(size', 0) = 0
    BY <2>3, SMT DEF At
  <2>5. EncodedTo(<<>>, size', 0)
    <3>1. <<>> \in Seq(Nat) /\ Len(<<>>) = 0 /\ 0 = 0 + 16 * 0 /\ ~(\E k \in 0 .. 0 - 1 : TRUE)
      BY SMT
    <3> QED BY <2>4, <3>1 DEF EncodedTo
  <2>6. Sending'
    BY <1>1, <1>2, <2>1, <2>4, <2>5 DEF Sending
  <2>7. OctetsSurvive'
    BY <2>1 DEF OctetsSurvive
  <2>8. Encodable(sent') /\ size' = sent'.info
    BY <1>1, <1>4, <2>1
  <2> QED BY <1>1, <1>2, <2>1, <2>6, <2>7, <2>8 DEF CodecInv
<1> QED BY <1>3, <1>4

\* The size of a packet under way.
LEMMA SizeIs ==
  ASSUME CodecInv, stage \in {"encode", "header", "decode"}
  PROVE  size \in 0 .. IL2P_MAX_PAYLOAD_SIZE
<1>1. Encodable(sent) /\ size = sent.info /\ sent \in Queued
  BY DEF CodecInv
<1>2. sent.info <= IL2P_MAX_PAYLOAD_SIZE /\ sent.info \in Nat
  BY <1>1, QueuedCarried DEF Encodable
<1> QED BY <1>1, <1>2, SMT DEF IL2P_MAX_PAYLOAD_SIZE

\* A block more is encoded.
LEMMA EncodeKeepsCodec ==
  ASSUME CodecInv, il2p_encode_payload
  PROVE  CodecInv'
<1>1. /\ stage = "encode" /\ stage' = "encode" /\ sent' = sent /\ size' = size /\ air' = air
      /\ sent \in Queued /\ Encodable(sent) /\ size = sent.info /\ Empty /\ Sending
  BY DEF il2p_encode_payload, EncodeBlock, CodecInv
<1>2. Empty'
  BY <1>1 DEF il2p_encode_payload, EncodeBlock, Empty
<1>3. size \in 0 .. IL2P_MAX_PAYLOAD_SIZE
  BY <1>1, SizeIs
<1>4. BlockCount(size) \in 0 .. 5
  BY <1>3, PlanIs
<1>5. b \in 0 .. BlockCount(size) /\ pin = At(size, b) /\ EncodedTo(enc, size, b)
  BY <1>1 DEF Sending
<1>6. /\ b < BlockCount(size) /\ b' = b + 1 /\ pin' = pin + BlockSize(size, b + 1)
      /\ enc' = enc \o [i \in 1 .. BlockSize(size, b + 1) + ParitySymbols |->
                          IF i <= BlockSize(size, b + 1) THEN pin + i ELSE 0]
  BY DEF il2p_encode_payload, EncodeBlock
<1>7. b \in 0 .. BlockCount(size) - 1 /\ b + 1 \in 0 .. BlockCount(size)
  BY <1>4, <1>5, <1>6, SMT
<1>8. Planned(size, b)
  BY <1>3, <1>7, PlanIs
<1>9. pin' = At(size, b + 1)
  BY <1>5, <1>6, <1>8 DEF Planned
<1>10. EncodedTo(enc', size, b + 1)
  BY <1>3, <1>5, <1>6, <1>7, EncodesOn
<1>11. Sending'
  BY <1>1, <1>6, <1>7, <1>9, <1>10 DEF Sending
<1>12. OctetsSurvive'
  BY <1>1 DEF OctetsSurvive
<1> QED BY <1>1, <1>2, <1>11, <1>12 DEF CodecInv

\* The header arrives, and with it the length: all blocks are gathered.
LEMMA RecKeepsCodec ==
  ASSUME CodecInv, NEW at \in DamagedAt, NEW by \in DamagedBy, il2p_rec_bit(at, by)
  PROVE  CodecInv'
<1> DEFINE hdr == il2p_type_1_header(sent)
           c == il2p_clarify_header([OctetsOf(air) EXCEPT ![at] = Xor(@, by)])
<1>1. /\ stage = "encode" /\ sent' = sent /\ size' = size /\ sent \in Queued
      /\ Encodable(sent) /\ size = sent.info /\ Empty /\ Sending
  BY DEF il2p_rec_bit, CodecInv
<1>2. Carried(sent)
  BY <1>1, QueuedCarried
<1>3. hdr \in [1 .. 13 -> Byte] /\ il2p_get_header_attributes(hdr) = sent.info
  BY <1>2, HeaderBack
<1>4. air = SentHeader(hdr)
  BY <1>1 DEF Sending
<1> HIDE DEF hdr
<1>5. c.e \in Nat /\ c.hdr = hdr
  BY <1>3, <1>4, HeaderArrives DEF Arrives
<1>6. /\ Encoded
      /\ IF c.e < 0
           THEN stage' = "lost" /\ UNCHANGED <<uhdr, rsize, enc, b>>
           ELSE /\ stage' = "header" /\ uhdr' = c.hdr
                /\ rsize' = il2p_get_header_attributes(c.hdr)
                /\ enc' = SubSeq(enc, 1, il2p_payload_compute(rsize'))
                /\ b' = 0
  BY DEF il2p_rec_bit
<1> HIDE DEF c
<1>7. \/ /\ stage' = "header" /\ uhdr' = c.hdr
         /\ rsize' = il2p_get_header_attributes(c.hdr)
         /\ enc' = SubSeq(enc, 1, il2p_payload_compute(rsize'))
         /\ b' = 0
      \/ c.e < 0 /\ stage' = "lost"
  BY <1>6
<1>8. CASE c.e < 0 /\ stage' = "lost"
  BY <1>5, <1>8, SMT
<1>9. CASE /\ stage' = "header" /\ uhdr' = c.hdr
           /\ rsize' = il2p_get_header_attributes(c.hdr)
           /\ enc' = SubSeq(enc, 1, il2p_payload_compute(rsize'))
           /\ b' = 0
  <2>1. rsize' = size /\ uhdr' = hdr
    BY <1>1, <1>3, <1>5, <1>9
  <2>2. size \in 0 .. IL2P_MAX_PAYLOAD_SIZE
    BY <1>1, SizeIs
  <2>3. b = BlockCount(size) /\ EncodedTo(enc, size, BlockCount(size))
    BY <1>1, <1>6 DEF Encoded, Sending
  <2>4. enc \in Seq(Nat) /\ Len(enc) = il2p_payload_compute(size)
    BY <2>2, <2>3, PlanIs DEF EncodedTo
  <2>5. enc' = enc
    <3>1. enc' = SubSeq(enc, 1, Len(enc))
      BY <1>9, <2>1, <2>4
    <3> QED BY <2>4, <3>1, EvaluatedIs DEF Evaluated
  <2>6. AllEncoded'
    BY <1>1, <2>1, <2>3, <2>5 DEF AllEncoded
  <2>7. Empty'
    BY <1>1 DEF il2p_rec_bit, Empty
  <2>8. OctetsSurvive'
    BY <1>9 DEF OctetsSurvive
  <2> QED BY <1>1, <1>9, <2>1, <2>6, <2>7, <2>8 DEF CodecInv, hdr
<1> QED BY <1>7, <1>8, <1>9

\* The packet is built anew, or given up for one of its names.
LEMMA HeaderKeepsCodec ==
  ASSUME CodecInv, il2p_decode_header
  PROVE  CodecInv'
<1> DEFINE hdr == il2p_type_1_header(sent)
<1>1. /\ stage = "header" /\ sent' = sent /\ sent \in Queued /\ Encodable(sent)
      /\ size = sent.info /\ Empty /\ AllEncoded /\ b = 0 /\ uhdr = hdr
  BY DEF il2p_decode_header, CodecInv
<1>2. UNCHANGED <<size, enc, rsize, payload, place, failed, b>>
  BY DEF il2p_decode_header, payloadVars
<1>3. Carried(sent)
  BY <1>1, QueuedCarried
<1>4. Says(il2p_decode_header_type_1(hdr), sent) /\ NamesIn(hdr) = Names(sent)
  BY <1>3, HeaderBack
<1> HIDE DEF hdr
<1>5. CASE ~Readable(uhdr)
  <2>1. stage' = "lost"
    BY <1>5 DEF il2p_decode_header
  <2>2. \E n \in 1 .. 2 : ~(Range(Station(sent.addrs[n])) \subseteq Letters \cup Digits)
    BY <1>1, <1>4, <1>5, RefusedForName
  <2>3. OctetsSurvive'
    BY <1>1, <2>1, <2>2 DEF OctetsSurvive
  <2> QED BY <1>1, <1>2, <2>1, <2>3 DEF CodecInv
<1>6. CASE Readable(uhdr)
  <2>1. stage' = "decode" /\ got' = il2p_decode_header_type_1(hdr)
    BY <1>1, <1>6 DEF il2p_decode_header
  <2>2. Says(got', sent)
    BY <1>4, <2>1
  <2>3. size \in 0 .. IL2P_MAX_PAYLOAD_SIZE
    BY <1>1, SizeIs
  <2>4. BlockCount(size) \in 0 .. 5
    BY <2>3, PlanIs
  <2>5. 0 \in 0 .. BlockCount(size) /\ At(size, 0) = 0 /\ 0 + 16 * 0 = 0
    BY <2>4, SMT DEF At
  <2>6. [i \in 1 .. 0 |-> i] = <<>>
    BY SMT
  <2>7. Decoding'
    BY <1>1, <1>2, <2>2, <2>5, <2>6 DEF Decoding, AllEncoded, Empty
  <2>8. OctetsSurvive'
    BY <2>1 DEF OctetsSurvive
  <2> QED BY <1>1, <1>2, <2>1, <2>7, <2>8 DEF CodecInv
<1> QED BY <1>5, <1>6

\* A block more is decoded.
LEMMA DecodeKeepsCodec ==
  ASSUME CodecInv, il2p_decode_payload
  PROVE  CodecInv'
<1>1. /\ stage = "decode" /\ stage' = "decode" /\ sent' = sent /\ size' = size /\ got' = got
      /\ enc' = enc /\ rsize' = rsize
      /\ sent \in Queued /\ Encodable(sent) /\ size = sent.info /\ Decoding
  BY DEF il2p_decode_payload, DecodeBlock, CodecInv
<1>2. size \in 0 .. IL2P_MAX_PAYLOAD_SIZE
  BY <1>1, SizeIs
<1>3. BlockCount(size) \in 0 .. 5
  BY <1>2, PlanIs
<1>4. /\ rsize = size /\ EncodedTo(enc, size, BlockCount(size)) /\ b \in 0 .. BlockCount(size)
      /\ payload = [i \in 1 .. At(size, b) |-> i] /\ place = At(size, b) + 16 * b /\ Says(got, sent)
  BY <1>1 DEF Decoding, AllEncoded
<1>5. /\ b < BlockCount(size) /\ b' = b + 1
      /\ payload' = payload \o SubSeq(enc, place + 1, place + BlockSize(size, b + 1))
      /\ place' = place + BlockSize(size, b + 1) + ParitySymbols
  BY <1>4 DEF il2p_decode_payload, DecodeBlock
<1>6. b \in 0 .. BlockCount(size) - 1 /\ b + 1 \in 0 .. BlockCount(size) /\ b \in Nat
  BY <1>3, <1>4, <1>5, SMT
<1>7. Planned(size, b)
  BY <1>2, <1>6, PlanIs
<1>8. payload' = [i \in 1 .. At(size, b + 1) |-> i]
  BY <1>2, <1>4, <1>5, <1>6, DecodesOn
<1>9. place' = At(size, b + 1) + 16 * (b + 1)
  <2> DEFINE x == At(size, b)
             z == BlockSize(size, b + 1)
  <2>1. x \in Nat /\ z \in 0 .. 240 /\ At(size, b + 1) = x + z
    BY <1>7 DEF Planned
  <2>2. place' = (x + 16 * b) + z + 16
    BY <1>4, <1>5 DEF ParitySymbols
  <2> HIDE DEF x, z
  <2>3. (x + 16 * b) + z + 16 = (x + z) + 16 * (b + 1)
    BY <1>6, <2>1, SMT
  <2> QED BY <2>1, <2>2, <2>3
<1>10. Decoding'
  BY <1>1, <1>4, <1>5, <1>6, <1>8, <1>9 DEF Decoding, AllEncoded
<1>11. OctetsSurvive'
  BY <1>1 DEF OctetsSurvive
<1> QED BY <1>1, <1>10, <1>11 DEF CodecInv

\* Nothing but a block beyond repair makes the lengths differ.
LEMMA ReceivedKeepsCodec ==
  ASSUME CodecInv, il2p_decode_header_payload
  PROVE  CodecInv'
<1>1. /\ stage = "decode" /\ sent' = sent /\ sent \in Queued /\ Encodable(sent)
      /\ size = sent.info /\ Decoding /\ UNCHANGED <<size, enc, payload, place, failed>>
  BY DEF il2p_decode_header_payload, payloadVars, CodecInv
<1>2. size \in 0 .. IL2P_MAX_PAYLOAD_SIZE
  BY <1>1, SizeIs
<1>3. At(size, BlockCount(size)) = size
  BY <1>2, PlanIs
<1>4. rsize = size /\ EncodedTo(enc, size, BlockCount(size)) /\ b = BlockCount(size)
  BY <1>1 DEF il2p_decode_header_payload, Decoded, Decoding, AllEncoded
<1>5. payload = [i \in 1 .. size |-> i] /\ Len(enc) = place /\ Says(got, sent)
  BY <1>1, <1>3, <1>4 DEF Decoding, EncodedTo
<1>6. Len(payload) = size
  <2>1. size \in Nat /\ payload \in [1 .. size -> Nat]
    BY <1>2, <1>5, SMT DEF IL2P_MAX_PAYLOAD_SIZE
  <2> QED BY <2>1, TupleIsSeq
<1>7. CASE DecodeError
  <2>1. stage' = "lost" /\ failed
    BY <1>4, <1>6, <1>7 DEF il2p_decode_header_payload, DecodeError
  <2>2. OctetsSurvive'
    BY <1>1, <2>1 DEF OctetsSurvive
  <2> QED BY <1>1, <2>1, <2>2 DEF CodecInv
<1>8. CASE ~DecodeError
  <2>1. stage' = "received" /\ got' = [got EXCEPT !.info = payload]
    BY <1>8 DEF il2p_decode_header_payload
  <2>2. /\ got'.addrs = got.addrs /\ got'.ctrl = got.ctrl /\ got'.pid = got.pid
        /\ got'.info = payload
    <3> DEFINE x == got.addrs
               y == got.ctrl
               z == got.pid
    <3>1. got = Packet(x, y, z)
      BY <1>5 DEF Says
    <3> HIDE DEF x, y, z
    <3>2. got = [addrs |-> x, ctrl |-> y, pid |-> z, info |-> <<>>]
      BY <3>1 DEF Packet
    <3>3. got' = [addrs |-> x, ctrl |-> y, pid |-> z, info |-> payload]
      BY <2>1, <3>2
    <3> QED BY <3>2, <3>3
  <2>3. /\ got'.ctrl = sent.ctrl
        /\ got'.pid = (IF sent.pid # NoPid /\ Codes(sent.pid) = {2} THEN 32 ELSE sent.pid)
        /\ \A n \in 1 .. 2 :
             /\ ax25_get_addr_no_ssid(got'.addrs[n]) = Station(sent.addrs[n])
             /\ ax25_get_ssid(got'.addrs[n]) = ax25_get_ssid(sent.addrs[n])
    BY <1>5, <2>2 DEF Says
  <2>4. got'.info = [i \in 1 .. sent.info |-> i]
    BY <1>1, <1>5, <2>2
  <2>5. Len(enc') = place'
    BY <1>1, <1>5
  <2>6. OctetsSurvive'
    BY <1>1, <2>1, <2>3, <2>4, <2>5 DEF OctetsSurvive
  <2> QED BY <1>1, <2>1, <2>6 DEF CodecInv
<1> QED BY <1>7, <1>8

\* All steps together.
LEMMA CodecKeeps == CodecInv /\ [Next]_vars => CodecInv'
<1> SUFFICES ASSUME CodecInv, [Next]_vars PROVE CodecInv'
  OBVIOUS
<1>1. CASE il2p_send_frame
  BY <1>1, SendKeepsCodec
<1>2. CASE il2p_encode_payload
  BY <1>2, EncodeKeepsCodec
<1>3. CASE \E at \in DamagedAt, by \in DamagedBy : il2p_rec_bit(at, by)
  BY <1>3, RecKeepsCodec
<1>4. CASE il2p_decode_header
  BY <1>4, HeaderKeepsCodec
<1>5. CASE il2p_decode_payload
  BY <1>5, DecodeKeepsCodec
<1>6. CASE il2p_decode_header_payload
  BY <1>6, ReceivedKeepsCodec
<1>7. CASE UNCHANGED vars
  <2>1. UNCHANGED <<stage, sent, air, uhdr, got, size, enc, pin, rsize, payload, place, failed, b>>
    BY <1>7 DEF vars, payloadVars
  <2>2. /\ Empty' = Empty /\ Sending' = Sending /\ AllEncoded' = AllEncoded /\ Decoding' = Decoding
        /\ OctetsSurvive' = OctetsSurvive
    BY <2>1 DEF Empty, Sending, AllEncoded, Decoding, OctetsSurvive
  <2> QED BY <2>1, <2>2 DEF CodecInv
<1> QED BY <1>1, <1>2, <1>3, <1>4, <1>5, <1>6, <1>7 DEF Next

\* A packet that is received says what the packet in the queue said: control
\* octet, PID, stations, SSIDs and every octet of its information part in its
\* place, for every damaged octet and every packet that ax25_from_frame takes
\* (Queued may be AnyPacket): addresses of any octets, any control octet, any PID
\* and any length.  A packet is lost only if a block was beyond repair or for a
\* character in one of its names.
THEOREM PacketsSurvive == Spec => []OctetsSurvive
<1>1. Init => CodecInv
  BY InitCodec
<1>2. CodecInv /\ [Next]_vars => CodecInv'
  BY CodecKeeps
<1>3. CodecInv => OctetsSurvive
  BY DEF CodecInv
<1> QED BY <1>1, <1>2, <1>3, PTL DEF Spec

-----------------------------------------------------------------------------
(* KISS.                                                                     *)

\* What can be on its way in either direction.
KissOctets == Special \cup {DATA_FRAME} \cup Octets

\* What kiss_unwrap keeps from octet to octet.
Unwrapping == [escaped_mode : BOOLEAN, out : Seq(KissOctets)]
Unwrapped0 == [escaped_mode |-> FALSE, out |-> <<>>]

\* It keeps its type.
LEMMA UnwrapTyped ==
  ASSUME NEW acc \in Unwrapping, NEW chr \in KissOctets
  PROVE  Unwrap(acc, chr) \in Unwrapping
<1>1. Unescaped(chr) \in Seq(KissOctets)
  <2>1. "FEND" \in KissOctets /\ "FESC" \in KissOctets
    BY DEF KissOctets, Special
  <2>2. <<>> \in Seq(KissOctets) /\ <<"FEND">> \in Seq(KissOctets) /\ <<"FESC">> \in Seq(KissOctets)
    BY <2>1
  <2> QED BY <2>2, Zenon DEF Unescaped
<1>2. acc.out \o Unescaped(chr) \in Seq(KissOctets) /\ Append(acc.out, chr) \in Seq(KissOctets)
  BY <1>1 DEF Unwrapping
<1> QED BY <1>2 DEF Unwrap, Unwrapping

\* kiss_unwrap, octet by octet.
LEMMA UnwrapRuns ==
  ASSUME NEW seq \in Seq(KissOctets)
  PROVE  \E h :
            /\ h[0] = Unwrapped0
            /\ \A k \in 1 .. Len(seq) : h[k] = Unwrap(h[k - 1], seq[k])
            /\ FoldLeft(Unwrap, Unwrapped0, seq) = h[Len(seq)]
<1> DEFINE N == Len(seq)
           D == DOMAIN seq
           step == [z \in Unwrapping \X (1 .. N) |-> Unwrap(z[1], seq[z[2]])]
           Eq(g) == g = [s \in SUBSET D |->
                           IF s = {} THEN Unwrapped0
                           ELSE LET x == Max(s) IN Unwrap(g[s \ {x}], seq[x])]
           iter == CHOOSE g : Eq(g)
<1>1. N \in Nat /\ D = 1 .. N /\ \A i \in 1 .. N : seq[i] \in KissOctets
  OBVIOUS
<1>2. Unwrapped0 \in Unwrapping
  BY DEF Unwrapped0, Unwrapping
<1>3. step \in [Unwrapping \X (1 .. N) -> Unwrapping]
  BY <1>1, UnwrapTyped
<1>4. PICK g \in [SUBSET (1 .. N) -> Unwrapping] : Descends(g, N, Unwrapped0, step)
  <2> HIDE DEF step
  <2> QED BY <1>1, <1>2, <1>3, Descent
<1>5. iter = [s \in SUBSET D |->
                 IF s = {} THEN Unwrapped0
                 ELSE LET x == Max(s) IN Unwrap(iter[s \ {x}], seq[x])]
  <2>1. ASSUME NEW s \in SUBSET D, s # {}
        PROVE  g[s] = Unwrap(g[s \ {Max(s)}], seq[Max(s)])
    <3>1. Max(s) \in 1 .. N
      BY <1>1, <2>1, LargestIn
    <3>2. g[s \ {Max(s)}] \in Unwrapping
      BY <1>1, <1>4
    <3> QED BY <1>1, <1>4, <2>1, <3>1, <3>2 DEF Descends
  <2>2. Eq(g)
    BY <1>1, <1>4, <2>1 DEF Descends
  <2> HIDE DEF Eq
  <2>3. Eq(iter)
    BY <2>2
  <2> QED BY <2>3 DEF Eq
<1>6. FoldLeft(Unwrap, Unwrapped0, seq) = iter[D]
  BY DEF FoldLeft, MapThenFoldSet
<1> HIDE DEF iter
<1> DEFINE h == [k \in 0 .. N |-> iter[1 .. k]]
<1>7. {} \in SUBSET D /\ iter[{}] = Unwrapped0
  <2>1. {} \in SUBSET D
    OBVIOUS
  <2> QED BY <1>5, <2>1, Zenon
<1>8. /\ h[0] = Unwrapped0
      /\ \A k \in 1 .. N : /\ 1 .. k \in SUBSET (1 .. N) /\ 1 .. k # {}
                           /\ Max(1 .. k) = k /\ h[k] = iter[1 .. k]
                           /\ h[k - 1] = iter[(1 .. k) \ {Max(1 .. k)}]
  <2>1. N \in Nat /\ iter[{}] = Unwrapped0
    BY <1>1, <1>7
  <2>2. Climbs(h, iter, N, Unwrapped0)
    <3> HIDE DEF N
    <3> QED BY <2>1, FromTheLeft
  <2> HIDE DEF h, N
  <2> QED BY <2>2 DEF Climbs
<1>9. ASSUME NEW k \in 1 .. N PROVE h[k] = Unwrap(h[k - 1], seq[k])
  <2>1. iter[1 .. k] = Unwrap(iter[(1 .. k) \ {Max(1 .. k)}], seq[Max(1 .. k)])
    <3>1. 1 .. k \in SUBSET D /\ 1 .. k # {}
      BY <1>1, <1>8
    <3> HIDE DEF D, N, h
    <3> QED BY <1>5, <3>1, Zenon
  <2>2. Max(1 .. k) = k /\ h[k] = iter[1 .. k] /\ h[k - 1] = iter[(1 .. k) \ {Max(1 .. k)}]
    BY <1>8
  <2> HIDE DEF h
  <2> QED BY <2>1, <2>2
<1>10. h[N] = iter[D]
  BY <1>1
<1> HIDE DEF h
<1> QED BY <1>6, <1>8, <1>9, <1>10

\* FlattenSeq, sequence by sequence.
Flattens(W, seqs, S) ==
  /\ W \in [0 .. Len(seqs) -> Seq(S)]
  /\ W[0] = <<>>
  /\ \A i \in 1 .. Len(seqs) : W[i] = W[i - 1] \o seqs[i]
  /\ FlattenSeq(seqs) = W[Len(seqs)]

LEMMA FlattenRuns ==
  ASSUME NEW S, NEW seqs \in Seq(Seq(S))
  PROVE  \E W : Flattens(W, seqs, S)
<1> DEFINE N == Len(seqs)
           step == [z \in Seq(S) \X (1 .. N) |-> z[1] \o seqs[z[2]]]
<1>1. N \in Nat /\ \A i \in 1 .. N : seqs[i] \in Seq(S)
  OBVIOUS
<1>2. <<>> \in Seq(S) /\ step \in [Seq(S) \X (1 .. N) -> Seq(S)]
  BY <1>1
<1>3. PICK W \in [0 .. N -> Seq(S)] :
         W[0] = <<>> /\ \A n \in 1 .. N : W[n] = step[<<W[n - 1], n>>]
  <2>1. PICK W \in [0 .. N -> Seq(S)] : Recurs(W, N, <<>>, step)
    <3> HIDE DEF N, step
    <3> QED BY <1>1, <1>2, Recursion
  <2> HIDE DEF step
  <2> QED BY <2>1 DEF Recurs
<1>4. ASSUME NEW i \in 1 .. N PROVE W[i] = W[i - 1] \o seqs[i] /\ i - 1 \in 0 .. N
  <2>1. i - 1 \in 0 .. N
    BY <1>1, SMT
  <2>2. W[i - 1] \in Seq(S)
    BY <1>3, <2>1
  <2> QED BY <1>3, <2>1, <2>2
<1>5. FlattenSeq(seqs) = W[N]
  <2>1. CASE N = 0
    <3>1. seqs = <<>>
      BY <2>1
    <3> QED BY <2>1, <3>1, <1>3 DEF FlattenSeq
  <2>2. CASE N # 0
    <3> DEFINE Eq(f) == f = [i \in 1 .. Len(seqs) |-> IF i = 1 THEN seqs[i] ELSE f[i - 1] \o seqs[i]]
               flat == CHOOSE f : Eq(f)
               f0 == [i \in 1 .. N |-> W[i]]
    <3>1. Eq(f0)
      <4>1. ASSUME NEW i \in 1 .. N PROVE f0[i] = IF i = 1 THEN seqs[i] ELSE f0[i - 1] \o seqs[i]
        <5>1. CASE i = 1
          <6>1. W[i] = W[i - 1] \o seqs[i] /\ seqs[i] \in Seq(S)
            BY <1>1, <1>4
          <6>2. i - 1 = 0
            BY <5>1, SMT
          <6>3. W[i] = <<>> \o seqs[i]
            BY <6>1, <6>2, <1>3, Zenon
          <6> QED BY <5>1, <6>1, <6>3
        <5>2. CASE i # 1
          <6>1. i - 1 \in 1 .. N
            BY <5>2, SMT
          <6>2. f0[i - 1] = W[i - 1] /\ f0[i] = W[i]
            BY <6>1
          <6> QED BY <6>2, <5>2, <1>4
        <5> QED BY <5>1, <5>2
      <4> QED BY <4>1
    <3>2. flat = [i \in 1 .. N |-> IF i = 1 THEN seqs[i] ELSE flat[i - 1] \o seqs[i]]
      <4> HIDE DEF Eq
      <4>1. Eq(flat)
        BY <3>1
      <4> QED BY <4>1 DEF Eq
    <3>3. FlattenSeq(seqs) = flat[N]
      BY <2>2 DEF FlattenSeq
    <3> DEFINE T == {n \in Nat : n \in 1 .. N => flat[n] = W[n]}
    <3> HIDE DEF flat
    <3>4. 0 .. N \subseteq T
      <4>1. 0 \in T
        BY SMT
      <4>2. ASSUME NEW n \in 0 .. N - 1, n \in T PROVE n + 1 \in T
        <5>1. n + 1 \in 1 .. N /\ (n + 1) - 1 = n /\ n + 1 \in Nat /\ n \in Nat /\ n + 1 \in 0 .. N
          BY <1>1, SMT
        <5>2. flat[n + 1] = IF n + 1 = 1 THEN seqs[n + 1] ELSE flat[n] \o seqs[n + 1]
          BY <3>2, <5>1
        <5>3. W[n + 1] = W[n] \o seqs[n + 1]
          BY <1>4, <5>1
        <5>4. CASE n = 0
          <6>1. W[1] = <<>> \o seqs[1] /\ seqs[1] \in Seq(S)
            BY <5>4, <5>1, <1>1, <1>3, <5>3
          <6> QED BY <5>4, <6>1, <5>2
        <5>5. CASE n # 0
          <6>1. n \in 1 .. N /\ n + 1 # 1
            BY <5>5, SMT
          <6>2. flat[n] = W[n]
            BY <4>2, <6>1
          <6> QED BY <5>1, <6>1, <6>2, <5>2, <5>3
        <5> QED BY <5>4, <5>5
      <4> HIDE DEF T
      <4> QED BY <1>1, <4>1, <4>2, UpTo
    <3>5. N \in T /\ N \in 1 .. N
      BY <1>1, <2>2, <3>4
    <3> QED BY <3>3, <3>5
  <2> QED BY <2>1, <2>2
<1> QED BY <1>3, <1>4, <1>5 DEF Flattens

NoFend(seq) == \A k \in 1 .. Len(seq) : seq[k] # "FEND"

Escapes(q) == [j \in DOMAIN q |-> Escaped(q[j])]
Body(q) == FlattenSeq(Escapes(q))

\* The two parts of a sequence put together.
LEMMA Together ==
  ASSUME NEW S, NEW a \in Seq(S), NEW w \in Seq(S)
  PROVE  /\ a \o w \in Seq(S) /\ Len(a) \in Nat /\ Len(w) \in Nat
         /\ Len(a \o w) = Len(a) + Len(w) /\ Len(a) <= Len(a \o w)
         /\ \A k \in 1 .. Len(a) : k \in 1 .. Len(a \o w) /\ (a \o w)[k] = a[k]
         /\ \A k \in 1 .. Len(w) : /\ Len(a) + k \in 1 .. Len(a \o w)
                                   /\ (a \o w)[Len(a) + k] = w[k]
         /\ \A k \in 1 .. Len(a \o w) :
               ~(k <= Len(a)) => k - Len(a) \in 1 .. Len(w) /\ (a \o w)[k] = w[k - Len(a)]
<1>1. Len(a) \in Nat /\ Len(w) \in Nat /\ a \o w \in Seq(S) /\ Len(a \o w) = Len(a) + Len(w)
  OBVIOUS
<1> DEFINE m == Len(a)
           n == Len(w)
           t == Len(a \o w)
<1>2. m \in Nat /\ n \in Nat /\ t = m + n
  BY <1>1
<1>3. /\ \A k \in 1 .. t : /\ (k <= m => (a \o w)[k] = a[k])
                          /\ (k > m => (a \o w)[k] = w[k - m])
  BY <1>1, ConcatProperties
<1> HIDE DEF m, n, t
<1>4. m <= t /\ \A k \in 1 .. m : k \in 1 .. t /\ k <= m
  BY <1>2, SMT
<1>5. \A k \in 1 .. n : m + k \in 1 .. t /\ m + k > m /\ (m + k) - m = k
  BY <1>2, SMT
<1>6. \A k \in 1 .. t : ~(k <= m) => k - m \in 1 .. n /\ k > m
  BY <1>2, SMT
<1>7. /\ \A k \in 1 .. m : k \in 1 .. t /\ (a \o w)[k] = a[k]
      /\ \A k \in 1 .. n : m + k \in 1 .. t /\ (a \o w)[m + k] = w[k]
      /\ \A k \in 1 .. t : ~(k <= m) => k - m \in 1 .. n /\ (a \o w)[k] = w[k - m]
  <2>1. ASSUME NEW k \in 1 .. n PROVE m + k \in 1 .. t /\ (a \o w)[m + k] = w[k]
    <3>1. (a \o w)[m + k] = w[(m + k) - m]
      BY <1>3, <1>5
    <3> QED BY <1>5, <3>1
  <2> QED BY <1>3, <1>4, <1>6, <2>1
<1> QED BY <1>1, <1>4, <1>7 DEF m, n, t

\* What an octet is encoded as: itself, or a FESC and the one of the two codes
\* that gives it back.
LEMMA EscapedIs ==
  ASSUME NEW chr \in KissOctets
  PROVE  /\ Escaped(chr) \in Seq(KissOctets)
         /\ chr \in {"FEND", "FESC"} =>
              /\ Len(Escaped(chr)) = 2 /\ Escaped(chr)[1] = "FESC"
              /\ Escaped(chr)[2] # "FEND" /\ Unescaped(Escaped(chr)[2]) = <<chr>>
         /\ chr \notin {"FEND", "FESC"} =>
              Len(Escaped(chr)) = 1 /\ Escaped(chr)[1] = chr
<1>1. {"FEND", "FESC", "TFEND", "TFESC"} \subseteq KissOctets
  BY DEF KissOctets, Special
<1>2. CASE chr = "FEND"
  <2>1. Escaped(chr) = <<"FESC", "TFEND">>
    BY <1>2 DEF Escaped
  <2>2. Unescaped("TFEND") = <<"FEND">>
    BY DEF Unescaped
  <2>3. <<"FESC", "TFEND">> \in Seq(KissOctets)
    BY <1>1
  <2>4. /\ Len(<<"FESC", "TFEND">>) = 2 /\ <<"FESC", "TFEND">>[1] = "FESC"
        /\ <<"FESC", "TFEND">>[2] = "TFEND"
    OBVIOUS
  <2>5. /\ Escaped(chr) \in Seq(KissOctets) /\ Len(Escaped(chr)) = 2
        /\ Escaped(chr)[1] = "FESC" /\ Escaped(chr)[2] = "TFEND"
    BY <2>1, <2>3, <2>4
  <2> QED BY <1>2, <2>2, <2>5
<1>3. CASE chr = "FESC"
  <2>1. Escaped(chr) = <<"FESC", "TFESC">>
    BY <1>3 DEF Escaped
  <2>2. Unescaped("TFESC") = <<"FESC">>
    BY DEF Unescaped
  <2>3. <<"FESC", "TFESC">> \in Seq(KissOctets)
    BY <1>1
  <2>4. /\ Len(<<"FESC", "TFESC">>) = 2 /\ <<"FESC", "TFESC">>[1] = "FESC"
        /\ <<"FESC", "TFESC">>[2] = "TFESC"
    OBVIOUS
  <2>5. /\ Escaped(chr) \in Seq(KissOctets) /\ Len(Escaped(chr)) = 2
        /\ Escaped(chr)[1] = "FESC" /\ Escaped(chr)[2] = "TFESC"
    BY <2>1, <2>3, <2>4
  <2> QED BY <1>3, <2>2, <2>5
<1>4. CASE chr \notin {"FEND", "FESC"}
  <2>1. Escaped(chr) = <<chr>>
    BY <1>4 DEF Escaped
  <2> QED BY <1>4, <2>1
<1> QED BY <1>2, <1>3, <1>4

\* W[i] is the code of the first i octets of q, and begins the code of all of it.
Encodes(W, q) ==
  /\ W \in [0 .. Len(q) -> Seq(KissOctets)]
  /\ W[0] = <<>>
  /\ \A i \in 1 .. Len(q) : W[i] = W[i - 1] \o Escaped(q[i])
  /\ Body(q) = W[Len(q)]
  /\ \A i \in 0 .. Len(q) : /\ Len(W[i]) <= Len(Body(q))
                            /\ \A k \in 1 .. Len(W[i]) : Body(q)[k] = W[i][k]

LEMMA Encoding ==
  ASSUME NEW q \in Seq(KissOctets)
  PROVE  \E W : Encodes(W, q)
<1> DEFINE N == Len(q)
<1>1. N \in Nat /\ Escapes(q) \in Seq(Seq(KissOctets)) /\ Len(Escapes(q)) = N
  <2>1. \A j \in 1 .. N : Escaped(q[j]) \in Seq(KissOctets)
    BY EscapedIs
  <2>2. DOMAIN q = 1 .. N /\ N \in Nat
    OBVIOUS
  <2>3. Escapes(q) = [j \in 1 .. N |-> Escaped(q[j])]
    BY <2>2 DEF Escapes
  <2> HIDE DEF N
  <2> QED BY <2>1, <2>2, <2>3
<1>2. \A j \in 1 .. N : Escapes(q)[j] = Escaped(q[j])
  BY DEF Escapes
<1>3. PICK W : Flattens(W, Escapes(q), KissOctets)
  BY <1>1, FlattenRuns
<1>4. /\ W \in [0 .. N -> Seq(KissOctets)] /\ W[0] = <<>> /\ Body(q) = W[N]
      /\ \A i \in 1 .. N : W[i] = W[i - 1] \o Escaped(q[i])
  BY <1>1, <1>2, <1>3 DEF Flattens, Body
<1> DEFINE Begins(i, m) == /\ Len(W[i]) <= Len(W[m])
                           /\ \A k \in 1 .. Len(W[i]) : W[m][k] = W[i][k]
           T == {m \in 0 .. N : \A i \in 0 .. m : Begins(i, m)}
<1>5. 0 .. N \subseteq T
  <2>1. 0 \in T
    BY <1>1, <1>4, SMT
  <2>2. ASSUME NEW m \in 0 .. N - 1, m \in T PROVE m + 1 \in T
    <3>1. m \in 0 .. N /\ m + 1 \in 1 .. N /\ (m + 1) - 1 = m /\ m + 1 \in 0 .. N
      BY <1>1, SMT
    <3>2. W[m + 1] = W[m] \o Escaped(q[m + 1]) /\ W[m] \in Seq(KissOctets)
      BY <1>4, <3>1
    <3>3. Escaped(q[m + 1]) \in Seq(KissOctets)
      BY <3>1, EscapedIs
    <3>4. /\ Len(W[m]) <= Len(W[m + 1]) /\ Len(W[m]) \in Nat /\ Len(W[m + 1]) \in Nat
          /\ \A k \in 1 .. Len(W[m]) : W[m + 1][k] = W[m][k]
      <4> DEFINE a == W[m]
                 w == Escaped(q[m + 1])
      <4>1. a \in Seq(KissOctets) /\ w \in Seq(KissOctets) /\ W[m + 1] = a \o w
        BY <3>2, <3>3
      <4> HIDE DEF a, w
      <4>2. /\ Len(a) <= Len(a \o w) /\ Len(a) \in Nat /\ a \o w \in Seq(KissOctets)
            /\ \A k \in 1 .. Len(a) : (a \o w)[k] = a[k]
        BY <4>1, Together
      <4>3. Len(a \o w) \in Nat
        BY <4>2
      <4> QED BY <4>1, <4>2, <4>3 DEF a
    <3>5. ASSUME NEW i \in 0 .. m PROVE Begins(i, m + 1)
      <4>1. Begins(i, m) /\ i \in 0 .. N
        BY <2>2, <3>1
      <4>2. Len(W[i]) \in Nat
        BY <1>4, <4>1
      <4>3. Len(W[i]) <= Len(W[m + 1]) /\ \A k \in 1 .. Len(W[i]) : k \in 1 .. Len(W[m])
        BY <3>4, <4>1, <4>2
      <4> QED BY <4>1, <4>3, <3>4
    <3>6. Begins(m + 1, m + 1)
      <4>1. W[m + 1] \in Seq(KissOctets)
        BY <1>4, <3>1
      <4> QED BY <4>1
    <3>7. \A i \in 0 .. m + 1 : i \in 0 .. m \/ i = m + 1
      BY <3>1, SMT
    <3> HIDE DEF Begins
    <3> QED BY <3>1, <3>5, <3>6, <3>7
  <2> HIDE DEF T
  <2> QED BY <1>1, <2>1, <2>2, UpTo
<1>6. N \in 0 .. N
  BY <1>1
<1>7. \A i \in 0 .. N : Begins(i, N)
  BY <1>5, <1>6
<1> QED BY <1>4, <1>7 DEF Encodes

\* Where an octet's code is, and how long the codes are.
LEMMA CodeAt ==
  ASSUME NEW q \in Seq(KissOctets), NEW W, Encodes(W, q), NEW i \in 1 .. Len(q)
  PROVE  /\ Len(W[i - 1]) \in Nat /\ Len(W[i]) \in Nat
         /\ Len(W[i]) = Len(W[i - 1]) + Len(Escaped(q[i]))
         /\ Len(W[i]) <= Len(Body(q))
         /\ \A k \in 1 .. Len(Escaped(q[i])) : Body(q)[Len(W[i - 1]) + k] = Escaped(q[i])[k]
<1>1. i - 1 \in 0 .. Len(q) /\ i \in 0 .. Len(q) /\ q[i] \in KissOctets
  <2>1. Len(q) \in Nat
    OBVIOUS
  <2> QED BY <2>1, SMT
<1>2. W[i - 1] \in Seq(KissOctets) /\ W[i] \in Seq(KissOctets) /\ Escaped(q[i]) \in Seq(KissOctets)
  <2>1. W[i - 1] \in Seq(KissOctets) /\ W[i] \in Seq(KissOctets)
    BY <1>1 DEF Encodes
  <2> QED BY <1>1, <2>1, EscapedIs
<1>3. W[i] = W[i - 1] \o Escaped(q[i])
  BY DEF Encodes
<1>4. Len(W[i]) <= Len(Body(q)) /\ \A k \in 1 .. Len(W[i]) : Body(q)[k] = W[i][k]
  BY <1>1 DEF Encodes
<1> DEFINE a == W[i - 1]
           w == Escaped(q[i])
<1>5. /\ Len(a) \in Nat /\ Len(a \o w) = Len(a) + Len(w)
      /\ \A k \in 1 .. Len(w) : /\ Len(a) + k \in 1 .. Len(a \o w)
                                /\ (a \o w)[Len(a) + k] = w[k]
  <2>1. a \in Seq(KissOctets) /\ w \in Seq(KissOctets)
    BY <1>2
  <2> HIDE DEF a, w
  <2> QED BY <2>1, Together
<1>6. Len(W[i]) \in Nat
  BY <1>2
<1> QED BY <1>3, <1>4, <1>5, <1>6

\* No FEND is within the body of a frame, and it is at most twice as long as
\* what it carries.
LEMMA BodyIs ==
  ASSUME NEW q \in Seq(KissOctets)
  PROVE  /\ Body(q) \in Seq(KissOctets) /\ NoFend(Body(q))
         /\ Len(q) <= Len(Body(q)) /\ Len(Body(q)) <= 2 * Len(q)
<1>1. PICK W : Encodes(W, q)
  BY Encoding
<1> DEFINE N == Len(q)
           T == {m \in 0 .. N : /\ NoFend(W[m])
                                /\ m <= Len(W[m]) /\ Len(W[m]) <= 2 * m}
<1>2. N \in Nat /\ W \in [0 .. N -> Seq(KissOctets)] /\ W[0] = <<>> /\ Body(q) = W[N]
  BY <1>1 DEF Encodes
<1>3. 0 \in T
  BY <1>2, SMT DEF NoFend
<1>4. ASSUME NEW m \in 0 .. N - 1, m \in T PROVE m + 1 \in T
  <2>1. m \in 0 .. N /\ m + 1 \in 1 .. N /\ (m + 1) - 1 = m /\ m + 1 \in 0 .. N
    BY <1>2, SMT
  <2>2. W[m + 1] = W[m] \o Escaped(q[m + 1]) /\ W[m] \in Seq(KissOctets)
    BY <1>1, <2>1 DEF Encodes
  <2>3. /\ Escaped(q[m + 1]) \in Seq(KissOctets)
        /\ Len(Escaped(q[m + 1])) \in 1 .. 2
        /\ \A k \in 1 .. Len(Escaped(q[m + 1])) : Escaped(q[m + 1])[k] # "FEND"
    <3>1. q[m + 1] \in KissOctets
      BY <2>1
    <3> DEFINE c == q[m + 1]
    <3> HIDE DEF c
    <3>2. c \in KissOctets
      BY <3>1 DEF c
    <3>3. /\ Escaped(c) \in Seq(KissOctets) /\ Len(Escaped(c)) \in 1 .. 2
          /\ \A k \in 1 .. Len(Escaped(c)) : Escaped(c)[k] # "FEND"
      <4>1. CASE c \in {"FEND", "FESC"}
        <5>1. Len(Escaped(c)) = 2 /\ Escaped(c)[1] = "FESC" /\ Escaped(c)[2] # "FEND"
          BY <3>2, <4>1, EscapedIs
        <5>2. \A k \in 1 .. 2 : k = 1 \/ k = 2
          BY SMT
        <5> QED BY <3>2, <5>1, <5>2, EscapedIs
      <4>2. CASE c \notin {"FEND", "FESC"}
        <5>1. Len(Escaped(c)) = 1 /\ Escaped(c)[1] # "FEND"
          BY <3>2, <4>2, EscapedIs
        <5>2. \A k \in 1 .. 1 : k = 1
          BY SMT
        <5> QED BY <3>2, <5>1, <5>2, EscapedIs
      <4> QED BY <4>1, <4>2
    <3> QED BY <3>3 DEF c
  <2> DEFINE a == W[m]
             w == Escaped(q[m + 1])
  <2>4. /\ Len(a) \in Nat /\ Len(a \o w) = Len(a) + Len(w)
        /\ \A k \in 1 .. Len(a) : (a \o w)[k] = a[k]
        /\ \A k \in 1 .. Len(a \o w) :
              ~(k <= Len(a)) => k - Len(a) \in 1 .. Len(w) /\ (a \o w)[k] = w[k - Len(a)]
    <3>1. a \in Seq(KissOctets) /\ w \in Seq(KissOctets)
      BY <2>2, <2>3
    <3> HIDE DEF a, w
    <3> QED BY <3>1, Together
  <2>5. NoFend(W[m + 1])
    <3>1. NoFend(a) /\ \A k \in 1 .. Len(w) : w[k] # "FEND"
      BY <1>4, <2>3
    <3>2. W[m + 1] = a \o w
      BY <2>2
    <3> HIDE DEF a, w
    <3>3. ASSUME NEW k \in 1 .. Len(a \o w) PROVE (a \o w)[k] # "FEND"
      <4>1. CASE k <= Len(a)
        <5>1. k \in 1 .. Len(a)
          BY <2>4, <4>1, SMT
        <5> QED BY <2>4, <3>1, <5>1 DEF NoFend
      <4>2. CASE ~(k <= Len(a))
        BY <2>4, <3>1, <4>2
      <4> QED BY <4>1, <4>2
    <3> QED BY <3>2, <3>3 DEF NoFend
  <2>6. m + 1 <= Len(W[m + 1]) /\ Len(W[m + 1]) <= 2 * (m + 1)
    <3>1. m <= Len(a) /\ Len(a) <= 2 * m /\ Len(w) \in 1 .. 2 /\ W[m + 1] = a \o w
      BY <1>4, <2>2, <2>3
    <3>2. m \in Nat /\ Len(a) \in Nat
      BY <1>2, <2>4
    <3> DEFINE la == Len(a)
               lb == Len(w)
    <3>3. /\ Len(W[m + 1]) = la + lb /\ la \in Nat /\ lb \in 1 .. 2
          /\ m <= la /\ la <= 2 * m
      BY <2>4, <3>1, <3>2
    <3> HIDE DEF a, w, la, lb
    <3>4. m + 1 <= la + lb /\ la + lb <= 2 * (m + 1)
      BY <3>2, <3>3, SMT
    <3> QED BY <3>3, <3>4
  <2> QED BY <2>1, <2>5, <2>6
<1>5. 0 .. N \subseteq T
  <2> HIDE DEF T, N
  <2> QED BY <1>2, <1>3, <1>4, UpTo
<1>6. N \in T
  BY <1>2, <1>5
<1> QED BY <1>2, <1>6

\* What is before an index, and the next one.
LEMMA OneMore ==
  ASSUME NEW S, NEW q \in Seq(S), NEW m \in 0 .. Len(q), m < Len(q)
  PROVE  /\ m + 1 \in 1 .. Len(q) /\ m + 1 \in 0 .. Len(q) /\ (m + 1) - 1 = m
         /\ SubSeq(q, 1, m) \in Seq(S) /\ q[m + 1] \in S
         /\ Append(SubSeq(q, 1, m), q[m + 1]) = SubSeq(q, 1, m + 1)
         /\ SubSeq(q, 1, m) \o <<q[m + 1]>> = SubSeq(q, 1, m + 1)
<1>1. Len(q) \in Nat
  OBVIOUS
<1>2. m + 1 \in 1 .. Len(q) /\ m + 1 \in 0 .. Len(q) /\ (m + 1) - 1 = m /\ m \in Int
  BY <1>1, SMT
<1>3. q[m + 1] \in S
  BY <1>2
<1>4. SubSeq(q, 1, m) \in Seq(S) /\ Len(SubSeq(q, 1, m)) = m
  OBVIOUS
<1>5. SubSeq(q, 1, m) \o <<q[m + 1]>> = SubSeq(q, 1, m + 1)
  BY <1>2, <1>3, <1>4
<1>6. Append(SubSeq(q, 1, m), q[m + 1]) = SubSeq(q, 1, m) \o <<q[m + 1]>>
  BY <1>3, <1>4
<1> QED BY <1>2, <1>3, <1>4, <1>5, <1>6

\* kiss_unwrap after k octets of the code of q: it has put out the first m octets
\* of q, and if it has just seen a FESC then the next one is a special one.
Unwrapped(W, q, k, acc) ==
  \E m \in 0 .. Len(q) :
    \/ /\ acc = [escaped_mode |-> FALSE, out |-> SubSeq(q, 1, m)]
       /\ k = Len(W[m])
    \/ /\ acc = [escaped_mode |-> TRUE, out |-> SubSeq(q, 1, m)]
       /\ m < Len(q) /\ q[m + 1] \in {"FEND", "FESC"}
       /\ k = Len(W[m]) + 1

\* One octet more.
LEMMA UnwrapStep ==
  ASSUME NEW q \in Seq(KissOctets), NEW W, Encodes(W, q),
         NEW k \in 0 .. Len(Body(q)) - 1, NEW acc, Unwrapped(W, q, k, acc)
  PROVE  Unwrapped(W, q, k + 1, Unwrap(acc, Body(q)[k + 1]))
<1>0. k \in Nat /\ k < Len(Body(q)) /\ Len(q) \in Nat /\ Len(Body(q)) \in Nat
  <2>1. Len(Body(q)) \in Nat
    BY BodyIs
  <2> QED BY <2>1, SMT
<1>1. PICK m \in 0 .. Len(q) :
        \/ /\ acc = [escaped_mode |-> FALSE, out |-> SubSeq(q, 1, m)]
           /\ k = Len(W[m])
        \/ /\ acc = [escaped_mode |-> TRUE, out |-> SubSeq(q, 1, m)]
           /\ m < Len(q) /\ q[m + 1] \in {"FEND", "FESC"}
           /\ k = Len(W[m]) + 1
  BY DEF Unwrapped
<1>2. m < Len(q)
  <2> SUFFICES ASSUME m = Len(q), k = Len(W[m]) PROVE FALSE
    BY <1>0, <1>1, SMT
  <2>1. Len(W[m]) = Len(Body(q))
    BY DEF Encodes
  <2> QED BY <1>0, <2>1, SMT
<1> DEFINE chr == q[m + 1]
           esc == Escaped(chr)
<1>3. /\ m + 1 \in 1 .. Len(q) /\ m + 1 \in 0 .. Len(q) /\ chr \in KissOctets
      /\ SubSeq(q, 1, m) \in Seq(KissOctets)
      /\ Append(SubSeq(q, 1, m), chr) = SubSeq(q, 1, m + 1)
      /\ SubSeq(q, 1, m) \o <<chr>> = SubSeq(q, 1, m + 1)
  BY <1>2, OneMore
<1>4. /\ Len(W[m]) \in Nat
      /\ Len(W[m + 1]) = Len(W[m]) + Len(esc)
      /\ \A i \in 1 .. Len(esc) : Body(q)[Len(W[m]) + i] = esc[i]
  <2>1. (m + 1) - 1 = m
    BY <1>2, OneMore
  <2>2. /\ Len(W[(m + 1) - 1]) \in Nat
        /\ Len(W[m + 1]) = Len(W[(m + 1) - 1]) + Len(esc)
        /\ \A i \in 1 .. Len(esc) : Body(q)[Len(W[(m + 1) - 1]) + i] = esc[i]
    <3> DEFINE i == m + 1
    <3>1. i \in 1 .. Len(q) /\ esc = Escaped(q[i])
      BY <1>3
    <3> HIDE DEF i, esc
    <3> QED BY <3>1, CodeAt DEF i
  <2> QED BY <2>1, <2>2
<1>5. /\ chr \in {"FEND", "FESC"} =>
              /\ Len(esc) = 2 /\ esc[1] = "FESC"
              /\ esc[2] # "FEND" /\ Unescaped(esc[2]) = <<chr>>
      /\ chr \notin {"FEND", "FESC"} => Len(esc) = 1 /\ esc[1] = chr
  BY <1>3, EscapedIs
<1> DEFINE out == SubSeq(q, 1, m)
           next == Unwrap(acc, Body(q)[k + 1])
<1> HIDE DEF chr, esc
<1>6. CASE acc = [escaped_mode |-> FALSE, out |-> out] /\ k = Len(W[m])
  <2>1. Body(q)[k + 1] = esc[1]
    <3>1. 1 \in 1 .. Len(esc)
      BY <1>5, SMT
    <3> QED BY <1>4, <1>6, <3>1
  <2>2. CASE chr \in {"FEND", "FESC"}
    <3>1. next = [escaped_mode |-> TRUE, out |-> out]
      BY <1>5, <1>6, <2>1, <2>2 DEF Unwrap
    <3> QED BY <1>2, <1>6, <2>2, <3>1 DEF Unwrapped, chr
  <2>3. CASE chr \notin {"FEND", "FESC"}
    <3>1. next = [escaped_mode |-> FALSE, out |-> Append(out, chr)]
      BY <1>5, <1>6, <2>1, <2>3 DEF Unwrap
    <3>2. k + 1 = Len(W[m + 1])
      BY <1>4, <1>5, <1>6, <2>3
    <3> QED BY <1>3, <3>1, <3>2 DEF Unwrapped
  <2> QED BY <2>2, <2>3
<1>7. CASE /\ acc = [escaped_mode |-> TRUE, out |-> out] /\ k = Len(W[m]) + 1
           /\ chr \in {"FEND", "FESC"}
  <2>1. 2 \in 1 .. Len(esc) /\ k + 1 = Len(W[m]) + 2 /\ k + 1 = Len(W[m + 1])
    <3> DEFINE a == Len(W[m])
               w == Len(esc)
               c == Len(W[m + 1])
    <3>1. a \in Nat /\ c = a + w /\ w = 2 /\ k = a + 1
      BY <1>4, <1>5, <1>7
    <3> HIDE DEF a, w, c
    <3>2. 2 \in 1 .. w /\ k + 1 = a + 2 /\ k + 1 = c
      BY <3>1, SMT
    <3> QED BY <3>2 DEF a, w, c
  <2>2. Body(q)[k + 1] = esc[2]
    BY <1>4, <2>1
  <2>3. next = [escaped_mode |-> FALSE, out |-> out \o <<chr>>]
    BY <1>5, <1>7, <2>2 DEF Unwrap
  <2> QED BY <1>3, <2>1, <2>3 DEF Unwrapped
<1> QED BY <1>1, <1>6, <1>7 DEF chr

\* kiss_unwrap of the code of q gives q, and of the beginning of the code the
\* beginning of q.
LEMMA UnwrapPart ==
  ASSUME NEW q \in Seq(KissOctets), NEW K \in 0 .. Len(Body(q))
  PROVE  \E m \in 0 .. Len(q) :
            /\ FoldLeft(Unwrap, Unwrapped0, SubSeq(Body(q), 1, K)).out = SubSeq(q, 1, m)
            /\ K = Len(Body(q)) => m = Len(q)
<1> DEFINE part == SubSeq(Body(q), 1, K)
<1>1. PICK W : Encodes(W, q)
  BY Encoding
<1>2. /\ Body(q) \in Seq(KissOctets) /\ Len(Body(q)) \in Nat /\ K \in Nat
      /\ part \in Seq(KissOctets) /\ Len(part) = K
      /\ \A k \in 1 .. K : part[k] = Body(q)[k]
  <2>1. Body(q) \in Seq(KissOctets)
    BY BodyIs
  <2> DEFINE B == Body(q)
  <2>2. B \in Seq(KissOctets) /\ K \in 0 .. Len(B)
    BY <2>1
  <2> HIDE DEF B
  <2>3. /\ SubSeq(B, 1, K) \in Seq(KissOctets) /\ Len(SubSeq(B, 1, K)) = K /\ Len(B) \in Nat /\ K \in Nat
        /\ \A k \in 1 .. K : SubSeq(B, 1, K)[k] = B[k]
    BY <2>2
  <2> QED BY <2>2, <2>3 DEF B
<1>3. PICK h : /\ h[0] = Unwrapped0
               /\ \A k \in 1 .. Len(part) : h[k] = Unwrap(h[k - 1], part[k])
               /\ FoldLeft(Unwrap, Unwrapped0, part) = h[Len(part)]
  BY <1>2, UnwrapRuns
<1> DEFINE T == {k \in 0 .. K : Unwrapped(W, q, k, h[k])}
<1> HIDE DEF part
<1>4. 0 \in T
  <2>1. 0 \in 0 .. Len(q) /\ Len(W[0]) = 0 /\ SubSeq(q, 1, 0) = <<>> /\ 0 \in 0 .. K
    BY <1>1, <1>2, SubSeqEmpty DEF Encodes
  <2> QED BY <1>3, <2>1 DEF Unwrapped, Unwrapped0
<1>5. ASSUME NEW k \in 0 .. K - 1, k \in T PROVE k + 1 \in T
  <2>1. /\ k \in 0 .. Len(Body(q)) - 1 /\ k + 1 \in 1 .. K /\ (k + 1) - 1 = k
        /\ k + 1 \in 0 .. K
    BY <1>2, SMT
  <2>2. h[k + 1] = Unwrap(h[k], Body(q)[k + 1])
    BY <1>2, <1>3, <2>1
  <2>3. Unwrapped(W, q, k, h[k])
    BY <1>5
  <2>4. Unwrapped(W, q, k + 1, Unwrap(h[k], Body(q)[k + 1]))
    BY <1>1, <2>1, <2>3, UnwrapStep
  <2> QED BY <2>1, <2>2, <2>4
<1>6. Unwrapped(W, q, K, h[K])
  <2>1. 0 .. K \subseteq T
    <3> HIDE DEF T
    <3> QED BY <1>2, <1>4, <1>5, UpTo
  <2>2. K \in 0 .. K
    BY <1>2
  <2> QED BY <2>1, <2>2
<1>7. PICK m \in 0 .. Len(q) :
        \/ /\ h[K] = [escaped_mode |-> FALSE, out |-> SubSeq(q, 1, m)]
           /\ K = Len(W[m])
        \/ /\ h[K] = [escaped_mode |-> TRUE, out |-> SubSeq(q, 1, m)]
           /\ m < Len(q) /\ q[m + 1] \in {"FEND", "FESC"}
           /\ K = Len(W[m]) + 1
  BY <1>6 DEF Unwrapped
<1>8. h[K].out = SubSeq(q, 1, m)
  BY <1>7
<1>9. ASSUME K = Len(Body(q)), m # Len(q) PROVE FALSE
  <2>1. m < Len(q)
    <3>1. Len(q) \in Nat
      OBVIOUS
    <3> QED BY <1>9, <3>1, SMT
  <2>2. m + 1 \in 1 .. Len(q) /\ (m + 1) - 1 = m /\ q[m + 1] \in KissOctets
    BY <2>1, OneMore
  <2> DEFINE esc == Escaped(q[m + 1])
  <2>3. /\ Len(W[(m + 1) - 1]) \in Nat /\ Len(W[m + 1]) \in Nat
        /\ Len(W[m + 1]) = Len(W[(m + 1) - 1]) + Len(esc)
        /\ Len(W[m + 1]) <= Len(Body(q))
    BY <1>1, <2>2, CodeAt
  <2>4. /\ q[m + 1] \in {"FEND", "FESC"} => Len(esc) = 2
        /\ q[m + 1] \notin {"FEND", "FESC"} => Len(esc) = 1
    BY <2>2, EscapedIs
  <2> HIDE DEF esc
  <2>5. Len(W[m + 1]) = Len(W[m]) + Len(esc) /\ Len(W[m]) \in Nat
    BY <2>2, <2>3
  <2> DEFINE a == Len(W[m])
             w == Len(W[m + 1])
             c == Len(esc)
  <2>6. w = a + c /\ a \in Nat /\ w \in Nat /\ w <= K
    BY <1>9, <2>3, <2>5
  <2>7. \/ K = a
        \/ K = a + 1 /\ c = 2
    BY <1>7, <2>4
  <2>8. c = 1 \/ c = 2
    BY <2>4
  <2> HIDE DEF a, w, c
  <2> QED BY <1>2, <2>6, <2>7, <2>8, SMT
<1> QED BY <1>2, <1>3, <1>8, <1>9 DEF part

\* A frame: a FEND, the code without one, a FEND.
LEMMA FrameIs ==
  ASSUME NEW q \in Seq(KissOctets)
  PROVE  /\ kiss_encapsulate(q) = <<"FEND">> \o Body(q) \o <<"FEND">>
         /\ kiss_encapsulate(q) \in Seq(KissOctets)
         /\ Len(Body(q)) \in Nat
         /\ Len(kiss_encapsulate(q)) = Len(Body(q)) + 2
         /\ kiss_encapsulate(q)[1] = "FEND"
         /\ kiss_encapsulate(q)[Len(Body(q)) + 2] = "FEND"
         /\ \A k \in 1 .. Len(Body(q)) : kiss_encapsulate(q)[k + 1] = Body(q)[k]
<1>1. kiss_encapsulate(q) = <<"FEND">> \o Body(q) \o <<"FEND">>
  BY DEF kiss_encapsulate, Body, Escapes
<1> DEFINE B == Body(q)
<1>2. B \in Seq(KissOctets) /\ "FEND" \in KissOctets
  BY BodyIs DEF KissOctets, Special
<1> HIDE DEF B
<1>3. /\ Len(B) \in Nat
      /\ <<"FEND">> \o B \o <<"FEND">> \in Seq(KissOctets)
      /\ Len(<<"FEND">> \o B \o <<"FEND">>) = Len(B) + 2
      /\ (<<"FEND">> \o B \o <<"FEND">>)[1] = "FEND"
      /\ (<<"FEND">> \o B \o <<"FEND">>)[Len(B) + 2] = "FEND"
      /\ \A k \in 1 .. Len(B) : (<<"FEND">> \o B \o <<"FEND">>)[k + 1] = B[k]
  BY <1>2
<1> QED BY <1>1, <1>3 DEF B

\* A frame of q that is ended after n octets is unwrapped to the beginning of q,
\* and to q if it is whole.
LEMMA FrameUnwraps ==
  ASSUME NEW q \in Seq(KissOctets), NEW n \in 1 .. Len(kiss_encapsulate(q)) - 1
  PROVE  /\ \E m \in 0 .. Len(q) :
              kiss_unwrap(SubSeq(kiss_encapsulate(q), 1, n) \o <<"FEND">>) = SubSeq(q, 1, m)
         /\ n = Len(kiss_encapsulate(q)) - 1 =>
              /\ SubSeq(kiss_encapsulate(q), 1, n) \o <<"FEND">> = kiss_encapsulate(q)
              /\ kiss_unwrap(kiss_encapsulate(q)) = q
<1> DEFINE E == kiss_encapsulate(q)
           B == Body(q)
           in == SubSeq(E, 1, n) \o <<"FEND">>
           part == SubSeq(B, 1, n - 1)
<1>1. /\ E \in Seq(KissOctets) /\ B \in Seq(KissOctets) /\ Len(B) \in Nat /\ Len(E) = Len(B) + 2
      /\ E[1] = "FEND" /\ E[Len(B) + 2] = "FEND"
      /\ \A k \in 1 .. Len(B) : E[k + 1] = B[k]
      /\ "FEND" \in KissOctets
  BY FrameIs, BodyIs DEF KissOctets, Special
<1>2. kiss_unwrap(in) = FoldLeft(Unwrap, Unwrapped0, SubSeq(in, 2, Len(in) - 1)).out
  BY DEF kiss_unwrap, Unwrapped0
<1> DEFINE inner == SubSeq(in, 2, Len(in) - 1)
<1>3. inner = part /\ n - 1 \in 0 .. Len(B)
  <2> HIDE DEF E, B
  <2>1. n \in Nat /\ n >= 1 /\ n < Len(E) /\ n - 1 \in 0 .. Len(B)
    <3> DEFINE w == Len(B)
               e == Len(E)
    <3>1. w \in Nat /\ e = w + 2 /\ n \in 1 .. e - 1
      BY <1>1 DEF E
    <3> HIDE DEF w, e
    <3>2. n \in Nat /\ n >= 1 /\ n < e /\ n - 1 \in 0 .. w
      BY <3>1, SMT
    <3> QED BY <3>2 DEF w, e
  <2>2. /\ SubSeq(E, 1, n) \in Seq(KissOctets) /\ Len(SubSeq(E, 1, n)) = n
        /\ \A k \in 1 .. n : SubSeq(E, 1, n)[k] = E[k]
    BY <1>1, <2>1
  <2>3. in \in Seq(KissOctets) /\ Len(in) = n + 1 /\ \A k \in 1 .. n : in[k] = E[k]
    BY <1>1, <2>1, <2>2
  <2> HIDE DEF in
  <2>4. /\ inner \in Seq(KissOctets) /\ Len(inner) = n - 1
        /\ \A k \in 1 .. n - 1 : inner[k] = in[k + 1]
    BY <2>1, <2>3
  <2>5. /\ part \in Seq(KissOctets) /\ Len(part) = n - 1
        /\ \A k \in 1 .. n - 1 : part[k] = B[k]
    BY <1>1, <2>1
  <2>6. ASSUME NEW k \in 1 .. n - 1 PROVE inner[k] = part[k]
    <3>1. k + 1 \in 1 .. n /\ k \in 1 .. Len(B)
      BY <1>1, <2>1, SMT
    <3> QED BY <1>1, <2>3, <2>4, <2>5, <3>1
  <2> HIDE DEF inner, part
  <2> QED BY <2>1, <2>4, <2>5, <2>6, SeqEqual
<1>4. PICK m \in 0 .. Len(q) :
        /\ FoldLeft(Unwrap, Unwrapped0, part).out = SubSeq(q, 1, m)
        /\ n - 1 = Len(B) => m = Len(q)
  BY <1>3, UnwrapPart
<1>5. kiss_unwrap(in) = SubSeq(q, 1, m)
  BY <1>2, <1>3, <1>4
<1>6. ASSUME n = Len(E) - 1 PROVE in = E /\ kiss_unwrap(E) = q
  <2>1. in = E
    <3> HIDE DEF E, B
    <3>1. /\ SubSeq(E, 1, n) \in Seq(KissOctets) /\ Len(SubSeq(E, 1, n)) = n
          /\ \A k \in 1 .. n : SubSeq(E, 1, n)[k] = E[k]
          /\ n \in Nat /\ n + 1 = Len(E) /\ E[n + 1] = "FEND"
      BY <1>1, <1>6
    <3>2. /\ in \in Seq(KissOctets) /\ Len(in) = Len(E) /\ \A k \in 1 .. n : in[k] = E[k]
          /\ in[n + 1] = "FEND"
      BY <1>1, <3>1
    <3>3. \A k \in 1 .. Len(E) : in[k] = E[k]
      <4>1. \A k \in 1 .. Len(E) : k \in 1 .. n \/ k = n + 1
        BY <3>1, SMT
      <4> QED BY <3>1, <3>2, <4>1
    <3> HIDE DEF in
    <3> QED BY <1>1, <3>2, <3>3, SeqEqual
  <2>2. n - 1 = Len(B)
    BY <1>1, <1>6
  <2>3. SubSeq(q, 1, m) = q
    BY <1>4, <2>2, SubSeqFull
  <2> HIDE DEF in, E
  <2> QED BY <1>5, <2>1, <2>3
<1> QED BY <1>5, <1>6

\* A packet in a frame of its own.
LEMMA PacketIs ==
  ASSUME NEW p \in Packets
  PROVE  /\ p \in Seq(KissOctets) /\ <<DATA_FRAME>> \o p \in Seq(KissOctets)
         /\ Len(p) \in Nat /\ Len(p) >= MinFrameLen /\ Len(p) <= MaxFrameLen
         /\ Len(<<DATA_FRAME>> \o p) = Len(p) + 1
         /\ Head(<<DATA_FRAME>> \o p) = DATA_FRAME /\ Tail(<<DATA_FRAME>> \o p) = p
<1>1. p \in Seq(Special \cup Octets) /\ Len(p) >= MinFrameLen /\ Len(p) <= MaxFrameLen
  <2> DEFINE A == Special \cup Octets
  <2>1. PICK m \in 0 .. MaxFrameLen : p \in [1 .. m -> A]
    BY DEF Packets, BoundedSeq, SeqOf
  <2> HIDE DEF A
  <2>2. p \in Seq(A) /\ Len(p) = m
    <3>1. m \in Nat
      BY KissAssumption, <2>1
    <3> QED BY <2>1, <3>1
  <2>3. Len(p) >= MinFrameLen
    BY DEF Packets
  <2> QED BY <2>1, <2>2, <2>3 DEF A
<1>2. Special \cup Octets \subseteq KissOctets /\ DATA_FRAME \in KissOctets
  BY DEF KissOctets
<1>3. p \in Seq(KissOctets)
  BY <1>1, <1>2, SeqMonotonic
<1> QED BY <1>1, <1>2, <1>3

\* What is unwrapped is made of octets.
LEMMA UnwrapIsSeq ==
  ASSUME NEW in \in Seq(KissOctets)
  PROVE  kiss_unwrap(in) \in Seq(KissOctets)
<1> DEFINE part == SubSeq(in, 2, Len(in) - 1)
<1>1. part \in Seq(KissOctets) /\ Len(part) \in Nat
  <2>1. Len(in) - 1 \in Int /\ 2 \in Int /\ \A i \in 2 .. Len(in) - 1 : in[i] \in KissOctets
    OBVIOUS
  <2>2. part \in Seq(KissOctets)
    <3> DEFINE n == Len(in) - 1
    <3>1. n \in Int /\ \A i \in 2 .. n : in[i] \in KissOctets
      BY <2>1
    <3> HIDE DEF n
    <3>2. SubSeq(in, 2, n) \in Seq(KissOctets)
      BY <3>1, SubSeqProperties
    <3> QED BY <3>2 DEF n
  <2> HIDE DEF part
  <2> QED BY <2>2
<1>2. kiss_unwrap(in) = FoldLeft(Unwrap, Unwrapped0, part).out
  BY DEF kiss_unwrap, Unwrapped0
<1> HIDE DEF part
<1>3. PICK h : /\ h[0] = Unwrapped0
               /\ \A k \in 1 .. Len(part) : h[k] = Unwrap(h[k - 1], part[k])
               /\ FoldLeft(Unwrap, Unwrapped0, part) = h[Len(part)]
  BY <1>1, UnwrapRuns
<1> DEFINE K == Len(part)
           T == {k \in 0 .. K : h[k] \in Unwrapping}
<1>4. 0 \in T
  <2>1. Unwrapped0 \in Unwrapping
    BY DEF Unwrapped0, Unwrapping
  <2>2. 0 \in 0 .. K
    BY <1>1
  <2> QED BY <1>3, <2>1, <2>2
<1>5. ASSUME NEW k \in 0 .. K - 1, k \in T PROVE k + 1 \in T
  <2>1. K \in Nat
    BY <1>1
  <2> HIDE DEF K
  <2>2. k + 1 \in 1 .. K /\ (k + 1) - 1 = k /\ k + 1 \in 0 .. K
    BY <2>1, SMT
  <2>3. h[k + 1] = Unwrap(h[k], part[k + 1]) /\ part[k + 1] \in KissOctets
    BY <1>1, <1>3, <2>2 DEF K
  <2>4. h[k] \in Unwrapping
    BY <1>5
  <2> QED BY <2>2, <2>3, <2>4, UnwrapTyped
<1>6. 0 .. K \subseteq T
  <2>1. K \in Nat
    BY <1>1
  <2> HIDE DEF T, K
  <2> QED BY <2>1, <1>4, <1>5, UpTo
<1>7. h[K] \in Unwrapping
  BY <1>1, <1>6
<1> QED BY <1>2, <1>3, <1>7 DEF Unwrapping

-----------------------------------------------------------------------------
(* The client's side.                                                        *)

\* What the client keeps from octet to octet.
Reading == [items : Seq(Seq(KissOctets)), rest : Seq(KissOctets)]
ReadFrom(begins) == [items |-> <<>>, rest |-> begins]

\* It keeps its type.
LEMMA ReadTyped ==
  ASSUME NEW acc \in Reading, NEW chr \in KissOctets
  PROVE  Read(acc, chr) \in Reading
<1>1. acc.items \in Seq(Seq(KissOctets)) /\ acc.rest \in Seq(KissOctets)
  BY DEF Reading
<1>2. <<chr>> \o acc.rest \o <<chr>> \in Seq(KissOctets)
  BY <1>1
<1>3. kiss_unwrap(<<chr>> \o acc.rest \o <<chr>>) \in Seq(KissOctets)
  BY <1>2, UnwrapIsSeq
<1>4. /\ Append(acc.items, kiss_unwrap(<<chr>> \o acc.rest \o <<chr>>)) \in Seq(Seq(KissOctets))
      /\ Append(acc.rest, chr) \in Seq(KissOctets) /\ <<>> \in Seq(KissOctets)
  BY <1>1, <1>3
<1> QED BY <1>4 DEF Read, Reading

\* What the client reads, octet by octet.
LEMMA ReadRuns ==
  ASSUME NEW seq \in Seq(KissOctets), NEW begins \in Seq(KissOctets)
  PROVE  \E h :
            /\ h[0] = ReadFrom(begins)
            /\ \A k \in 1 .. Len(seq) : h[k] = Read(h[k - 1], seq[k])
            /\ FoldLeft(Read, ReadFrom(begins), seq) = h[Len(seq)]
<1> DEFINE N == Len(seq)
           D == DOMAIN seq
           step == [z \in Reading \X (1 .. N) |-> Read(z[1], seq[z[2]])]
           Eq(g) == g = [s \in SUBSET D |->
                           IF s = {} THEN ReadFrom(begins)
                           ELSE LET x == Max(s) IN Read(g[s \ {x}], seq[x])]
           iter == CHOOSE g : Eq(g)
<1>1. N \in Nat /\ D = 1 .. N /\ \A i \in 1 .. N : seq[i] \in KissOctets
  OBVIOUS
<1>2. ReadFrom(begins) \in Reading
  BY DEF ReadFrom, Reading
<1>3. step \in [Reading \X (1 .. N) -> Reading]
  BY <1>1, ReadTyped
<1>4. PICK g \in [SUBSET (1 .. N) -> Reading] : Descends(g, N, ReadFrom(begins), step)
  <2> HIDE DEF step
  <2> QED BY <1>1, <1>2, <1>3, Descent
<1>5. iter = [s \in SUBSET D |->
                 IF s = {} THEN ReadFrom(begins)
                 ELSE LET x == Max(s) IN Read(iter[s \ {x}], seq[x])]
  <2>1. ASSUME NEW s \in SUBSET D, s # {}
        PROVE  g[s] = Read(g[s \ {Max(s)}], seq[Max(s)])
    <3>1. Max(s) \in 1 .. N
      BY <1>1, <2>1, LargestIn
    <3>2. g[s \ {Max(s)}] \in Reading
      BY <1>1, <1>4
    <3> QED BY <1>1, <1>4, <2>1, <3>1, <3>2 DEF Descends
  <2>2. Eq(g)
    BY <1>1, <1>4, <2>1 DEF Descends
  <2> HIDE DEF Eq
  <2>3. Eq(iter)
    BY <2>2
  <2> QED BY <2>3 DEF Eq
<1>6. FoldLeft(Read, ReadFrom(begins), seq) = iter[D]
  BY DEF FoldLeft, MapThenFoldSet
<1> HIDE DEF iter
<1> DEFINE h == [k \in 0 .. N |-> iter[1 .. k]]
<1>7. {} \in SUBSET D /\ iter[{}] = ReadFrom(begins)
  <2>1. {} \in SUBSET D
    OBVIOUS
  <2> QED BY <1>5, <2>1, Zenon
<1>8. /\ h[0] = ReadFrom(begins)
      /\ \A k \in 1 .. N : /\ 1 .. k \in SUBSET (1 .. N) /\ 1 .. k # {}
                           /\ Max(1 .. k) = k /\ h[k] = iter[1 .. k]
                           /\ h[k - 1] = iter[(1 .. k) \ {Max(1 .. k)}]
  <2>1. N \in Nat /\ iter[{}] = ReadFrom(begins)
    BY <1>1, <1>7
  <2>2. Climbs(h, iter, N, ReadFrom(begins))
    <3> HIDE DEF N
    <3> QED BY <2>1, FromTheLeft
  <2> HIDE DEF h, N
  <2> QED BY <2>2 DEF Climbs
<1>9. ASSUME NEW k \in 1 .. N PROVE h[k] = Read(h[k - 1], seq[k])
  <2>1. iter[1 .. k] = Read(iter[(1 .. k) \ {Max(1 .. k)}], seq[Max(1 .. k)])
    <3>1. 1 .. k \in SUBSET D /\ 1 .. k # {}
      BY <1>1, <1>8
    <3> HIDE DEF D, N, h
    <3> QED BY <1>5, <3>1, Zenon
  <2>2. Max(1 .. k) = k /\ h[k] = iter[1 .. k] /\ h[k - 1] = iter[(1 .. k) \ {Max(1 .. k)}]
    BY <1>8
  <2> HIDE DEF h
  <2> QED BY <2>1, <2>2
<1>10. h[N] = iter[D]
  BY <1>1
<1> HIDE DEF h
<1> QED BY <1>6, <1>8, <1>9, <1>10

\* One octet more for the client: any but a FEND is kept, and a FEND ends what
\* has come since the last one.
LEMMA ReadsOn ==
  ASSUME NEW acc \in Reading, NEW chr \in KissOctets, chr # "FEND"
  PROVE  /\ Read(acc, chr).rest = Append(acc.rest, chr)
         /\ Read(acc, chr).items = acc.items
<1>1. /\ [acc EXCEPT !.rest = Append(@, chr)].rest = Append(acc.rest, chr)
      /\ [acc EXCEPT !.rest = Append(@, chr)].items = acc.items
  BY DEF Reading
<1> QED BY <1>1 DEF Read

LEMMA ReadsEnd ==
  ASSUME NEW acc \in Reading
  PROVE  /\ Read(acc, "FEND").rest = <<>>
         /\ acc.rest # <<>> =>
              Read(acc, "FEND").items =
                Append(acc.items, kiss_unwrap(<<"FEND">> \o acc.rest \o <<"FEND">>))
<1> DEFINE items == Append(acc.items, kiss_unwrap(<<"FEND">> \o acc.rest \o <<"FEND">>))
<1>1. CASE acc.rest # <<>>
  <2>1. Read(acc, "FEND") = [items |-> items, rest |-> <<>>]
    BY <1>1 DEF Read
  <2> HIDE DEF items
  <2>2. Read(acc, "FEND").items = items /\ Read(acc, "FEND").rest = <<>>
    BY <2>1
  <2> QED BY <2>2 DEF items
<1>2. CASE acc.rest = <<>>
  <2>1. Read(acc, "FEND") = acc
    BY <1>2 DEF Read
  <2> QED BY <1>2, <2>1
<1> QED BY <1>1, <1>2

\* So does the client from octet to octet,
LEMMA ReadsTyped ==
  ASSUME NEW seq \in Seq(KissOctets), NEW begins \in Seq(KissOctets), NEW h,
         h[0] = ReadFrom(begins),
         \A k \in 1 .. Len(seq) : h[k] = Read(h[k - 1], seq[k])
  PROVE  \A k \in 0 .. Len(seq) : h[k] \in Reading
<1> DEFINE K == Len(seq)
           T == {k \in 0 .. K : h[k] \in Reading}
<1>1. K \in Nat /\ \A k \in 1 .. K : seq[k] \in KissOctets
  OBVIOUS
<1>2. 0 \in T
  <2>1. ReadFrom(begins) \in Reading
    BY DEF ReadFrom, Reading
  <2>2. 0 \in 0 .. K
    BY <1>1
  <2> QED BY <2>1, <2>2
<1>3. ASSUME NEW k \in 0 .. K - 1, k \in T PROVE k + 1 \in T
  <2>1. \A i \in 1 .. K : h[i] = Read(h[i - 1], seq[i])
    OBVIOUS
  <2> HIDE DEF K
  <2>2. k + 1 \in 1 .. K /\ (k + 1) - 1 = k /\ k + 1 \in 0 .. K
    BY <1>1, SMT
  <2>3. h[k + 1] = Read(h[k], seq[k + 1]) /\ seq[k + 1] \in KissOctets
    BY <1>1, <2>1, <2>2
  <2>4. h[k] \in Reading
    BY <1>3
  <2> QED BY <2>2, <2>3, <2>4, ReadTyped
<1>4. 0 .. K \subseteq T
  <2> HIDE DEF T, K
  <2> QED BY <1>1, <1>2, <1>3, UpTo
<1> QED BY <1>4

\* and what it has left at the end is made of octets.
LEMMA ReadsRest ==
  ASSUME NEW seq \in Seq(KissOctets), stream \in Seq(KissOctets)
  PROVE  ClientReads(seq).rest \in Seq(KissOctets)
<1>1. ClientReads(seq) = FoldLeft(Read, ReadFrom(stream), seq)
  BY DEF ClientReads, ReadFrom
<1>2. PICK h : /\ h[0] = ReadFrom(stream)
               /\ \A k \in 1 .. Len(seq) : h[k] = Read(h[k - 1], seq[k])
               /\ FoldLeft(Read, ReadFrom(stream), seq) = h[Len(seq)]
  BY ReadRuns
<1>3. h[Len(seq)] \in Reading
  <2>1. \A k \in 0 .. Len(seq) : h[k] \in Reading
    BY <1>2, ReadsTyped
  <2>2. Len(seq) \in 0 .. Len(seq)
    OBVIOUS
  <2> QED BY <2>1, <2>2
<1> QED BY <1>1, <1>2, <1>3 DEF Reading

\* The frame of q ends what the client has read with q.
LEMMA FrameIsRead ==
  ASSUME NEW q \in Seq(KissOctets), Len(q) > 0, stream \in Seq(KissOctets)
  PROVE  /\ ClientReads(kiss_encapsulate(q)).items # <<>>
         /\ Last(ClientReads(kiss_encapsulate(q)).items) = q
<1> DEFINE E == kiss_encapsulate(q)
           B == Body(q)
           L == Len(B)
<1>1. /\ E = <<"FEND">> \o B \o <<"FEND">> /\ E \in Seq(KissOctets)
      /\ L \in Nat /\ L >= 1 /\ Len(E) = L + 2
      /\ E[1] = "FEND" /\ E[L + 2] = "FEND"
      /\ \A k \in 1 .. L : E[k + 1] = B[k]
      /\ B \in Seq(KissOctets) /\ NoFend(B)
  <2>1. Len(q) \in Nat /\ Len(q) <= L /\ B \in Seq(KissOctets) /\ NoFend(B)
    BY BodyIs
  <2>2. /\ E = <<"FEND">> \o B \o <<"FEND">> /\ E \in Seq(KissOctets)
        /\ L \in Nat /\ Len(E) = L + 2 /\ E[1] = "FEND" /\ E[L + 2] = "FEND"
        /\ \A k \in 1 .. L : E[k + 1] = B[k]
    BY FrameIs
  <2> HIDE DEF E, L, B
  <2>3. L >= 1
    BY <2>1, <2>2, SMT
  <2> QED BY <2>1, <2>2, <2>3
<1>2. kiss_unwrap(E) = q
  <2>1. Len(E) - 1 \in 1 .. Len(E) - 1
    <3> HIDE DEF E, L
    <3> QED BY <1>1, SMT
  <2> QED BY <2>1, FrameUnwraps
<1>3. ClientReads(E) = FoldLeft(Read, ReadFrom(stream), E)
  BY DEF ClientReads, ReadFrom
<1> HIDE DEF E, B, L
<1>4. PICK h : /\ h[0] = ReadFrom(stream)
               /\ \A k \in 1 .. Len(E) : h[k] = Read(h[k - 1], E[k])
               /\ FoldLeft(Read, ReadFrom(stream), E) = h[Len(E)]
  BY <1>1, ReadRuns
<1>5. \A k \in 0 .. L + 2 : h[k] \in Reading
  BY <1>1, <1>4, ReadsTyped
<1>6. \A k \in 1 .. L + 2 : h[k] = Read(h[k - 1], E[k])
  BY <1>1, <1>4
<1>7. h[1].rest = <<>> /\ h[1] \in Reading
  <2>1. 1 \in 1 .. L + 2 /\ 1 \in 0 .. L + 2 /\ 0 \in 0 .. L + 2 /\ 1 - 1 = 0
    BY <1>1, SMT
  <2>2. h[1] = Read(h[0], "FEND") /\ h[0] \in Reading /\ "FEND" \in KissOctets
    BY <1>1, <1>5, <1>6, <2>1 DEF KissOctets, Special
  <2>3. Read(h[0], "FEND").rest = <<>>
    BY <2>2, ReadsEnd
  <2> QED BY <1>5, <2>1, <2>2, <2>3
<1> DEFINE T == {k \in 0 .. L : h[k + 1].rest = SubSeq(B, 1, k)}
<1>8. 0 \in T
  <2>1. SubSeq(B, 1, 0) = <<>> /\ 0 \in 0 .. L /\ 0 + 1 = 1
    BY <1>1, SubSeqEmpty
  <2> QED BY <1>7, <2>1
<1>9. ASSUME NEW k \in 0 .. L - 1, k \in T PROVE k + 1 \in T
  <2>1. /\ k + 1 \in 0 .. L /\ k + 1 \in 1 .. L /\ k + 1 \in 0 .. L + 2
        /\ (k + 1) + 1 \in 1 .. L + 2 /\ ((k + 1) + 1) - 1 = k + 1
        /\ k \in 0 .. L /\ k < L
    BY <1>1, SMT
  <2>2. h[(k + 1) + 1] = Read(h[k + 1], B[k + 1])
    BY <1>1, <1>6, <2>1
  <2>3. B[k + 1] \in KissOctets /\ B[k + 1] # "FEND"
    BY <1>1, <2>1 DEF NoFend, L
  <2>4. h[k + 1] \in Reading /\ h[k + 1].rest = SubSeq(B, 1, k)
    BY <1>5, <1>9, <2>1
  <2>5. h[(k + 1) + 1].rest = Append(SubSeq(B, 1, k), B[k + 1])
    BY <2>2, <2>3, <2>4, ReadsOn
  <2>6. Append(SubSeq(B, 1, k), B[k + 1]) = SubSeq(B, 1, k + 1)
    BY <1>1, <2>1, OneMore DEF L
  <2> QED BY <2>1, <2>5, <2>6
<1>10. h[L + 1].rest = B /\ h[L + 1] \in Reading
  <2>1. 0 .. L \subseteq T
    <3> HIDE DEF T
    <3> QED BY <1>1, <1>8, <1>9, UpTo
  <2>2. L \in 0 .. L /\ L + 1 \in 0 .. L + 2
    BY <1>1, SMT
  <2>3. SubSeq(B, 1, L) = B
    BY <1>1, SubSeqFull DEF L
  <2> QED BY <1>5, <2>1, <2>2, <2>3
<1>11. h[L + 2].items = Append(h[L + 1].items, kiss_unwrap(E))
  <2>1. L + 2 \in 1 .. L + 2 /\ (L + 2) - 1 = L + 1
    BY <1>1, SMT
  <2>2. h[L + 2] = Read(h[L + 1], "FEND") /\ "FEND" \in KissOctets
    BY <1>1, <1>6, <2>1 DEF KissOctets, Special
  <2>3. B # <<>>
    BY <1>1 DEF L
  <2> DEFINE acc == h[L + 1]
  <2>4. acc \in Reading /\ acc.rest = B
    BY <1>10
  <2> HIDE DEF acc
  <2>5. Read(acc, "FEND").items = Append(acc.items, kiss_unwrap(<<"FEND">> \o B \o <<"FEND">>))
    BY <2>3, <2>4, ReadsEnd
  <2> QED BY <1>1, <2>2, <2>5 DEF acc
<1>12. h[L + 1].items \in Seq(Seq(KissOctets))
  BY <1>10 DEF Reading
<1>13. h[L + 2].items # <<>> /\ Last(h[L + 2].items) = q
  <2> DEFINE items == h[L + 1].items
  <2>1. items \in Seq(Seq(KissOctets)) /\ h[L + 2].items = Append(items, q)
    BY <1>2, <1>11, <1>12
  <2> HIDE DEF items
  <2>2. Append(items, q) # <<>> /\ Append(items, q)[Len(Append(items, q))] = q
    <3> DEFINE A == Seq(KissOctets)
    <3>1. items \in Seq(A) /\ q \in A
      BY <2>1
    <3> HIDE DEF A
    <3>2. /\ Append(items, q) # <<>> /\ Len(Append(items, q)) = Len(items) + 1
          /\ Append(items, q)[Len(items) + 1] = q
      BY <3>1, AppendProperties
    <3> QED BY <3>2
  <2> QED BY <2>1, <2>2 DEF Last
<1> QED BY <1>1, <1>3, <1>4, <1>13 DEF E

-----------------------------------------------------------------------------
(* The collector's side.                                                     *)

\* The frame the client is sending, and how many of its octets were taken.
Here == DataFrame(Last(begun))
Done == Len(Here) - Len(pipe)

\* So far, what has been collected is the beginning of the frame of p.
Begins(msg, p) == \E n \in 1 .. Len(DataFrame(p)) - 1 : msg = SubSeq(DataFrame(p), 1, n)

KissTypeOK ==
  /\ state \in {"searching", "collecting"}
  /\ kiss_msg \in Seq(KissOctets)
  /\ begun \in Seq(Packets)
  /\ pipe \in Seq(KissOctets)
  /\ sending \in Packets \cup {NULL}
  /\ stream \in Seq(KissOctets)

\* What is still to come is the rest of the last packet's frame.
PipeIsRest ==
  pipe # <<>> =>
    /\ begun # <<>>
    /\ Done \in 0 .. Len(Here) - 1
    /\ pipe = SubSeq(Here, Done + 1, Len(Here))

\* Between frames, kiss_msg is left from the last one, or from the one before if
\* the client has begun the next.
LeftOver ==
  state = "collecting" =>
    /\ begun # <<>>
    /\ pipe = <<>> => Begins(kiss_msg, Last(begun))
    /\ pipe # <<>> /\ Done = 0 =>
         kiss_msg = <<"FEND">> \/ \E j \in DOMAIN begun : Begins(kiss_msg, begun[j])

\* Within one, the listener collects all of it that fits, or none.
Collected ==
  state = "collecting" /\ pipe # <<>> /\ Done > 0 =>
    kiss_msg = SubSeq(Here, 1, IF Done <= MAX_KISS_LEN THEN Done ELSE MAX_KISS_LEN)

\* Since a frame was sent whole the listener is in step with the client.
InStep ==
  whole = 1 =>
    /\ pipe = <<>> \/ Done = 0 => state = "searching" \/ kiss_msg = <<"FEND">>
    /\ pipe # <<>> /\ Done > 0 => state = "collecting"

KissInv == KissTypeOK /\ PipeIsRest /\ LeftOver /\ Collected /\ InStep

\* A FEND is at both ends of a packet's frame and nowhere else.
LEMMA DataFrameIs ==
  ASSUME NEW p \in Packets
  PROVE  /\ DataFrame(p) \in Seq(KissOctets) /\ Len(DataFrame(p)) \in Nat
         /\ Len(DataFrame(p)) >= 3 /\ Len(DataFrame(p)) <= 2 * MaxFrameLen + 4
         /\ DataFrame(p)[1] = "FEND" /\ DataFrame(p)[Len(DataFrame(p))] = "FEND"
         /\ \A k \in 2 .. Len(DataFrame(p)) - 1 : DataFrame(p)[k] # "FEND"
<1> DEFINE q == <<DATA_FRAME>> \o p
           E == DataFrame(p)
           B == Body(q)
           n == Len(B)
           l == Len(q)
<1>1. q \in Seq(KissOctets) /\ l = Len(p) + 1 /\ Len(p) \in Nat /\ Len(p) <= MaxFrameLen
  BY PacketIs
<1>2. E = kiss_encapsulate(q)
  BY DEF DataFrame
<1> HIDE DEF q, E
<1>3. /\ E \in Seq(KissOctets) /\ n \in Nat /\ Len(E) = n + 2
      /\ E[1] = "FEND" /\ E[n + 2] = "FEND"
      /\ \A k \in 1 .. n : E[k + 1] = B[k]
  BY <1>1, <1>2, FrameIs
<1>4. B \in Seq(KissOctets) /\ NoFend(B) /\ l <= n /\ n <= 2 * l
  BY <1>1, BodyIs
<1> HIDE DEF B, n
<1>5. Len(E) >= 3 /\ Len(E) <= 2 * MaxFrameLen + 4
  <2> DEFINE a == Len(p)
             e == Len(E)
  <2>1. e = n + 2 /\ n \in Nat /\ l <= n /\ n <= 2 * l /\ l = a + 1 /\ a \in Nat /\ a <= MaxFrameLen
    BY <1>1, <1>3, <1>4
  <2> HIDE DEF a, e, l
  <2>2. e >= 3 /\ e <= 2 * MaxFrameLen + 4
    BY <2>1, KissAssumption, SMT
  <2> QED BY <2>2 DEF e
<1>6. ASSUME NEW k \in 2 .. Len(E) - 1 PROVE E[k] # "FEND"
  <2>1. k - 1 \in 1 .. n /\ (k - 1) + 1 = k
    BY <1>3, SMT
  <2>2. E[(k - 1) + 1] = B[k - 1]
    BY <1>3, <2>1
  <2>3. B[k - 1] # "FEND"
    BY <1>4, <2>1 DEF NoFend, n
  <2> QED BY <2>1, <2>2, <2>3
<1> QED BY <1>3, <1>5, <1>6 DEF E

\* What is queued when the beginning of the frame of p is ended: the beginning of
\* p, and p if the frame is whole.
LEMMA Ending ==
  ASSUME NEW p \in Packets, NEW msg, Begins(msg, p),
         kiss_process_msg(kiss_unwrap(Append(msg, "FEND")))
  PROVE  /\ queued' # NULL => IsPrefix(queued', p)
         /\ Len(msg) = Len(DataFrame(p)) - 1 => queued' = p
<1> DEFINE q == <<DATA_FRAME>> \o p
           E == DataFrame(p)
<1>1. /\ q \in Seq(KissOctets) /\ p \in Seq(KissOctets) /\ Len(p) \in Nat /\ Len(p) >= MinFrameLen
      /\ Len(q) = Len(p) + 1 /\ Head(q) = DATA_FRAME /\ Tail(q) = p
  BY PacketIs
<1>2. E = kiss_encapsulate(q)
  BY DEF DataFrame
<1>3. E \in Seq(KissOctets) /\ Len(E) \in Nat /\ "FEND" \in KissOctets
  BY DataFrameIs DEF KissOctets, Special
<1>4. PICK n \in 1 .. Len(E) - 1 : msg = SubSeq(E, 1, n)
  BY DEF Begins
<1> HIDE DEF E
<1>5. /\ msg \in Seq(KissOctets) /\ Len(msg) = n
      /\ Append(msg, "FEND") = SubSeq(E, 1, n) \o <<"FEND">>
  BY <1>3, <1>4
<1> DEFINE out == kiss_unwrap(Append(msg, "FEND"))
<1>6. PICK m \in 0 .. Len(q) : out = SubSeq(q, 1, m)
  <2> HIDE DEF q
  <2>1. n \in 1 .. Len(kiss_encapsulate(q)) - 1
    BY <1>2
  <2>2. \E m \in 0 .. Len(q) :
          kiss_unwrap(SubSeq(kiss_encapsulate(q), 1, n) \o <<"FEND">>) = SubSeq(q, 1, m)
    BY <1>1, <2>1, FrameUnwraps
  <2>3. out = kiss_unwrap(SubSeq(kiss_encapsulate(q), 1, n) \o <<"FEND">>)
    BY <1>2, <1>5
  <2> HIDE DEF out
  <2> QED BY <2>2, <2>3
<1>7. ASSUME n = Len(E) - 1 PROVE out = q
  <2> HIDE DEF q
  <2> QED BY <1>1, <1>2, <1>4, <1>5, <1>7, FrameUnwraps
<1>8. queued' = IF out # <<>> /\ Head(out) = DATA_FRAME /\ Len(Tail(out)) >= MinFrameLen
                  THEN Tail(out) ELSE NULL
  BY DEF kiss_process_msg
<1> HIDE DEF out
<1>9. ASSUME queued' # NULL PROVE IsPrefix(queued', p)
  <2>1. queued' = Tail(out) /\ out # <<>>
    BY <1>8, <1>9
  <2>2. m >= 1 /\ m - 1 \in 0 .. Len(p)
    <3>1. m # 0
      BY <1>6, <2>1, SubSeqEmpty
    <3> QED BY <1>1, <3>1
  <2>3. Tail(SubSeq(q, 1, m)) = SubSeq(p, 1, m - 1)
    <3> DEFINE s == SubSeq(q, 1, m)
    <3>1. /\ s \in Seq(KissOctets) /\ Len(s) = m /\ \A i \in 1 .. m : s[i] = q[i]
      BY <1>1
    <3>2. /\ \A i \in 1 .. Len(p) : q[i + 1] = p[i]
      BY <1>1
    <3> HIDE DEF s, q
    <3>3. /\ Tail(s) \in Seq(KissOctets) /\ Len(Tail(s)) = m - 1
          /\ \A i \in 1 .. m - 1 : Tail(s)[i] = s[i + 1]
      BY <2>2, <3>1
    <3>4. /\ SubSeq(p, 1, m - 1) \in Seq(KissOctets) /\ Len(SubSeq(p, 1, m - 1)) = m - 1
          /\ \A i \in 1 .. m - 1 : SubSeq(p, 1, m - 1)[i] = p[i]
      BY <1>1, <2>2
    <3>5. ASSUME NEW i \in 1 .. m - 1 PROVE Tail(s)[i] = SubSeq(p, 1, m - 1)[i]
      <4>1. i \in 1 .. Len(p) /\ i + 1 \in 1 .. m
        BY <1>1, <2>2, SMT
      <4> QED BY <3>1, <3>2, <3>3, <3>4, <4>1
    <3> DEFINE t == Tail(s)
               u == SubSeq(p, 1, m - 1)
    <3>6. /\ t \in Seq(KissOctets) /\ u \in Seq(KissOctets) /\ Len(t) = Len(u)
          /\ \A i \in 1 .. Len(t) : t[i] = u[i]
      BY <3>3, <3>4, <3>5
    <3> HIDE DEF t, u
    <3>7. t = u
      BY <3>6, SeqEqual
    <3> QED BY <3>7 DEF t, u, s
  <2>4. queued' = SubSeq(p, 1, m - 1)
    BY <1>6, <2>1, <2>3
  <2>5. IsPrefix(SubSeq(p, 1, m - 1), p)
    <3>1. Len(SubSeq(p, 1, m - 1)) = m - 1 /\ m - 1 <= Len(p)
      BY <1>1, <2>2
    <3>2. SubSeq(SubSeq(p, 1, m - 1), 1, m - 1) = SubSeq(p, 1, m - 1)
      <4> DEFINE u == SubSeq(p, 1, m - 1)
      <4>1. u \in Seq(KissOctets) /\ Len(u) = m - 1
        BY <1>1, <2>2
      <4> HIDE DEF u
      <4>2. SubSeq(u, 1, Len(u)) = u
        BY <4>1, SubSeqFull
      <4> QED BY <4>1, <4>2 DEF u
    <3> QED BY <3>1, <3>2 DEF IsPrefix
  <2> QED BY <2>4, <2>5
<1>10. ASSUME Len(msg) = Len(E) - 1 PROVE queued' = p
  <2>1. out = q
    BY <1>5, <1>7, <1>10
  <2>2. q # <<>>
    BY <1>1
  <2> HIDE DEF q
  <2> QED BY <1>1, <1>8, <2>1, <2>2
<1> QED BY <1>9, <1>10 DEF E

\* The octet that the listener takes next.
LEMMA NextOctet ==
  ASSUME KissTypeOK, PipeIsRest, pipe # <<>>
  PROVE  /\ begun # <<>> /\ Last(begun) \in Packets
         /\ Len(begun) \in DOMAIN begun /\ Last(begun) = begun[Len(begun)]
         /\ Here \in Seq(KissOctets) /\ Len(Here) \in Nat /\ Len(Here) >= 3
         /\ Done \in Nat /\ Done < Len(Here) /\ Len(pipe) = Len(Here) - Done
         /\ Head(pipe) = Here[Done + 1] /\ Head(pipe) \in KissOctets
         /\ Tail(pipe) = SubSeq(Here, Done + 2, Len(Here))
         /\ Tail(pipe) \in Seq(KissOctets) /\ Len(Tail(pipe)) = Len(pipe) - 1
         /\ Tail(pipe) = <<>> <=> Done = Len(Here) - 1
         /\ Len(pipe) = 1 <=> Done = Len(Here) - 1
         /\ Head(pipe) = "FEND" <=> Done = 0 \/ Done = Len(Here) - 1
<1>1. /\ begun # <<>> /\ Last(begun) \in Packets
      /\ Len(begun) \in DOMAIN begun /\ Last(begun) = begun[Len(begun)]
  <2>1. begun # <<>> /\ begun \in Seq(Packets)
    BY DEF KissTypeOK, PipeIsRest
  <2>2. Len(begun) \in 1 .. Len(begun) /\ DOMAIN begun = 1 .. Len(begun)
    BY <2>1
  <2>3. begun[Len(begun)] \in Packets
    BY <2>1, <2>2
  <2> QED BY <2>1, <2>2, <2>3 DEF Last
<1>2. /\ Here \in Seq(KissOctets) /\ Len(Here) \in Nat /\ Len(Here) >= 3
      /\ Here[1] = "FEND" /\ Here[Len(Here)] = "FEND"
      /\ \A k \in 2 .. Len(Here) - 1 : Here[k] # "FEND"
  BY <1>1, DataFrameIs DEF Here
<1> DEFINE l == Len(Here)
           d == Done
           r == Len(pipe)
<1>3. /\ d \in 0 .. l - 1 /\ pipe = SubSeq(Here, d + 1, l) /\ d = l - r
      /\ pipe \in Seq(KissOctets) /\ l \in Nat
  BY <1>2 DEF PipeIsRest, Done, KissTypeOK
<1>4. r \in Nat /\ d \in Nat /\ d < l /\ r = l - d /\ d + 1 \in 1 .. l /\ l \in d + 1 .. l
  <2>1. r \in Nat
    BY <1>3
  <2> HIDE DEF l, d, r
  <2> QED BY <1>3, <2>1, SMT
<1>5. Head(pipe) = Here[d + 1] /\ Tail(pipe) = SubSeq(Here, d + 2, l)
  <2>1. l = Len(Here)
    OBVIOUS
  <2> HIDE DEF l, d, r
  <2>2. (d + 1) + 1 = d + 2
    BY <1>4, SMT
  <2>3. /\ Head(SubSeq(Here, d + 1, l)) = Here[d + 1]
        /\ Tail(SubSeq(Here, d + 1, l)) = SubSeq(Here, (d + 1) + 1, l)
    BY <1>2, <1>4, <2>1, HeadTailOfSubSeq
  <2> QED BY <1>3, <2>2, <2>3
<1>6. Head(pipe) \in KissOctets /\ Tail(pipe) \in Seq(KissOctets) /\ Len(Tail(pipe)) = r - 1
  <2>1. pipe \in Seq(KissOctets) /\ pipe # <<>>
    BY <1>3
  <2> QED BY <2>1, HeadTailProperties
<1>7. Tail(pipe) = <<>> <=> r = 1
  <2> DEFINE t == Tail(pipe)
  <2>1. t \in Seq(KissOctets) /\ Len(t) = r - 1 /\ r \in Nat
    BY <1>4, <1>6
  <2> HIDE DEF t, r
  <2>2. t = <<>> <=> Len(t) = 0
    BY <2>1
  <2>3. t = <<>> <=> r = 1
    BY <2>1, <2>2
  <2> QED BY <2>3 DEF t
<1>8. Head(pipe) = "FEND" <=> d = 0 \/ d = l - 1
  <2>1. CASE d = 0 \/ d = l - 1
    <3>1. d + 1 = 1 \/ d + 1 = l
      <4> HIDE DEF l, d, r
      <4> QED BY <1>4, <2>1, SMT
    <3> QED BY <1>2, <1>5, <2>1, <3>1
  <2>2. CASE ~(d = 0 \/ d = l - 1)
    <3>1. d + 1 \in 2 .. l - 1
      <4> HIDE DEF l, d, r
      <4> QED BY <1>4, <2>2, <1>3, SMT
    <3> QED BY <1>2, <1>5, <2>2, <3>1
  <2> QED BY <2>1, <2>2
<1>9. r = 1 <=> d = l - 1
  <2> HIDE DEF l, d, r
  <2> QED BY <1>4, <1>3, SMT
<1> QED BY <1>1, <1>2, <1>4, <1>5, <1>6, <1>7, <1>8, <1>9

\* One octet of the frame more is left to the octets before it.
LEMMA OctetMore ==
  ASSUME KissTypeOK, PipeIsRest, pipe # <<>>, Done > 0, Done < Len(Here) - 1,
         NEW k \in Nat, k <= Done
  PROVE  Begins(SubSeq(Here, 1, k + 1), Last(begun))
<1>1. k + 1 \in 1 .. Len(Here) - 1
  <2>1. Done \in Nat /\ Len(Here) \in Nat
    BY NextOctet
  <2> QED BY <2>1, SMT
<1> QED BY <1>1 DEF Begins, Here

\* Where the listener and the client are after an octet.
LEMMA ListenMoves ==
  ASSUME KissTypeOK, PipeIsRest, Listen
  PROVE  /\ pipe # <<>> /\ begun' = begun /\ Here' = Here
         /\ Done' = Done + 1
         /\ PipeIsRest'
         /\ pipe' = <<>> <=> Done = Len(Here) - 1
         /\ whole' = IF Done = Len(Here) - 1 THEN 1 ELSE whole
         /\ pipe' \in Seq(KissOctets)
<1>1. pipe # <<>> /\ begun' = begun /\ pipe' = Tail(pipe)
  BY DEF Listen
<1>2. Here' = Here
  BY <1>1 DEF Here
<1>3. /\ begun # <<>> /\ Here \in Seq(KissOctets) /\ Len(Here) \in Nat
      /\ Done \in Nat /\ Done < Len(Here) /\ Len(pipe) = Len(Here) - Done
      /\ Tail(pipe) = SubSeq(Here, Done + 2, Len(Here))
      /\ Tail(pipe) \in Seq(KissOctets) /\ Len(Tail(pipe)) = Len(pipe) - 1
      /\ Tail(pipe) = <<>> <=> Done = Len(Here) - 1
      /\ Len(pipe) = 1 <=> Done = Len(Here) - 1
  BY <1>1, NextOctet
<1>4. Done' = Len(Here) - Len(Tail(pipe))
  BY <1>1, <1>2 DEF Done
<1> DEFINE d == Done
           l == Len(Here)
<1>5. Done' = d + 1
  <2>1. /\ d \in Nat /\ l \in Nat /\ d < l /\ Len(pipe) = l - d /\ Len(Tail(pipe)) = Len(pipe) - 1
        /\ Done' = l - Len(Tail(pipe))
    BY <1>3, <1>4
  <2> DEFINE r == Len(pipe)
             t == Len(Tail(pipe))
  <2>2. d \in Nat /\ l \in Nat /\ d < l /\ r = l - d /\ t = r - 1 /\ Done' = l - t
    BY <2>1
  <2> HIDE DEF d, l, r, t
  <2>3. l - t = d + 1
    BY <2>2, SMT
  <2> QED BY <2>2, <2>3
<1>6. PipeIsRest'
  <2> SUFFICES ASSUME pipe' # <<>> PROVE PipeIsRest'
    BY DEF PipeIsRest
  <2>1. d \in Nat /\ l \in Nat /\ d < l /\ d # l - 1
    BY <1>1, <1>3
  <2>2. d + 1 \in 0 .. l - 1 /\ (d + 1) + 1 = d + 2
    <3> HIDE DEF d, l
    <3> QED BY <2>1, SMT
  <2>3. pipe' = SubSeq(Here, d + 2, l)
    BY <1>1, <1>3
  <2>4. /\ begun' # <<>> /\ Done' \in 0 .. Len(Here') - 1
        /\ pipe' = SubSeq(Here', Done' + 1, Len(Here'))
    BY <1>1, <1>2, <1>3, <1>5, <2>2, <2>3
  <2> QED BY <2>4 DEF PipeIsRest
<1>7. whole' = IF Done = Len(Here) - 1 THEN 1 ELSE whole
  BY <1>3 DEF Listen
<1> QED BY <1>1, <1>2, <1>3, <1>5, <1>6, <1>7

\* An octet leaves the listener where the invariant says.
LEMMA ListenKeeps ==
  ASSUME KissInv, Listen
  PROVE  KissInv'
<1> DEFINE d == Done
           l == Len(Here)
           chr == Head(pipe)
           Fits(k) == IF k <= MAX_KISS_LEN THEN k ELSE MAX_KISS_LEN
<1>1. KissTypeOK /\ PipeIsRest /\ LeftOver /\ Collected /\ InStep
  BY DEF KissInv
<1>2. /\ pipe # <<>> /\ begun' = begun /\ Here' = Here /\ Done' = d + 1 /\ PipeIsRest'
      /\ pipe' = <<>> <=> d = l - 1
      /\ whole' = IF d = l - 1 THEN 1 ELSE whole
      /\ pipe' \in Seq(KissOctets)
  BY <1>1, ListenMoves
<1>3. /\ begun # <<>> /\ Last(begun) \in Packets
      /\ Here \in Seq(KissOctets) /\ l \in Nat /\ l >= 3 /\ Here[1] = "FEND"
      /\ d \in Nat /\ d < l /\ chr = Here[d + 1] /\ chr \in KissOctets
      /\ chr = "FEND" <=> d = 0 \/ d = l - 1
  BY <1>1, <1>2, NextOctet, DataFrameIs DEF Here
<1>4. MAX_KISS_LEN \in Nat /\ MAX_KISS_LEN >= 2
  BY KissAssumption
<1>5. SubSeq(Here, 1, 1) = <<"FEND">>
  <2>1. /\ SubSeq(Here, 1, 1) \in Seq(KissOctets) /\ Len(SubSeq(Here, 1, 1)) = 1
        /\ SubSeq(Here, 1, 1)[1] = Here[1]
    BY <1>3
  <2> DEFINE s == SubSeq(Here, 1, 1)
  <2> HIDE DEF s
  <2>2. s \in Seq(KissOctets) /\ Len(s) = 1 /\ s[1] = "FEND"
    BY <1>3, <2>1 DEF s
  <2>3. s = <<"FEND">>
    BY <2>2
  <2> QED BY <2>3 DEF s
<1>6. Begins(<<"FEND">>, Last(begun))
  <2>1. 1 \in 1 .. l - 1
    <3> HIDE DEF l
    <3> QED BY <1>3, SMT
  <2> QED BY <1>5, <2>1 DEF Begins, Here
<1>7. (state' = "collecting" /\ pipe' = <<>> => Begins(kiss_msg', Last(begun))) => LeftOver'
  <2>1. Done' # 0
    <3> HIDE DEF d
    <3> QED BY <1>2, <1>3, SMT
  <2> QED BY <1>2, <1>3, <2>1 DEF LeftOver
<1>8. (state' = "collecting" /\ pipe' # <<>> => kiss_msg' = SubSeq(Here, 1, Fits(d + 1)))
         => Collected'
  BY <1>2 DEF Collected
<1>9. (whole' = 1 => /\ pipe' = <<>> => state' = "searching" \/ kiss_msg' = <<"FEND">>
                     /\ pipe' # <<>> => state' = "collecting")
         => InStep'
  <2>1. Done' # 0
    <3> HIDE DEF d
    <3> QED BY <1>2, <1>3, SMT
  <2> QED BY <2>1 DEF InStep
<1>10. KissTypeOK' <=> state' \in {"searching", "collecting"} /\ kiss_msg' \in Seq(KissOctets)
  BY <1>1, <1>2 DEF KissTypeOK, Listen, ptVars
<1>11. kiss_msg \in Seq(KissOctets) /\ state \in {"searching", "collecting"} /\ "FEND" \in KissOctets
  BY <1>1 DEF KissTypeOK, KissOctets, Special
<1>12. /\ state = "collecting" /\ d > 0 => kiss_msg = SubSeq(Here, 1, Fits(d))
       /\ whole = 1 /\ d = 0 => state = "searching" \/ kiss_msg = <<"FEND">>
       /\ whole = 1 /\ d > 0 => state = "collecting"
  BY <1>1, <1>2 DEF Collected, InStep
<1>13. d = 0 \/ d = l - 1 \/ (d > 0 /\ d < l - 1)
  <2> HIDE DEF d, l
  <2> QED BY <1>3, SMT
<1>14. /\ d = 0 => d # l - 1 /\ Fits(d + 1) = 1
       /\ d = l - 1 => d > 0 /\ d >= 2
       /\ d > 0 => d # 0
  <2> HIDE DEF d, l
  <2> QED BY <1>3, <1>4, SMT
<1>15. ASSUME d > 0 PROVE /\ Fits(d) \in Nat /\ Fits(d) <= l /\ Fits(d) <= d
                          /\ d >= 2 => Fits(d) >= 2
                          /\ d < MAX_KISS_LEN => Fits(d) = d /\ Fits(d + 1) = d + 1
                          /\ ~(d < MAX_KISS_LEN) => Fits(d) = MAX_KISS_LEN /\ Fits(d + 1) = MAX_KISS_LEN
  <2> HIDE DEF d, l
  <2> QED BY <1>3, <1>4, <1>15, SMT
<1>16. ASSUME d > 0 PROVE Len(SubSeq(Here, 1, Fits(d))) = Fits(d)
  <2> DEFINE k == Fits(d)
  <2>1. k \in 0 .. Len(Here)
    BY <1>15, <1>16
  <2> HIDE DEF k
  <2>2. Len(SubSeq(Here, 1, k)) = k
    BY <1>3, <2>1
  <2> QED BY <2>2 DEF k
<1> HIDE DEF d, l, chr, Fits
<1>17. CASE Searching(chr)
  <2>1. state = "searching"
    BY <1>17 DEF Searching
  <2>2. CASE chr = "FEND"
    <3>1. state' = "collecting" /\ kiss_msg' = <<"FEND">>
      BY <1>17, <2>2 DEF Searching
    <3>2. KissTypeOK'
      BY <1>10, <1>11, <3>1
    <3>3. LeftOver'
      BY <1>6, <1>7, <3>1
    <3>4. Collected'
      <4>1. pipe' # <<>> => d = 0
        BY <1>2, <1>3, <2>2
      <4> QED BY <1>5, <1>8, <1>14, <3>1, <4>1
    <3>5. InStep'
      BY <1>9, <3>1
    <3> QED BY <1>2, <3>2, <3>3, <3>4, <3>5 DEF KissInv
  <2>3. CASE chr # "FEND"
    <3>1. state' = "searching" /\ kiss_msg' = kiss_msg
      BY <1>17, <2>1, <2>3 DEF Searching
    <3>2. d > 0 /\ d # l - 1
      BY <1>3, <1>13, <2>3
    <3>3. whole # 1 /\ whole' = whole
      BY <1>2, <1>12, <2>1, <3>2
    <3> QED BY <1>2, <1>7, <1>8, <1>9, <1>10, <1>11, <3>1, <3>3 DEF KissInv
  <2> QED BY <2>2, <2>3
<1>18. CASE EmptyFrame(chr)
  <2>1. /\ state = "collecting" /\ chr = "FEND" /\ kiss_msg = <<"FEND">>
        /\ state' = state /\ kiss_msg' = kiss_msg
    BY <1>18 DEF EmptyFrame
  <2>2. d = 0
    <3> SUFFICES ASSUME d = l - 1 PROVE FALSE
      BY <1>3, <2>1
    <3>1. d > 0 /\ d >= 2
      BY <1>14
    <3>2. Len(kiss_msg) = Fits(d) /\ Fits(d) >= 2 /\ Fits(d) \in Nat
      BY <1>12, <1>15, <1>16, <2>1, <3>1
    <3>3. Len(kiss_msg) = 1
      BY <2>1
    <3> DEFINE k == Fits(d)
    <3>4. k = 1 /\ k >= 2
      BY <3>2, <3>3
    <3> HIDE DEF k
    <3> QED BY <3>4
  <2>3. pipe' # <<>>
    BY <1>2, <1>14, <2>2
  <2>4. Collected'
    BY <1>5, <1>8, <1>14, <2>1, <2>2
  <2> QED BY <1>2, <1>7, <1>9, <1>10, <1>11, <2>1, <2>3, <2>4 DEF KissInv
<1>19. CASE EndOfFrame(chr)
  <2>1. /\ state = "collecting" /\ chr = "FEND" /\ kiss_msg # <<"FEND">>
        /\ state' = "searching" /\ kiss_msg' = Append(kiss_msg, "FEND")
    BY <1>19 DEF EndOfFrame
  <2>2. KissTypeOK'
    <3>1. Append(kiss_msg, "FEND") \in Seq(KissOctets)
      BY <1>11
    <3> QED BY <1>10, <2>1, <3>1
  <2>3. LeftOver' /\ Collected'
    BY <1>7, <1>8, <2>1
  <2>4. InStep'
    <3>1. CASE d = 0
      <4>1. whole # 1 /\ whole' = whole
        BY <1>2, <1>12, <1>14, <2>1, <3>1
      <4> QED BY <1>9, <4>1
    <3>2. CASE d = l - 1
      <4>1. pipe' = <<>>
        BY <1>2, <3>2
      <4> QED BY <1>9, <2>1, <4>1
    <3> QED BY <1>3, <2>1, <3>1, <3>2
  <2> QED BY <1>2, <2>2, <2>3, <2>4 DEF KissInv
<1>20. CASE Collect(chr)
  <2>1. /\ state = "collecting" /\ chr # "FEND" /\ state' = state
        /\ kiss_msg' = IF Len(kiss_msg) < MAX_KISS_LEN THEN Append(kiss_msg, chr) ELSE kiss_msg
    BY <1>20 DEF Collect
  <2>2. d > 0 /\ d # l - 1 /\ pipe' # <<>>
    BY <1>2, <1>3, <1>13, <2>1
  <2>3. kiss_msg = SubSeq(Here, 1, Fits(d)) /\ Len(kiss_msg) = Fits(d)
    BY <1>12, <1>16, <2>1, <2>2
  <2>4. kiss_msg' = SubSeq(Here, 1, Fits(d + 1))
    <3>1. CASE d < MAX_KISS_LEN
      <4>1. kiss_msg = SubSeq(Here, 1, d) /\ kiss_msg' = Append(kiss_msg, chr)
        BY <1>15, <2>1, <2>2, <2>3, <3>1
      <4>2. d \in 0 .. Len(Here) /\ d < Len(Here)
        BY <1>3 DEF l
      <4>3. Append(SubSeq(Here, 1, d), Here[d + 1]) = SubSeq(Here, 1, d + 1)
        BY <1>3, <4>2, OneMore
      <4> QED BY <1>3, <1>15, <2>2, <3>1, <4>1, <4>3
    <3>2. CASE ~(d < MAX_KISS_LEN)
      <4>1. Fits(d) = MAX_KISS_LEN /\ Fits(d + 1) = MAX_KISS_LEN
        BY <1>15, <2>2, <3>2
      <4>2. ~(Len(kiss_msg) < MAX_KISS_LEN)
        BY <1>4, <2>3, <4>1
      <4> QED BY <2>1, <2>3, <4>1, <4>2
    <3> QED BY <3>1, <3>2
  <2>5. kiss_msg' \in Seq(KissOctets)
    <3>1. Append(kiss_msg, chr) \in Seq(KissOctets)
      BY <1>3, <1>11
    <3> QED BY <1>11, <2>1, <3>1
  <2> QED BY <1>2, <1>7, <1>8, <1>9, <1>10, <2>1, <2>2, <2>4, <2>5 DEF KissInv
<1> QED BY <1>17, <1>18, <1>19, <1>20 DEF Listen, kiss_rec_byte, chr

\* What the invariant says of the listener's side depends on five variables.
LEMMA FrameUntouched ==
  ASSUME KissInv, UNCHANGED frameVars,
         sending' \in Packets \cup {NULL}, stream' \in Seq(KissOctets)
  PROVE  KissInv'
<1>1. UNCHANGED <<state, kiss_msg, begun, pipe, whole>>
  BY DEF frameVars
<1>2. Here' = Here /\ Done' = Done
  BY <1>1 DEF Here, Done
<1>3. KissTypeOK'
  BY <1>1 DEF KissInv, KissTypeOK
<1>4. PipeIsRest' /\ LeftOver' /\ Collected' /\ InStep'
  BY <1>1, <1>2 DEF KissInv, PipeIsRest, LeftOver, Collected, InStep
<1> QED BY <1>3, <1>4 DEF KissInv

\* The client begins a frame where the last one ended.
LEMMA SendKeeps ==
  ASSUME KissInv, NEW p \in Packets, ClientSends(p)
  PROVE  KissInv'
<1>1. /\ pipe = <<>> /\ pipe' = DataFrame(p)
      /\ begun' = IF begun = <<>> THEN <<p>> ELSE <<Last(begun), p>>
      /\ UNCHANGED <<state, kiss_msg, whole, sending, stream>>
  BY DEF ClientSends, ptVars
<1>2. begun \in Seq(Packets) /\ KissTypeOK /\ LeftOver /\ InStep
  BY DEF KissInv, KissTypeOK
<1>3. /\ begun' \in Seq(Packets) /\ begun' # <<>> /\ Last(begun') = p
      /\ begun # <<>> => 1 \in DOMAIN begun' /\ begun'[1] = Last(begun)
  <2>1. CASE begun = <<>>
    <3>1. begun' = <<p>>
      BY <1>1, <2>1
    <3> QED BY <2>1, <3>1 DEF Last
  <2>2. CASE begun # <<>>
    <3> DEFINE last == Last(begun)
    <3>1. last \in Packets
      BY <1>2, <2>2 DEF Last
    <3>2. begun' = <<last, p>>
      BY <1>1, <2>2
    <3> HIDE DEF last
    <3>3. /\ <<last, p>> \in Seq(Packets) /\ <<last, p>> # <<>> /\ Last(<<last, p>>) = p
          /\ 1 \in DOMAIN <<last, p>> /\ <<last, p>>[1] = last
      BY <3>1 DEF Last
    <3> QED BY <3>2, <3>3 DEF last
  <2> QED BY <2>1, <2>2
<1>4. /\ DataFrame(p) \in Seq(KissOctets) /\ Len(DataFrame(p)) \in Nat /\ Len(DataFrame(p)) >= 3
  BY DataFrameIs
<1>5. Here' = DataFrame(p) /\ Done' = 0 /\ pipe' # <<>>
  <2>1. Here' = DataFrame(p)
    BY <1>3 DEF Here
  <2>2. Done' = Len(DataFrame(p)) - Len(DataFrame(p))
    BY <1>1, <2>1 DEF Done
  <2>3. Done' = 0
    BY <1>4, <2>2
  <2>4. DataFrame(p) # <<>>
    BY <1>4
  <2> QED BY <1>1, <2>1, <2>3, <2>4
<1>6. PipeIsRest'
  <2>1. 0 \in 0 .. Len(DataFrame(p)) - 1
    BY <1>4
  <2>2. SubSeq(DataFrame(p), 0 + 1, Len(DataFrame(p))) = DataFrame(p)
    <3>1. 0 + 1 = 1
      OBVIOUS
    <3>2. SubSeq(DataFrame(p), 1, Len(DataFrame(p))) = DataFrame(p)
      BY <1>4, SubSeqFull
    <3> QED BY <3>1, <3>2
  <2> QED BY <1>1, <1>3, <1>5, <2>1, <2>2 DEF PipeIsRest
<1>7. LeftOver'
  <2> SUFFICES ASSUME state' = "collecting" PROVE LeftOver'
    BY DEF LeftOver
  <2>1. begun # <<>> /\ Begins(kiss_msg, Last(begun))
    BY <1>1, <1>2 DEF LeftOver
  <2>2. 1 \in DOMAIN begun' /\ Begins(kiss_msg', begun'[1])
    BY <1>1, <1>3, <2>1
  <2> QED BY <1>3, <1>5, <2>2 DEF LeftOver
<1>8. Collected' /\ InStep'
  <2>1. whole = 1 => state = "searching" \/ kiss_msg = <<"FEND">>
    BY <1>1, <1>2 DEF InStep
  <2> QED BY <1>1, <1>5, <2>1 DEF Collected, InStep
<1>9. KissTypeOK'
  BY <1>1, <1>2, <1>3, <1>4 DEF KissTypeOK
<1> QED BY <1>6, <1>7, <1>8, <1>9 DEF KissInv

\* It breaks off within a frame: what has been collected is the beginning of that.
LEMMA BreakKeeps ==
  ASSUME KissInv, ClientBreaksOff
  PROVE  KissInv'
<1>1. /\ pipe # <<>> /\ pipe # DataFrame(Last(begun)) /\ pipe' = <<>> /\ whole' = 0
      /\ UNCHANGED <<state, kiss_msg, begun, sending, stream>>
  BY DEF ClientBreaksOff, ptVars
<1>2. KissTypeOK /\ PipeIsRest /\ LeftOver /\ Collected
  BY DEF KissInv
<1>3. /\ begun # <<>> /\ Here \in Seq(KissOctets) /\ Len(Here) \in Nat /\ Done \in Nat /\ Done < Len(Here)
      /\ pipe = SubSeq(Here, Done + 1, Len(Here))
  BY <1>1, <1>2, NextOctet DEF PipeIsRest
<1>4. Done # 0
  <2> SUFFICES ASSUME Done = 0 PROVE FALSE
    OBVIOUS
  <2>1. Done + 1 = 1
    BY SMT
  <2>2. SubSeq(Here, 1, Len(Here)) = Here
    BY <1>3, SubSeqFull
  <2> QED BY <1>1, <1>3, <2>1, <2>2 DEF Here
<1>5. LeftOver'
  <2> SUFFICES ASSUME state' = "collecting" PROVE LeftOver'
    BY DEF LeftOver
  <2> DEFINE d == Done
             l == Len(Here)
             k == IF d <= MAX_KISS_LEN THEN d ELSE MAX_KISS_LEN
  <2>1. d \in Nat /\ d > 0 /\ l \in Nat /\ d < l
    BY <1>3, <1>4
  <2>2. kiss_msg = SubSeq(Here, 1, k)
    BY <1>1, <1>2, <2>1 DEF Collected
  <2>3. k \in 1 .. l - 1
    <3> HIDE DEF d, l
    <3> QED BY <2>1, KissAssumption, SMT
  <2>4. Begins(kiss_msg, Last(begun))
    BY <2>2, <2>3 DEF Begins, Here
  <2> QED BY <1>1, <1>3, <2>4 DEF LeftOver
<1>6. PipeIsRest' /\ Collected' /\ InStep'
  BY <1>1 DEF PipeIsRest, Collected, InStep
<1>7. KissTypeOK'
  BY <1>1, <1>2 DEF KissTypeOK
<1> QED BY <1>5, <1>6, <1>7 DEF KissInv

\* Every step keeps the invariant.
LEMMA KissKeeps ==
  ASSUME KissInv, [KissNext]_kissVars
  PROVE  KissInv'
<1>1. sending \in Packets \cup {NULL} /\ stream \in Seq(KissOctets)
  BY DEF KissInv, KissTypeOK
<1>2. CASE Listen
  BY <1>2, ListenKeeps
<1>3. CASE ListenFails
  BY <1>1, <1>3, FrameUntouched DEF ListenFails, frameVars
<1>4. CASE ClientBreaksOff
  BY <1>4, BreakKeeps
<1>5. CASE \E p \in Packets : ClientSends(p)
  BY <1>5, SendKeeps
<1>6. CASE \E p \in Packets : SendTests(p)
  <2>1. PICK p \in Packets : SendTests(p)
    BY <1>6
  <2>2. sending' \in Packets \cup {NULL} /\ UNCHANGED <<frameVars, stream>>
    BY <2>1 DEF SendTests
  <2> QED BY <1>1, <2>2, FrameUntouched
<1>7. CASE \E n \in 0 .. 2 * MaxFrameLen + 3 : SendWrites(n)
  <2>1. PICK n \in 0 .. 2 * MaxFrameLen + 3 : SendWrites(n)
    BY <1>7
  <2>2. /\ sending # NULL /\ n \in 0 .. Len(DataFrame(sending))
        /\ stream' = ClientReads(SubSeq(DataFrame(sending), 1, n)).rest
        /\ sending' = NULL /\ UNCHANGED frameVars
    BY <2>1 DEF SendWrites
  <2>3. sending \in Packets
    BY <1>1, <2>2
  <2>4. SubSeq(DataFrame(sending), 1, n) \in Seq(KissOctets)
    <3> DEFINE E == DataFrame(sending)
    <3>1. E \in Seq(KissOctets) /\ n \in 0 .. Len(E)
      BY <2>2, <2>3, DataFrameIs
    <3> HIDE DEF E
    <3>2. SubSeq(E, 1, n) \in Seq(KissOctets)
      BY <3>1
    <3> QED BY <3>2 DEF E
  <2>5. stream' \in Seq(KissOctets)
    BY <1>1, <2>2, <2>4, ReadsRest
  <2> QED BY <2>2, <2>5, FrameUntouched
<1>8. CASE UNCHANGED kissVars
  BY <1>1, <1>8, FrameUntouched DEF kissVars, frameVars, ptVars
<1> QED BY <1>2, <1>3, <1>4, <1>5, <1>6, <1>7, <1>8 DEF KissNext

\* Whatever the client sends and wherever it breaks off, the listener either
\* collects the frame that is coming from its first octet on, or searches until
\* that frame ends; kiss_msg is never anything but the beginning of one frame.
THEOREM KissInvariant == KissSpec => []KissInv
<1>1. KissInit => KissInv
  <2> SUFFICES ASSUME KissInit PROVE KissInv
    OBVIOUS
  <2>1. <<>> \in Seq(KissOctets) /\ <<>> \in Seq(Packets)
    OBVIOUS
  <2> QED BY <2>1 DEF KissInit, KissInv, KissTypeOK, PipeIsRest, LeftOver, Collected, InStep
<1>2. KissInv /\ [KissNext]_kissVars => KissInv'
  BY KissKeeps
<1> QED BY <1>1, <1>2, PTL DEF KissSpec

\* Safety: a packet that the terminal takes whole from kisspt_send_rec_packet is
\* read by the client as it is, for packets of any length and content and whatever
\* part of another one was written before.
THEOREM SentPacketIsRead == KissSpec => SentIsRead
<1> DEFINE Reads == \A p \in Packets :
                      sending = p /\ SendWrites(Len(DataFrame(p))) =>
                        /\ ClientReads(DataFrame(p)).items # <<>>
                        /\ Last(ClientReads(DataFrame(p)).items) = <<DATA_FRAME>> \o p
<1>1. KissInv => Reads
  <2> SUFFICES ASSUME KissInv, NEW p \in Packets
               PROVE  /\ ClientReads(DataFrame(p)).items # <<>>
                      /\ Last(ClientReads(DataFrame(p)).items) = <<DATA_FRAME>> \o p
    OBVIOUS
  <2> DEFINE q == <<DATA_FRAME>> \o p
  <2>1. q \in Seq(KissOctets) /\ Len(q) > 0 /\ stream \in Seq(KissOctets)
    BY PacketIs DEF KissInv, KissTypeOK
  <2> HIDE DEF q
  <2>2. ClientReads(kiss_encapsulate(q)).items # <<>> /\ Last(ClientReads(kiss_encapsulate(q)).items) = q
    BY <2>1, FrameIsRead
  <2> QED BY <2>2 DEF q, DataFrame
<1>2. KissInv => [Reads]_kissVars
  BY <1>1
<1>3. KissSpec => [][Reads]_kissVars
  <2> HIDE DEF Reads
  <2> QED BY <1>2, KissInvariant, PTL
<1> QED BY <1>3 DEF SentIsRead

\* When a FEND ends what has been collected, it is the beginning of the frame of
\* a packet that the client has begun, and of all of the last one when its final
\* octet comes, as far as it fits.
LEMMA EndedIsBegun ==
  ASSUME KissInv, Listen, EndOfFrame(Head(pipe))
  PROVE  /\ \E j \in DOMAIN begun : begun[j] \in Packets /\ Begins(kiss_msg, begun[j])
         /\ Done > 0 =>
              /\ Begins(kiss_msg, Last(begun)) /\ Done = Len(Here) - 1
              /\ Len(kiss_msg) = IF Done <= MAX_KISS_LEN THEN Done ELSE MAX_KISS_LEN
<1>1. KissTypeOK /\ PipeIsRest /\ LeftOver /\ Collected /\ pipe # <<>> /\ begun \in Seq(Packets)
  BY DEF KissInv, KissTypeOK, Listen
<1>2. state = "collecting" /\ Head(pipe) = "FEND" /\ kiss_msg # <<"FEND">>
  BY DEF EndOfFrame
<1> DEFINE d == Done
           l == Len(Here)
           k == IF d <= MAX_KISS_LEN THEN d ELSE MAX_KISS_LEN
<1>3. /\ Len(begun) \in DOMAIN begun /\ Last(begun) = begun[Len(begun)] /\ Last(begun) \in Packets
      /\ Here \in Seq(KissOctets) /\ l \in Nat /\ l >= 3 /\ d \in Nat /\ d < l
      /\ d = 0 \/ d = l - 1
  BY <1>1, <1>2, NextOctet
<1>4. CASE d = 0
  <2>1. PICK j \in DOMAIN begun : Begins(kiss_msg, begun[j])
    BY <1>1, <1>2, <1>4 DEF LeftOver
  <2>2. begun[j] \in Packets
    BY <1>1
  <2> QED BY <1>4, <2>1, <2>2
<1>5. CASE d # 0
  <2>1. d > 0 /\ d = l - 1 /\ kiss_msg = SubSeq(Here, 1, k)
    BY <1>1, <1>2, <1>3, <1>5 DEF Collected
  <2>2. k \in 1 .. l - 1
    <3> HIDE DEF d, l
    <3> QED BY <1>3, <2>1, KissAssumption, SMT
  <2>3. Begins(kiss_msg, Last(begun))
    BY <2>1, <2>2 DEF Begins, Here
  <2>4. Len(kiss_msg) = k
    <3>1. k \in 0 .. Len(Here)
      <4> HIDE DEF d
      <4> QED BY <1>3, <2>2
    <3> HIDE DEF k
    <3>2. Len(SubSeq(Here, 1, k)) = k
      BY <1>3, <3>1
    <3> QED BY <2>1, <3>2
  <2> QED BY <1>3, <2>1, <2>3, <2>4
<1> QED BY <1>4, <1>5

\* Safety: kiss_process_msg queues nothing but a packet that the client has begun,
\* or the beginning of one; also if kiss_msg is too short for the frame, where
\* the octets that do not fit are missing at the end.
THEOREM QueuedWasBegun == KissSpec => []OnlyWhatWasBegun
<1>1. KissInit => OnlyWhatWasBegun
  BY DEF KissInit, OnlyWhatWasBegun
<1>2. KissInv /\ OnlyWhatWasBegun /\ [KissNext]_kissVars => OnlyWhatWasBegun'
  <2> SUFFICES ASSUME KissInv, OnlyWhatWasBegun, [KissNext]_kissVars, queued' # NULL
               PROVE  \E j \in DOMAIN begun' : IsPrefix(queued', begun'[j])
    BY DEF OnlyWhatWasBegun
  <2>1. CASE UNCHANGED kissVars
    <3>1. queued' = queued /\ begun' = begun
      BY <2>1 DEF kissVars
    <3> QED BY <3>1 DEF OnlyWhatWasBegun
  <2>2. CASE Listen
    <3>1. begun' = begun /\ EndOfFrame(Head(pipe))
      BY <2>2 DEF Listen, kiss_rec_byte, Searching, EmptyFrame, Collect
    <3>2. PICK j \in DOMAIN begun : begun[j] \in Packets /\ Begins(kiss_msg, begun[j])
      BY <2>2, <3>1, EndedIsBegun
    <3> DEFINE p == begun[j]
    <3>3. kiss_process_msg(kiss_unwrap(Append(kiss_msg, "FEND")))
      BY <3>1 DEF EndOfFrame
    <3>4. p \in Packets /\ Begins(kiss_msg, p)
      BY <3>2
    <3> HIDE DEF p
    <3>5. IsPrefix(queued', p)
      BY <3>3, <3>4, Ending
    <3> QED BY <3>1, <3>5 DEF p
  <2>3. CASE \/ ListenFails \/ ClientBreaksOff
             \/ \E p \in Packets : ClientSends(p) \/ SendTests(p)
             \/ \E n \in 0 .. 2 * MaxFrameLen + 3 : SendWrites(n)
    BY <2>3 DEF ListenFails, ClientBreaksOff, ClientSends, SendTests, SendWrites
  <2> QED BY <2>1, <2>2, <2>3 DEF KissNext
<1> QED BY <1>1, <1>2, KissInvariant, PTL DEF KissSpec

\* Action: once the client has sent a frame whole, every frame it sends whole is
\* queued as it was sent.  That needs kiss_msg to have room for a frame in which
\* each octet is escaped, its two FENDs included.
THEOREM ListenerResynchronises ==
  ASSUME 2 * MaxFrameLen + 3 <= MAX_KISS_LEN
  PROVE  KissSpec => Resynchronised
<1> DEFINE Whole == Listen /\ Len(pipe) = 1 /\ whole = 1 => queued' = Last(begun)
<1>1. KissInv => Whole
  <2> SUFFICES ASSUME KissInv, Listen, Len(pipe) = 1, whole = 1
               PROVE  queued' = Last(begun)
    OBVIOUS
  <2>1. KissTypeOK /\ PipeIsRest /\ Collected /\ InStep /\ pipe # <<>>
    BY DEF KissInv, Listen
  <2> DEFINE d == Done
             l == Len(Here)
  <2>2. /\ Last(begun) \in Packets /\ l \in Nat /\ l >= 3 /\ d = l - 1 /\ Head(pipe) = "FEND"
        /\ Here \in Seq(KissOctets)
    BY <2>1, NextOctet
  <2>3. d > 0 /\ l <= 2 * MaxFrameLen + 4 /\ d <= MAX_KISS_LEN
    <3>1. l <= 2 * MaxFrameLen + 4
      BY <2>2, DataFrameIs DEF Here
    <3> HIDE DEF d, l
    <3> QED BY <2>2, <3>1, KissAssumption, SMT
  <2>4. state = "collecting" /\ kiss_msg = SubSeq(Here, 1, d)
    BY <2>1, <2>3 DEF InStep, Collected
  <2>5. kiss_msg # <<"FEND">>
    <3>1. d \in 0 .. Len(Here) /\ d # 1
      <4> HIDE DEF d
      <4> QED BY <2>2, SMT
    <3> HIDE DEF d
    <3>2. Len(SubSeq(Here, 1, d)) = d
      BY <2>2, <3>1
    <3> QED BY <2>4, <3>1, <3>2
  <2>6. EndOfFrame(Head(pipe))
    BY <2>2, <2>4, <2>5 DEF Listen, kiss_rec_byte, Searching, EmptyFrame, Collect
  <2>7. Begins(kiss_msg, Last(begun)) /\ Len(kiss_msg) = Len(Here) - 1
    BY <2>2, <2>3, <2>6, EndedIsBegun
  <2>8. kiss_process_msg(kiss_unwrap(Append(kiss_msg, "FEND")))
    BY <2>2, <2>6 DEF EndOfFrame
  <2> DEFINE p == Last(begun)
  <2>9. p \in Packets /\ Begins(kiss_msg, p) /\ Len(kiss_msg) = Len(DataFrame(p)) - 1
    BY <2>2, <2>7 DEF Here
  <2> HIDE DEF p
  <2>10. queued' = p
    BY <2>8, <2>9, Ending
  <2> QED BY <2>10 DEF p
<1>2. KissInv => [Whole]_kissVars
  BY <1>1
<1>3. KissSpec => [][Whole]_kissVars
  <2> HIDE DEF Whole
  <2> QED BY <1>2, KissInvariant, PTL
<1> QED BY <1>3 DEF Resynchronised
=============================================================================
