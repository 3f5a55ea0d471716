--------------------------- MODULE StreamingProofs ---------------------------
(***************************************************************************)
(* Machine-checked proofs, for every size of the receive ring and of the   *)
(* line buffer, any files and answers of any length: no byte of a file is  *)
(* lost before an answer comes that stands for no line, stream.py compares *)
(* its count with a raised limit, or a counted line writes the EEPROM      *)
(* (RingHolds); and while no byte is lost Grbl executes the lines of the   *)
(* file in order, of a line longer than its buffer the end only            *)
(* (LinesAreTails).                                                        *)
(***************************************************************************)
EXTENDS StreamingProperties, SequenceTheorems, FiniteSetTheorems, WellFoundedInduction, TLAPS

LineEnds == {"\n", "\r"}

(* STRING; that these literals are strings is more than the provers know.  *)
Char == STRING \cup LineEnds \cup {"A", "status", "report"}

(* The bytes that Grbl's main loop has still to read.                      *)
Pipe == ring \o wire

Marks(s, S) == [i \in 1 .. Len(s) |-> IF s[i] \in S THEN 1 ELSE 0]
Among(s, S) == Sums(Marks(s, S))

-----------------------------------------------------------------------------
(* The inductive invariant.                                                *)

TypeInv ==
  /\ protocol \in {"counting", "answers"}
  /\ host \in {"wake", "next"}
              \cup (IF protocol = "counting" THEN {"room"} ELSE {"answer"})
  /\ cLine \in Seq(Nat)
  /\ inbox \in Seq({"status", "report"})
  /\ wire \in Seq(Char) /\ ring \in Seq(Char) /\ line \in Seq(Char)
  /\ at \in {"read", "execute", "store"}
  /\ log \in Seq(Seq(Char) \cup {"overflow"})
  /\ lost \in BOOLEAN /\ asked \in BOOLEAN /\ wide \in BOOLEAN /\ stored \in BOOLEAN
  /\ extra \in Nat
  /\ \A i \in DOMAIN line : line[i] \notin LineEnds
  /\ host = "room" => /\ block \in Programs /\ cLine # <<>>
                      /\ cLine[Len(cLine)] = Size(block)

(* The four line ends that wake Grbl up fit into its ring.                 *)
WakeInv ==
  host = "wake" => /\ ~lost /\ ~wide /\ extra = 0 /\ cLine = <<>> /\ line = <<>>
                   /\ Len(Pipe) <= 4 /\ \A i \in 1 .. Len(Pipe) : Pipe[i] \in LineEnds
                   /\ at # "store" /\ ~asked

(* While it waits for the answer to every line, one line is under way.     *)
AnswersInv ==
  protocol = "answers" /\ host # "wake" /\ extra = 0 =>
    /\ ~lost
    /\ host = "next" => Pipe = <<>> /\ inbox = <<>> /\ at = "read"
    /\ host = "answer" =>
         \/ /\ Pipe # <<>> /\ inbox = <<>> /\ at = "read" /\ Len(Pipe) <= RxBufferSize - 1
            /\ \A i \in 1 .. Len(Pipe) : Pipe[i] \in LineEnds <=> i = Len(Pipe)
         \/ Pipe = <<>> /\ inbox = <<>> /\ at # "read"
         \/ Pipe = <<>> /\ Len(inbox) = 1 /\ at = "read"

(* While stream.py counts: the lines that Grbl has answered, or is about   *)
(* to, are the oldest it still counts, and wherever a line in the pipe     *)
(* ends, the bytes after that are of the lines that follow.                *)
Statuses(answers) == Among(answers, {"status"})[Len(answers)]
Answered == Statuses(inbox) + (IF at = "read" THEN 0 ELSE 1)
Written == IF host = "room" THEN Len(cLine) - 1 ELSE Len(cLine)
Counting == protocol = "counting" /\ host # "wake" /\ ~Overflowed

Covers(pipe, answered, lengths, written) ==
  \A k \in 0 .. Len(pipe) :
    LET done == answered + Among(pipe, LineEnds)[k]
    IN /\ done <= written
       /\ Len(pipe) - k <= Sums(lengths)[written] - Sums(lengths)[done]
CoverInv == Counting => Covers(Pipe, Answered, cLine, Written)

(* Within the narrow limit the pipe fits the ring.                         *)
NarrowInv ==
  Counting /\ ~wide /\ ~stored =>
    ~lost /\ Len(Pipe) < RxBufferSize - 1 /\ at # "store"

Inv == TypeInv /\ WakeInv /\ AnswersInv /\ CoverInv /\ NarrowInv

-----------------------------------------------------------------------------
(* Sums of sequences of numbers.                                           *)

LEMMA Induction ==
  ASSUME NEW n \in Nat, NEW T, 0 \in T, \A k \in 1 .. n : k - 1 \in T => k \in T
  PROVE  \A k \in 0 .. n : k \in T
<1> DEFINE U == {k \in 0 .. n : k \notin T}
<1> SUFFICES ASSUME U # {} PROVE FALSE
  OBVIOUS
<1>1. U \subseteq Nat
  OBVIOUS
<1>2. PICK k \in U : \A j \in U : <<j, k>> \notin OpToRel(<, Nat)
  BY <1>1, NatLessThanWellFounded, WFMin, Zenon
<1>3. \A j \in U : ~(j < k)
  BY <1>1, <1>2, Zenon DEF OpToRel
<1>4. k \in 1 .. n /\ k - 1 \in 0 .. n /\ k - 1 < k
  <2>1. k \in 0 .. n /\ k # 0
    BY <1>2
  <2> QED
    BY <2>1
<1>5. k - 1 \notin U
  BY <1>3, <1>4
<1> QED
  BY <1>2, <1>4, <1>5

IsSums(f, s, n) ==
  /\ f \in [0 .. n -> Nat]
  /\ \A k \in 0 .. n : f[k] = IF k = 0 THEN 0 ELSE f[k - 1] + s[k]

LEMMA SumsExist ==
  ASSUME NEW s \in Seq(Nat)
  PROVE  \E f : IsSums(f, s, Len(s))
<1> DEFINE n == Len(s)
           T == {j \in 0 .. n : \E f : IsSums(f, s, j)}
<1>1. n \in Nat /\ \A k \in 1 .. n : s[k] \in Nat
  OBVIOUS
<1> HIDE DEF n
<1>2. 0 \in T
  <2>1. IsSums([k \in 0 .. 0 |-> 0], s, 0)
    BY DEF IsSums
  <2> QED
    BY <1>1, <2>1
<1>3. ASSUME NEW j \in 1 .. n, j - 1 \in T PROVE j \in T
  <2>1. PICK f : IsSums(f, s, j - 1)
    BY <1>3
  <2> DEFINE x == f[j - 1] + s[j]
             g == [k \in 0 .. j |-> IF k = j THEN x ELSE f[k]]
  <2>2. j \in Nat /\ j - 1 \in 0 .. (j - 1) /\ j # 0
    OBVIOUS
  <2>3. x \in Nat /\ \A k \in 0 .. (j - 1) : f[k] \in Nat
    BY <1>1, <2>1, <2>2 DEF IsSums
  <2>4. g \in [0 .. j -> Nat]
    BY <2>3
  <2>5. g[j] = x /\ \A k \in 0 .. (j - 1) : g[k] = f[k]
    BY <2>2
  <2> HIDE DEF g
  <2>6. ASSUME NEW k \in 0 .. j
        PROVE  g[k] = IF k = 0 THEN 0 ELSE g[k - 1] + s[k]
    <3>1. CASE k = j
      BY <2>2, <2>5, <3>1
    <3>2. CASE k # j
      <4>1. k \in 0 .. (j - 1) /\ (k # 0 => k - 1 \in 0 .. (j - 1))
        BY <3>2
      <4> QED
        BY <2>1, <2>5, <4>1 DEF IsSums
    <3> QED
      BY <3>1, <3>2
  <2>7. IsSums(g, s, j)
    BY <2>4, <2>6 DEF IsSums
  <2> QED
    BY <2>7
<1>4. \A j \in 0 .. n : j \in T
  <2> HIDE DEF T
  <2> QED
    BY <1>1, <1>2, <1>3, Induction
<1> QED
  BY <1>1, <1>4 DEF n

LEMMA SumsIs ==
  ASSUME NEW s \in Seq(Nat)
  PROVE  /\ Len(s) \in Nat /\ \A k \in 1 .. Len(s) : s[k] \in Nat
         /\ \A k \in 0 .. Len(s) : Sums(s)[k] \in Nat
         /\ Sums(s)[0] = 0
         /\ \A k \in 1 .. Len(s) : Sums(s)[k] = Sums(s)[k - 1] + s[k]
<1> DEFINE n == Len(s)
           Is(f) == f = [k \in 0 .. n |-> IF k = 0 THEN 0 ELSE f[k - 1] + s[k]]
<1>1. n \in Nat /\ \A k \in 1 .. n : s[k] \in Nat
  OBVIOUS
<1>2. PICK f : IsSums(f, s, n)
  BY SumsExist
<1>3. Is(f)
  BY <1>2 DEF IsSums
<1>4. Sums(s) = CHOOSE g : Is(g)
  BY DEF Sums
<1>5. Is(Sums(s))
  <2> HIDE DEF Is
  <2> QED
    BY <1>3, <1>4, Zenon
<1>6. \A k \in 0 .. n : Sums(s)[k] = IF k = 0 THEN 0 ELSE Sums(s)[k - 1] + s[k]
  BY <1>5
<1> HIDE DEF Is, n
<1>7. Sums(s)[0] = 0 /\ \A k \in 1 .. n : Sums(s)[k] = Sums(s)[k - 1] + s[k]
  BY <1>1, <1>6
<1>8. \A k \in 0 .. n : Sums(s)[k] \in Nat
  <2> DEFINE T == {k \in 0 .. n : Sums(s)[k] \in Nat}
  <2>1. 0 \in T
    BY <1>1, <1>7
  <2>2. \A k \in 1 .. n : k - 1 \in T => k \in T
    BY <1>1, <1>7
  <2>3. \A k \in 0 .. n : k \in T
    <3> HIDE DEF T
    <3> QED
      BY <1>1, <2>1, <2>2, Induction
  <2> QED
    BY <2>3
<1> QED
  BY <1>1, <1>7, <1>8 DEF n

(* From a place on, the sums of the same numbers, or of those one further  *)
(* on, differ by as much as they do at that place.                         *)
Shifted(s, t, d, e, r, n) ==
  /\ s \in Seq(Nat) /\ t \in Seq(Nat) /\ d \in {0, 1} /\ e \in Nat
  /\ r \in Nat /\ n \in Nat /\ r <= n /\ n <= Len(t) /\ n + d <= Len(s)
  /\ Sums(t)[r] = Sums(s)[r + d] - e
  /\ \A i \in (r + 1) .. n : t[i] = s[i + d]

LEMMA SumsSame ==
  ASSUME NEW s, NEW t, NEW d, NEW e, NEW r, NEW n, Shifted(s, t, d, e, r, n)
  PROVE  \A k \in r .. n : Sums(t)[k] = Sums(s)[k + d] - e
<1> DEFINE T == {j \in 0 .. (n - r) : Sums(t)[r + j] = Sums(s)[r + j + d] - e}
           m == n - r
<1>0. /\ s \in Seq(Nat) /\ t \in Seq(Nat) /\ d \in {0, 1} /\ e \in Nat
      /\ r \in Nat /\ n \in Nat /\ r <= n /\ n <= Len(t) /\ n + d <= Len(s)
      /\ Sums(t)[r] = Sums(s)[r + d] - e
      /\ \A i \in (r + 1) .. n : t[i] = s[i + d]
  BY DEF Shifted
<1>1. m \in Nat /\ d \in Nat /\ Len(s) \in Nat /\ Len(t) \in Nat
  BY <1>0
<1>2. 0 \in T
  BY <1>0
<1>3. ASSUME NEW j \in 1 .. m, j - 1 \in T PROVE j \in T
  <2>1. /\ j \in Nat /\ r + j \in (r + 1) .. n /\ r + j \in 1 .. Len(t) /\ r + j + d \in 1 .. Len(s)
        /\ r + (j - 1) = (r + j) - 1 /\ r + (j - 1) + d = (r + j + d) - 1
        /\ (r + j) - 1 \in 0 .. Len(t) /\ (r + j + d) - 1 \in 0 .. Len(s)
    <3> DEFINE a == Len(s)
               b == Len(t)
    <3>1. /\ a \in Nat /\ b \in Nat /\ d \in Nat /\ r \in Nat /\ n \in Nat /\ r <= n
          /\ n <= b /\ n + d <= a
      BY <1>0, <1>1
    <3> HIDE DEF a, b, T
    <3>2. /\ j \in Nat /\ r + j \in (r + 1) .. n /\ r + j \in 1 .. b /\ r + j + d \in 1 .. a
          /\ r + (j - 1) = (r + j) - 1 /\ r + (j - 1) + d = (r + j + d) - 1
          /\ (r + j) - 1 \in 0 .. b /\ (r + j + d) - 1 \in 0 .. a
      BY <3>1
    <3> QED
      BY <3>2 DEF a, b
  <2>2. Sums(t)[(r + j) - 1] = Sums(s)[(r + j + d) - 1] - e
    BY <1>3, <2>1
  <2>3. Sums(t)[r + j] = Sums(t)[(r + j) - 1] + t[r + j]
        /\ Sums(s)[r + j + d] = Sums(s)[(r + j + d) - 1] + s[r + j + d]
    BY <1>0, <2>1, SumsIs
  <2>4. t[r + j] = s[r + j + d] /\ s[r + j + d] \in Nat
        /\ Sums(s)[(r + j + d) - 1] \in Nat
    BY <1>0, <2>1, SumsIs
  <2>5. Sums(t)[r + j] = Sums(s)[r + j + d] - e
    <3> DEFINE a == Sums(s)[(r + j + d) - 1]
               b == s[r + j + d]
    <3>1. a \in Nat /\ b \in Nat /\ Sums(s)[r + j + d] = a + b /\ Sums(t)[r + j] = (a - e) + b
      BY <1>0, <2>2, <2>3, <2>4
    <3> HIDE DEF a, b, T
    <3> QED
      BY <1>0, <3>1
  <2> QED
    BY <2>5
<1>4. \A j \in 0 .. m : j \in T
  <2> HIDE DEF T, m
  <2> QED
    BY <1>1, <1>2, <1>3, Induction
<1> SUFFICES ASSUME NEW k \in r .. n PROVE Sums(t)[k] = Sums(s)[k + d] - e
  OBVIOUS
<1>5. k - r \in 0 .. m /\ r + (k - r) = k /\ r + (k - r) + d = k + d
  BY <1>0
<1>6. k - r \in T
  BY <1>4, <1>5
<1> QED
  BY <1>5, <1>6

LEMMA SumsGrow ==
  ASSUME NEW s \in Seq(Nat), NEW j \in 0 .. Len(s), NEW k \in j .. Len(s)
  PROVE  Sums(s)[j] <= Sums(s)[k]
<1> DEFINE n == Len(s) - j
           T == {i \in 0 .. n : Sums(s)[j] <= Sums(s)[j + i]}
<1>1. n \in Nat /\ j \in Nat /\ Sums(s)[j] \in Nat
  BY SumsIs
<1>2. 0 \in T
  BY <1>1
<1>3. ASSUME NEW i \in 1 .. n, i - 1 \in T PROVE i \in T
  <2>1. j + i \in 1 .. Len(s) /\ j + (i - 1) = (j + i) - 1 /\ (j + i) - 1 \in 0 .. Len(s)
    BY <1>1, SumsIs
  <2>2. Sums(s)[j + i] = Sums(s)[(j + i) - 1] + s[j + i] /\ s[j + i] \in Nat
        /\ Sums(s)[(j + i) - 1] \in Nat
    BY <2>1, SumsIs
  <2>3. Sums(s)[j] <= Sums(s)[(j + i) - 1]
    BY <1>3, <2>1
  <2> QED
    BY <1>1, <2>2, <2>3
<1>4. \A i \in 0 .. n : i \in T
  <2> HIDE DEF T, n
  <2> QED
    BY <1>1, <1>2, <1>3, Induction
<1>5. k - j \in 0 .. n /\ j + (k - j) = k
  BY <1>1
<1>6. k - j \in T
  BY <1>4, <1>5
<1> QED
  BY <1>5, <1>6

LEMMA SumsFlat ==
  ASSUME NEW s \in Seq(Nat), NEW r \in Nat, NEW n \in Nat, r <= n, n <= Len(s),
         \A i \in (r + 1) .. n : s[i] = 0
  PROVE  \A k \in r .. n : Sums(s)[k] = Sums(s)[r]
<1> DEFINE m == n - r
           T == {i \in 0 .. m : Sums(s)[r + i] = Sums(s)[r]}
<1>1. m \in Nat /\ Len(s) \in Nat
  OBVIOUS
<1>2. 0 \in T
  BY <1>1
<1>3. ASSUME NEW i \in 1 .. m, i - 1 \in T PROVE i \in T
  <2>1. r + i \in 1 .. Len(s) /\ r + (i - 1) = (r + i) - 1 /\ (r + i) - 1 \in 0 .. Len(s)
        /\ r + i \in (r + 1) .. n
    BY <1>1
  <2>2. Sums(s)[r + i] = Sums(s)[(r + i) - 1] + s[r + i] /\ s[r + i] = 0
        /\ Sums(s)[(r + i) - 1] \in Nat
    BY <2>1, SumsIs
  <2>3. Sums(s)[(r + i) - 1] = Sums(s)[r]
    BY <1>3, <2>1
  <2> QED
    BY <2>2, <2>3
<1>4. \A i \in 0 .. m : i \in T
  <2> HIDE DEF T, m
  <2> QED
    BY <1>1, <1>2, <1>3, Induction
<1> SUFFICES ASSUME NEW k \in r .. n PROVE Sums(s)[k] = Sums(s)[r]
  OBVIOUS
<1>5. k - r \in 0 .. m /\ r + (k - r) = k
  OBVIOUS
<1>6. k - r \in T
  BY <1>4, <1>5
<1> QED
  BY <1>5, <1>6

-----------------------------------------------------------------------------
(* How many elements of a sequence are in a set.                           *)

Mark(x, S) == IF x \in S THEN 1 ELSE 0

LEMMA MarksIs ==
  ASSUME NEW p \in Seq(Char), NEW S
  PROVE  /\ Marks(p, S) \in Seq(Nat) /\ Len(Marks(p, S)) = Len(p) /\ Len(p) \in Nat
         /\ \A i \in 1 .. Len(p) : Marks(p, S)[i] = Mark(p[i], S)
  BY DEF Marks, Mark

LEMMA AmongIs ==
  ASSUME NEW p \in Seq(Char), NEW S
  PROVE  /\ Among(p, S)[0] = 0
         /\ \A k \in 0 .. Len(p) : Among(p, S)[k] \in Nat
         /\ \A k \in 1 .. Len(p) : Among(p, S)[k] = Among(p, S)[k - 1] + Mark(p[k], S)
  BY MarksIs, SumsIs DEF Among

Agree(p, q, n) ==
  n \in Nat /\ n <= Len(p) /\ n <= Len(q) /\ \A i \in 1 .. n : q[i] = p[i]

LEMMA AmongSame ==
  ASSUME NEW p \in Seq(Char), NEW q \in Seq(Char), NEW S, NEW n, Agree(p, q, n)
  PROVE  \A k \in 0 .. n : Among(q, S)[k] = Among(p, S)[k]
<1> DEFINE s == Marks(p, S)
           t == Marks(q, S)
<1>1. /\ s \in Seq(Nat) /\ Len(s) = Len(p) /\ \A i \in 1 .. Len(p) : s[i] = Mark(p[i], S)
      /\ t \in Seq(Nat) /\ Len(t) = Len(q) /\ \A i \in 1 .. Len(q) : t[i] = Mark(q[i], S)
      /\ Len(p) \in Nat /\ Len(q) \in Nat
  BY MarksIs
<1>2. n \in Nat /\ n <= Len(p) /\ n <= Len(q) /\ \A i \in 1 .. n : q[i] = p[i]
  BY DEF Agree
<1> HIDE DEF s, t
<1>3. \A i \in 1 .. n : t[i] = s[i]
  <2> SUFFICES ASSUME NEW i \in 1 .. n PROVE t[i] = s[i]
    OBVIOUS
  <2>1. i \in 1 .. Len(p) /\ i \in 1 .. Len(q) /\ q[i] = p[i]
    BY <1>1, <1>2
  <2> QED
    BY <1>1, <2>1, Zenon
<1>4. \A k \in 0 .. n : Sums(t)[k] = Sums(s)[k + 0] - 0
  <2>1. Sums(s)[0] = 0 /\ Sums(t)[0] = 0
    BY <1>1, SumsIs
  <2>2. Shifted(s, t, 0, 0, 0, n)
    BY <1>1, <1>2, <1>3, <2>1 DEF Shifted
  <2> QED
    BY <2>2, SumsSame
<1>5. \A k \in 0 .. n : Sums(s)[k] \in Nat
  BY <1>1, <1>2, SumsIs
<1>6. \A k \in 0 .. n : Sums(t)[k] = Sums(s)[k]
  BY <1>2, <1>4, <1>5
<1> QED
  BY <1>6 DEF s, t, Among

(* q is p without its element r + 1.                                       *)
Without(p, q, r) ==
  /\ r \in Nat /\ r < Len(p) /\ Len(q) = Len(p) - 1
  /\ \A i \in 1 .. r : q[i] = p[i]
  /\ \A i \in (r + 1) .. Len(q) : q[i] = p[i + 1]

LEMMA AmongWithout ==
  ASSUME NEW p \in Seq(Char), NEW q \in Seq(Char), NEW S, NEW r, Without(p, q, r)
  PROVE  /\ \A k \in 0 .. r : Among(q, S)[k] = Among(p, S)[k]
         /\ \A k \in r .. Len(q) : Among(q, S)[k] = Among(p, S)[k + 1] - Mark(p[r + 1], S)
<1> DEFINE s == Marks(p, S)
           t == Marks(q, S)
           e == Mark(p[r + 1], S)
           n == Len(q)
<1>1. /\ n \in Nat /\ Len(p) = n + 1 /\ r \in Nat /\ r <= n
      /\ \A i \in 1 .. r : q[i] = p[i]
      /\ \A i \in (r + 1) .. n : q[i] = p[i + 1]
  BY DEF Without
<1>2. /\ s \in Seq(Nat) /\ t \in Seq(Nat) /\ Len(t) = n /\ Len(s) = n + 1
      /\ \A i \in 1 .. (n + 1) : s[i] = Mark(p[i], S)
      /\ \A i \in 1 .. n : t[i] = Mark(q[i], S)
  BY <1>1, MarksIs
<1>3. \A k \in 0 .. r : Among(q, S)[k] = Among(p, S)[k]
  <2> HIDE DEF n
  <2>1. Agree(p, q, r)
    BY <1>1 DEF n, Agree
  <2> QED
    BY <2>1, AmongSame
<1> HIDE DEF s, t, n, e
<1>4. /\ n <= Len(t) /\ n + 1 <= Len(s) /\ e \in Nat
      /\ \A i \in (r + 1) .. n : t[i] = s[i + 1]
  <2>1. ASSUME NEW i \in (r + 1) .. n PROVE t[i] = s[i + 1]
    <3>1. i \in 1 .. n /\ i + 1 \in 1 .. (n + 1) /\ q[i] = p[i + 1]
      BY <1>1
    <3> QED
      BY <1>2, <3>1, Zenon
  <2>2. e \in Nat
    BY DEF e, Mark
  <2> QED
    BY <1>1, <1>2, <2>1, <2>2
<1>5. Sums(t)[r] = Sums(s)[r + 1] - e
  <2>1. r \in 0 .. r /\ r + 1 \in 1 .. Len(s) /\ (r + 1) - 1 = r /\ r \in 0 .. Len(s)
    BY <1>1, <1>2
  <2>2. Sums(s)[r + 1] = Sums(s)[r] + s[r + 1] /\ Sums(s)[r] \in Nat /\ s[r + 1] = e
    BY <1>2, <2>1, SumsIs DEF e
  <2>3. Sums(t)[r] = Sums(s)[r]
    BY <1>3, <2>1 DEF s, t, Among
  <2> HIDE DEF e
  <2> QED
    BY <1>4, <2>2, <2>3
<1>6. \A k \in r .. n : Sums(t)[k] = Sums(s)[k + 1] - e
  <2>1. Shifted(s, t, 1, e, r, n)
    BY <1>1, <1>2, <1>4, <1>5 DEF Shifted
  <2> QED
    BY <2>1, SumsSame
<1> QED
  BY <1>3, <1>6 DEF s, t, n, e, Among

-----------------------------------------------------------------------------
(* How what is counted covers the pipe.                                    *)

LEMMA CoverWithout ==
  ASSUME NEW p \in Seq(Char), NEW q \in Seq(Char), NEW r, Without(p, q, r),
         NEW a \in Nat, NEW b \in Nat, NEW c \in Seq(Nat), NEW w \in 0 .. Len(c),
         Covers(p, a, c, w),
         b = a \/ (b = a + 1 /\ r = 0 /\ p[1] \in LineEnds)
  PROVE  Covers(q, b, c, w)
<1> DEFINE n == Len(q)
           e == Mark(p[r + 1], LineEnds)
           f == Among(p, LineEnds)
           g == Among(q, LineEnds)
<1>1. n \in Nat /\ Len(p) = n + 1 /\ r \in Nat /\ r <= n /\ Len(c) \in Nat /\ w \in Nat
  BY DEF Without
<1>2. /\ \A k \in 0 .. r : g[k] = f[k]
      /\ \A k \in r .. n : g[k] = f[k + 1] - e
  BY AmongWithout
<1>3. \A k \in 0 .. (n + 1) : f[k] \in Nat
  BY <1>1, AmongIs
<1>4. \A k \in 0 .. n : g[k] \in Nat
  BY AmongIs
<1>5. e \in {0, 1} /\ (b = a + 1 => e = 1 /\ r = 0)
  BY DEF Mark
<1>6. \A k \in 0 .. (n + 1) : /\ a + f[k] <= w
                              /\ n + 1 - k <= Sums(c)[w] - Sums(c)[a + f[k]]
  BY <1>1 DEF Covers
<1> HIDE DEF n, e, f, g
<1> SUFFICES ASSUME NEW k \in 0 .. n
             PROVE  b + g[k] <= w /\ n - k <= Sums(c)[w] - Sums(c)[b + g[k]]
  BY DEF Covers, n, g
<1>7. CASE b = a /\ k < r
  <2>1. g[k] = f[k] /\ k \in 0 .. (n + 1) /\ f[k] \in Nat
    BY <1>1, <1>2, <1>3, <1>7
  <2>2. a + f[k] <= w /\ n + 1 - k <= Sums(c)[w] - Sums(c)[a + f[k]]
    BY <1>6, <2>1
  <2>3. Sums(c)[w] \in Nat /\ Sums(c)[a + f[k]] \in Nat
    BY <1>1, <2>1, <2>2, SumsIs
  <2> QED
    BY <1>1, <1>7, <2>1, <2>2, <2>3
<1>8. CASE ~(b = a /\ k < r)
  <2>1. k \in r .. n /\ k + 1 \in 0 .. (n + 1)
    BY <1>1, <1>5, <1>8
  <2>2. g[k] = f[k + 1] - e /\ f[k + 1] \in Nat /\ g[k] \in Nat
    BY <1>2, <1>3, <1>4, <2>1
  <2>3. a + f[k + 1] <= w /\ n + 1 - (k + 1) <= Sums(c)[w] - Sums(c)[a + f[k + 1]]
    BY <1>6, <2>1
  <2>4. b + g[k] <= a + f[k + 1]
    BY <1>5, <2>2
  <2> DEFINE j == b + g[k]
             m == a + f[k + 1]
  <2>0. j \in Nat /\ m \in Nat /\ j <= m /\ m <= w /\ w <= Len(c)
    BY <1>1, <2>2, <2>3, <2>4, SMTT(30)
  <2> HIDE DEF j, m
  <2>5. j \in 0 .. Len(c) /\ m \in j .. Len(c) /\ m \in 0 .. Len(c)
    BY <1>1, <2>0
  <2>6. Sums(c)[j] <= Sums(c)[m]
    BY <2>5, SumsGrow
  <2>7. Sums(c)[w] \in Nat /\ Sums(c)[j] \in Nat /\ Sums(c)[m] \in Nat
    BY <2>5, SumsIs
  <2> DEFINE sw == Sums(c)[w]
             sj == Sums(c)[j]
             sm == Sums(c)[m]
  <2>8. n + 1 - (k + 1) <= sw - sm /\ sw \in Nat /\ sj \in Nat /\ sm \in Nat /\ sj <= sm
    BY <2>3, <2>6, <2>7 DEF m
  <2> HIDE DEF sw, sj, sm
  <2>9. n - k <= sw - sj
    BY <1>1, <2>8
  <2> QED
    BY <2>0, <2>9, <1>1 DEF sw, sj, j
<1> QED
  BY <1>7, <1>8

LEMMA CoverAppend ==
  ASSUME NEW p \in Seq(Char), NEW q \in Seq(Char), NEW a \in Nat, NEW c \in Seq(Nat),
         NEW w \in 0 .. Len(c) - 1, Covers(p, a, c, w),
         c[w + 1] >= 1, Len(q) = Len(p) + c[w + 1],
         \A i \in 1 .. Len(p) : q[i] = p[i],
         \A i \in (Len(p) + 1) .. (Len(q) - 1) : q[i] \notin LineEnds
  PROVE  Covers(q, a, c, w + 1)
<1> DEFINE n == Len(p)
           x == c[w + 1]
           f == Among(p, LineEnds)
           g == Among(q, LineEnds)
<1>1. /\ n \in Nat /\ Len(c) \in Nat /\ w \in Nat /\ w + 1 \in 1 .. Len(c) /\ w \in 0 .. Len(c)
      /\ (w + 1) - 1 = w /\ w + 1 \in 0 .. Len(c)
  <2>1. n \in Nat /\ Len(c) \in Nat
    OBVIOUS
  <2> HIDE DEF n
  <2> QED
    BY <2>1
<1>2. x \in Nat /\ x >= 1 /\ Len(q) = n + x
      /\ Sums(c)[w + 1] = Sums(c)[w] + x /\ Sums(c)[w] \in Nat
  BY <1>1, SumsIs
<1>3. \A k \in 0 .. n : g[k] = f[k] /\ f[k] \in Nat
  <2>1. Agree(p, q, n)
    BY <1>1, <1>2 DEF Agree
  <2>2. \A k \in 0 .. n : g[k] = f[k]
    BY <2>1, AmongSame
  <2> QED
    BY <2>2, AmongIs
<1>4. \A k \in 0 .. n : /\ a + f[k] <= w
                        /\ n - k <= Sums(c)[w] - Sums(c)[a + f[k]]
  BY DEF Covers
<1>5. \A k \in n .. (n + x - 1) : g[k] = f[n]
  <2> DEFINE t == Marks(q, LineEnds)
  <2>1. t \in Seq(Nat) /\ Len(t) = n + x
        /\ \A i \in (n + 1) .. (n + x - 1) : t[i] = 0
    <3>1. t \in Seq(Nat) /\ Len(t) = n + x /\ \A i \in 1 .. Len(q) : t[i] = Mark(q[i], LineEnds)
      BY <1>2, MarksIs
    <3>2. Len(q) - 1 = n + x - 1 /\ \A i \in (n + 1) .. (n + x - 1) : i \in 1 .. Len(q)
      <4> DEFINE l == Len(q)
      <4>1. n \in Nat /\ x \in Nat /\ x >= 1 /\ l = n + x
        BY <1>1, <1>2
      <4> HIDE DEF n, x, l
      <4>2. l - 1 = n + x - 1 /\ \A i \in (n + 1) .. (n + x - 1) : i \in 1 .. l
        BY <4>1
      <4> QED
        BY <4>2 DEF l
    <3> HIDE DEF t
    <3>3. ASSUME NEW i \in (n + 1) .. (n + x - 1) PROVE t[i] = 0
      <4>1. q[i] \notin LineEnds
        BY <3>2
      <4>2. t[i] = Mark(q[i], LineEnds)
        BY <3>1, <3>2, Zenon
      <4> QED
        BY <4>1, <4>2 DEF Mark
    <3> QED
      BY <3>1, <3>3
  <2> HIDE DEF t, n, x
  <2>2. n \in Nat /\ n + x - 1 \in Nat /\ n <= n + x - 1 /\ n + x - 1 <= Len(t)
    BY <1>1, <1>2, <2>1
  <2> DEFINE l == n + x - 1
  <2>3. l \in Nat /\ n <= l /\ l <= Len(t) /\ \A i \in (n + 1) .. l : t[i] = 0
    BY <2>1, <2>2
  <2> HIDE DEF l
  <2>4. \A k \in n .. l : Sums(t)[k] = Sums(t)[n]
    BY <1>1, <2>1, <2>3, SumsFlat
  <2>5. g[n] = f[n]
    BY <1>1, <1>3
  <2> QED
    BY <2>4, <2>5 DEF t, Among, l
<1>6. \A k \in 0 .. (n + x) : g[k] \in Nat
  BY <1>2, AmongIs
<1>7. g[n + x] <= f[n] + 1
  <2>1. /\ n + x \in 1 .. Len(q) /\ (n + x) - 1 = n + x - 1 /\ n + x - 1 \in n .. (n + x - 1)
        /\ n \in 0 .. n
    <3> HIDE DEF n, x
    <3> QED
      BY <1>1, <1>2, SMTT(30)
  <2>2. g[n + x] = g[(n + x) - 1] + Mark(q[n + x], LineEnds)
    BY <2>1, AmongIs
  <2>3. g[n + x - 1] = f[n] /\ f[n] \in Nat
    BY <1>3, <1>5, <2>1
  <2>4. Mark(q[n + x], LineEnds) \in {0, 1}
    BY DEF Mark
  <2> QED
    BY <2>1, <2>2, <2>3, <2>4, SMTT(30)
<1> HIDE DEF n, x, f, g
<1> SUFFICES ASSUME NEW k \in 0 .. (n + x)
             PROVE  a + g[k] <= w + 1 /\ n + x - k <= Sums(c)[w + 1] - Sums(c)[a + g[k]]
  BY <1>2, SMTT(30) DEF Covers, n, g
<1>8. f[n] \in Nat /\ a + f[n] <= w /\ Sums(c)[a + f[n]] \in Nat
      /\ Sums(c)[a + f[n]] <= Sums(c)[w]
  <2>1. n \in 0 .. n
    BY <1>1
  <2>2. f[n] \in Nat /\ a + f[n] <= w
    BY <1>3, <1>4, <2>1
  <2>3. a + f[n] \in 0 .. Len(c) /\ w \in (a + f[n]) .. Len(c)
    BY <1>1, <2>2, SMTT(30)
  <2> QED
    BY <2>2, <2>3, SumsIs, SumsGrow
<1>9. CASE k <= n
  <2>1. k \in 0 .. n
    BY <1>1, <1>2, <1>9
  <2>2. g[k] = f[k] /\ f[k] \in Nat /\ a + f[k] <= w /\ n - k <= Sums(c)[w] - Sums(c)[a + f[k]]
    BY <1>3, <1>4, <2>1
  <2>3. Sums(c)[a + f[k]] \in Nat
    <3>1. a + f[k] \in 0 .. Len(c)
      BY <1>1, <2>2, SMTT(30)
    <3> QED
      BY <3>1, SumsIs
  <2> DEFINE sw == Sums(c)[w]
             sj == Sums(c)[a + f[k]]
  <2>4. sw \in Nat /\ sj \in Nat /\ Sums(c)[w + 1] = sw + x /\ n - k <= sw - sj
    BY <1>2, <2>2, <2>3
  <2> HIDE DEF sw, sj
  <2>5. n + x - k <= (sw + x) - sj
    BY <1>1, <1>2, <2>1, <2>4, SMTT(30)
  <2>6. a + g[k] <= w + 1
    BY <1>1, <2>2
  <2> QED
    BY <2>2, <2>4, <2>5, <2>6 DEF sj
<1>10. CASE k > n /\ k < n + x
  <2>1. k \in n .. (n + x - 1)
    BY <1>1, <1>2, <1>10, SMTT(30)
  <2>2. g[k] = f[n]
    BY <1>5, <2>1
  <2> DEFINE sw == Sums(c)[w]
             sj == Sums(c)[a + f[n]]
  <2>4. sw \in Nat /\ sj \in Nat /\ Sums(c)[w + 1] = sw + x /\ sj <= sw
    BY <1>2, <1>8
  <2> HIDE DEF sw, sj
  <2>5. n + x - k <= (sw + x) - sj
    BY <1>1, <1>2, <1>10, <2>4, SMTT(30)
  <2>6. a + g[k] <= w + 1
    BY <1>1, <1>8, <2>2
  <2> QED
    BY <2>2, <2>4, <2>5, <2>6 DEF sj
<1>11. CASE k = n + x
  <2>1. g[k] \in Nat /\ g[k] <= f[n] + 1
    BY <1>6, <1>7, <1>11
  <2> DEFINE j == a + g[k]
             y == f[n]
  <2>0. j \in Nat /\ j <= w + 1
    <3> DEFINE z == g[k]
    <3>1. z \in Nat /\ z <= y + 1 /\ y \in Nat /\ a + y <= w /\ w \in Nat
      BY <1>1, <1>8, <2>1
    <3> HIDE DEF y, z
    <3>2. a + z \in Nat /\ a + z <= w + 1
      BY <3>1
    <3> QED
      BY <3>2 DEF z
  <2> HIDE DEF j
  <2>2. j \in 0 .. Len(c) /\ w + 1 \in j .. Len(c)
    BY <1>1, <2>0
  <2>3. Sums(c)[j] <= Sums(c)[w + 1] /\ Sums(c)[j] \in Nat
    BY <2>2, SumsGrow, SumsIs
  <2>4. n + x - k <= Sums(c)[w + 1] - Sums(c)[j]
    <3> DEFINE sw == Sums(c)[w + 1]
               sj == Sums(c)[j]
    <3>1. sw \in Nat /\ sj \in Nat /\ sj <= sw
      BY <1>1, <2>3, SumsIs
    <3> HIDE DEF sw, sj
    <3>2. n + x - k <= sw - sj
      BY <1>1, <1>2, <1>11, <3>1
    <3> QED
      BY <3>2 DEF sw, sj
  <2> QED
    BY <2>0, <2>4 DEF j
<1> QED
  BY <1>1, <1>2, <1>9, <1>10, <1>11

LEMMA CoverPop ==
  ASSUME NEW p \in Seq(Char), NEW a \in Nat \ {0}, NEW c \in Seq(Nat),
         NEW w \in 0 .. Len(c), Covers(p, a, c, w)
  PROVE  /\ c # <<>> /\ w >= 1 /\ Tail(c) \in Seq(Nat) /\ Len(Tail(c)) = Len(c) - 1
         /\ Covers(p, a - 1, Tail(c), w - 1)
<1> DEFINE d == Tail(c)
           f == Among(p, LineEnds)
           n == Len(p)
<1>1. /\ n \in Nat /\ 0 \in 0 .. n /\ Len(c) \in Nat /\ w \in Nat
      /\ \A k \in 0 .. n : f[k] \in Nat /\ a + f[k] <= w
                           /\ n - k <= Sums(c)[w] - Sums(c)[a + f[k]]
  BY AmongIs DEF Covers
<1>2. w >= 1 /\ c # <<>>
  <2>1. f[0] \in Nat /\ a + f[0] <= w
    BY <1>1
  <2> HIDE DEF f
  <2> QED
    BY <1>1, <2>1
<1>3. /\ d \in Seq(Nat) /\ Len(d) = Len(c) - 1 /\ \A i \in 1 .. Len(d) : d[i] = c[i + 1]
      /\ c[1] \in Nat
  BY <1>2
<1> HIDE DEF d, f, n
<1>4. \A k \in 0 .. Len(d) : Sums(d)[k] = Sums(c)[k + 1] - c[1]
  <2> DEFINE m == Len(d)
  <2>1. m \in Nat /\ 0 <= m /\ m <= Len(d) /\ m + 1 <= Len(c)
        /\ \A i \in 1 .. m : d[i] = c[i + 1]
    BY <1>3
  <2>2. Sums(d)[0] = Sums(c)[0 + 1] - c[1]
    <3>1. 1 \in 1 .. Len(c) /\ 1 - 1 = 0
      BY <1>1, <1>2
    <3>2. Sums(c)[1] = Sums(c)[0] + c[1] /\ Sums(c)[0] = 0 /\ Sums(d)[0] = 0
      BY <1>3, <3>1, SumsIs
    <3> QED
      BY <1>3, <3>2
  <2> HIDE DEF m
  <2>3. Shifted(c, d, 1, c[1], 0, m)
    BY <1>3, <2>1, <2>2 DEF Shifted
  <2>4. \A k \in 0 .. m : Sums(d)[k] = Sums(c)[k + 1] - c[1]
    BY <2>3, SumsSame
  <2> QED
    BY <2>4 DEF m
<1>5. \A k \in 0 .. Len(c) : Sums(c)[k] \in Nat
  BY SumsIs
<1>6. ASSUME NEW k \in 0 .. n
      PROVE  /\ (a - 1) + f[k] <= w - 1
             /\ n - k <= Sums(d)[w - 1] - Sums(d)[(a - 1) + f[k]]
  <2>1. f[k] \in Nat /\ a + f[k] <= w /\ n - k <= Sums(c)[w] - Sums(c)[a + f[k]]
    BY <1>1
  <2>2. /\ w - 1 \in 0 .. Len(d) /\ (w - 1) + 1 = w
        /\ (a - 1) + f[k] \in 0 .. Len(d) /\ ((a - 1) + f[k]) + 1 = a + f[k]
        /\ w \in 0 .. Len(c) /\ a + f[k] \in 0 .. Len(c)
    <3> DEFINE y == f[k]
               l == Len(c)
    <3>1. y \in Nat /\ a + y <= w /\ l \in Nat /\ w \in Nat /\ w <= l /\ w >= 1 /\ Len(d) = l - 1
      BY <1>1, <1>2, <1>3, <2>1
    <3> HIDE DEF y, l
    <3>2. /\ w - 1 \in 0 .. (l - 1) /\ (w - 1) + 1 = w
          /\ (a - 1) + y \in 0 .. (l - 1) /\ ((a - 1) + y) + 1 = a + y
          /\ w \in 0 .. l /\ a + y \in 0 .. l
      BY <3>1
    <3> QED
      BY <3>1, <3>2 DEF y, l
  <2>3. Sums(d)[w - 1] = Sums(c)[w] - c[1] /\ Sums(d)[(a - 1) + f[k]] = Sums(c)[a + f[k]] - c[1]
        /\ Sums(c)[w] \in Nat /\ Sums(c)[a + f[k]] \in Nat
    BY <1>4, <1>5, <2>2
  <2>4. (a - 1) + f[k] <= w - 1
    BY <1>1, <2>1
  <2>5. n - k <= Sums(d)[w - 1] - Sums(d)[(a - 1) + f[k]]
    <3> DEFINE sw == Sums(c)[w]
               sj == Sums(c)[a + f[k]]
               h == c[1]
    <3>1. sw \in Nat /\ sj \in Nat /\ h \in Nat /\ n - k <= sw - sj
      BY <1>3, <2>1, <2>3
    <3>2. Sums(d)[w - 1] = sw - h /\ Sums(d)[(a - 1) + f[k]] = sj - h
      BY <2>3
    <3> HIDE DEF sw, sj, h
    <3>3. n - k <= (sw - h) - (sj - h)
      BY <1>1, <3>1
    <3> QED
      BY <3>2, <3>3
  <2> QED
    BY <2>4, <2>5
<1> QED
  BY <1>2, <1>3, <1>6 DEF Covers, d, f, n

LEMMA CoverMore ==
  ASSUME NEW p \in Seq(Char), NEW a \in Nat, NEW c \in Seq(Nat), NEW x \in Nat,
         Covers(p, a, c, Len(c))
  PROVE  Covers(p, a, Append(c, x), Len(c))
<1> DEFINE d == Append(c, x)
           m == Len(c)
<1>1. m \in Nat /\ d \in Seq(Nat) /\ Len(d) = m + 1 /\ \A i \in 1 .. m : d[i] = c[i]
  OBVIOUS
<1> HIDE DEF d, m
<1>2. \A k \in 0 .. m : Sums(d)[k] = Sums(c)[k]
  <2>1. Sums(d)[0] = 0 /\ Sums(c)[0] = 0 /\ Len(c) = m
    BY <1>1, SumsIs DEF m
  <2>2. Shifted(c, d, 0, 0, 0, m)
    BY <1>1, <2>1 DEF Shifted
  <2>3. \A k \in 0 .. m : Sums(d)[k] = Sums(c)[k + 0] - 0
    BY <2>2, SumsSame
  <2>4. \A k \in 0 .. m : Sums(c)[k] \in Nat
    BY SumsIs DEF m
  <2> QED
    BY <1>1, <2>3, <2>4
<1>3. ASSUME NEW k \in 0 .. Len(p)
      PROVE  LET done == a + Among(p, LineEnds)[k]
             IN done <= m /\ Len(p) - k <= Sums(d)[m] - Sums(d)[done]
  <2> DEFINE done == a + Among(p, LineEnds)[k]
  <2>1. done <= m /\ Len(p) - k <= Sums(c)[m] - Sums(c)[done] /\ Among(p, LineEnds)[k] \in Nat
    BY AmongIs DEF Covers, m
  <2>2. done \in 0 .. m /\ m \in 0 .. m
    BY <1>1, <2>1
  <2> HIDE DEF done
  <2>3. Sums(d)[m] = Sums(c)[m] /\ Sums(d)[done] = Sums(c)[done]
    BY <1>2, <2>2
  <2>4. done <= m /\ Len(p) - k <= Sums(d)[m] - Sums(d)[done]
    BY <2>1, <2>3
  <2> QED
    BY <2>4 DEF done
<1> QED
  BY <1>3 DEF Covers, d, m

(* All that is in the pipe is counted.                                     *)
LEMMA CoverBound ==
  ASSUME NEW p \in Seq(Char), NEW a \in Nat, NEW c \in Seq(Nat), NEW w \in 0 .. Len(c),
         Covers(p, a, c, w)
  PROVE  Len(p) <= Sums(c)[Len(c)]
<1>1. Len(p) \in Nat /\ 0 \in 0 .. Len(p) /\ Len(c) \in Nat /\ w \in Nat
  OBVIOUS
<1>2. Among(p, LineEnds)[0] = 0
  BY AmongIs
<1>3. a + 0 <= w /\ Len(p) - 0 <= Sums(c)[w] - Sums(c)[a + 0]
  BY <1>1, <1>2 DEF Covers
<1>4. a \in 0 .. Len(c) /\ Len(c) \in w .. Len(c)
  BY <1>1, <1>3
<1>5. Sums(c)[a] \in Nat /\ Sums(c)[w] \in Nat /\ Sums(c)[w] <= Sums(c)[Len(c)]
      /\ Sums(c)[Len(c)] \in Nat
  BY <1>1, <1>4, SumsIs, SumsGrow
<1> QED
  BY <1>1, <1>3, <1>5

-----------------------------------------------------------------------------
(* What the lines under way keep while their bytes move on.                *)

LEMMA Joined ==
  ASSUME NEW a \in Seq(Char), NEW b \in Seq(Char)
  PROVE  /\ a \o b \in Seq(Char) /\ Len(a \o b) = Len(a) + Len(b)
         /\ Len(a) \in Nat /\ Len(b) \in Nat
         /\ \A i \in 1 .. Len(a) : (a \o b)[i] = a[i]
         /\ \A i \in 1 .. Len(b) : (a \o b)[Len(a) + i] = b[i]
<1>1. /\ a \o b \in Seq(Char) /\ Len(a \o b) = Len(a) + Len(b)
      /\ Len(a) \in Nat /\ Len(b) \in Nat
  OBVIOUS
<1>2. \A i \in 1 .. Len(a) + Len(b) :
        (a \o b)[i] = IF i <= Len(a) THEN a[i] ELSE b[i - Len(a)]
  OBVIOUS
<1> DEFINE m == Len(a)
           n == Len(b)
           s == a \o b
<1>3. m \in Nat /\ n \in Nat /\ \A i \in 1 .. m + n : s[i] = IF i <= m THEN a[i] ELSE b[i - m]
  BY <1>1, <1>2
<1> HIDE DEF m, n, s
<1>4. \A i \in 1 .. m : s[i] = a[i]
  <2> SUFFICES ASSUME NEW i \in 1 .. m PROVE s[i] = a[i]
    OBVIOUS
  <2>1. i \in 1 .. m + n /\ i <= m
    BY <1>3
  <2> QED
    BY <1>3, <2>1
<1>5. \A i \in 1 .. n : s[m + i] = b[i]
  <2> SUFFICES ASSUME NEW i \in 1 .. n PROVE s[m + i] = b[i]
    OBVIOUS
  <2>1. m + i \in 1 .. m + n /\ ~(m + i <= m) /\ (m + i) - m = i
    BY <1>3
  <2> QED
    BY <1>3, <2>1
<1> QED
  BY <1>1, <1>4, <1>5 DEF m, n, s

LEMMA TailIs ==
  ASSUME NEW p \in Seq(Char), p # <<>>
  PROVE  /\ Tail(p) \in Seq(Char) /\ Head(p) = p[1] /\ p[1] \in Char
         /\ Len(p) \in Nat /\ Len(Tail(p)) = Len(p) - 1 /\ Len(p) >= 1
         /\ \A i \in 1 .. Len(Tail(p)) : Tail(p)[i] = p[i + 1]
         /\ Without(p, Tail(p), 0)
<1>1. /\ Tail(p) \in Seq(Char) /\ Head(p) = p[1] /\ p[1] \in Char
      /\ Len(p) \in Nat /\ Len(Tail(p)) = Len(p) - 1 /\ Len(p) >= 1
      /\ \A i \in 1 .. Len(Tail(p)) : Tail(p)[i] = p[i + 1]
  OBVIOUS
<1>2. Without(p, Tail(p), 0)
  BY <1>1 DEF Without
<1> QED
  BY <1>1, <1>2

LEMMA AppendIs ==
  ASSUME NEW T, NEW s \in Seq(T), NEW x \in T
  PROVE  /\ Append(s, x) \in Seq(T) /\ Len(Append(s, x)) = Len(s) + 1 /\ Len(s) \in Nat
         /\ \A i \in 1 .. Len(s) : Append(s, x)[i] = s[i]
         /\ Append(s, x)[Len(s) + 1] = x
  OBVIOUS

-----------------------------------------------------------------------------
(* The answers that the host has still to read, and the limit.             *)

LEMMA AnswersAreStrings ==
  ASSUME NEW s \in Seq({"status", "report"})
  PROVE  s \in Seq(Char)
<1>1. {"status", "report"} \subseteq Char
  BY DEF Char
<1> QED
  BY <1>1, SeqMonotonic

LEMMA StatusesIs ==
  ASSUME NEW s \in Seq({"status", "report"})
  PROVE  Statuses(s) \in Nat /\ (s = <<>> => Statuses(s) = 0)
<1>1. s \in Seq(Char) /\ Len(s) \in Nat /\ Len(s) \in 0 .. Len(s) /\ (s = <<>> => Len(s) = 0)
  BY AnswersAreStrings
<1>2. /\ Among(s, {"status"})[0] = 0
      /\ \A k \in 0 .. Len(s) : Among(s, {"status"})[k] \in Nat
  BY <1>1, AmongIs
<1> QED
  BY <1>1, <1>2 DEF Statuses

LEMMA StatusesAppend ==
  ASSUME NEW s \in Seq({"status", "report"}), NEW x \in {"status", "report"}
  PROVE  /\ Append(s, x) \in Seq({"status", "report"})
         /\ Statuses(Append(s, x)) = Statuses(s) + Mark(x, {"status"})
<1> DEFINE t == Append(s, x)
           n == Len(s)
<1>1. /\ t \in Seq({"status", "report"}) /\ Len(t) = n + 1 /\ n \in Nat
      /\ \A i \in 1 .. n : t[i] = s[i]
      /\ t[n + 1] = x
  BY AppendIs
<1> HIDE DEF t
<1>2. s \in Seq(Char) /\ t \in Seq(Char)
  BY <1>1, AnswersAreStrings
<1>3. Agree(s, t, n)
  BY <1>1 DEF Agree
<1> HIDE DEF n
<1>4. n \in 0 .. n /\ n + 1 \in 1 .. Len(t) /\ (n + 1) - 1 = n
  BY <1>1
<1>5. Among(t, {"status"})[n] = Among(s, {"status"})[n]
  BY <1>2, <1>3, <1>4, AmongSame
<1>6. Among(t, {"status"})[n + 1] = Among(t, {"status"})[(n + 1) - 1] + Mark(t[n + 1], {"status"})
  BY <1>2, <1>4, AmongIs
<1> QED
  BY <1>1, <1>4, <1>5, <1>6 DEF Statuses, n, t

LEMMA StatusesTail ==
  ASSUME NEW s \in Seq({"status", "report"}), s # <<>>
  PROVE  /\ Tail(s) \in Seq({"status", "report"}) /\ Head(s) \in {"status", "report"}
         /\ Statuses(Tail(s)) = Statuses(s) - Mark(Head(s), {"status"})
<1> DEFINE t == Tail(s)
<1>1. /\ s \in Seq(Char) /\ t \in Seq({"status", "report"})
      /\ Head(s) \in {"status", "report"}
  BY AnswersAreStrings
<1>2. /\ t \in Seq(Char) /\ Head(s) = s[1] /\ Len(s) \in Nat /\ Len(t) = Len(s) - 1
      /\ Len(s) >= 1 /\ Without(s, t, 0)
  BY <1>1, TailIs
<1> HIDE DEF t
<1> DEFINE n == Len(t)
<1>3. n \in 0 .. n /\ n + 1 = Len(s)
  BY <1>2
<1> HIDE DEF n
<1>4. Among(t, {"status"})[n] = Among(s, {"status"})[n + 1] - Mark(s[0 + 1], {"status"})
  BY <1>1, <1>2, <1>3, AmongWithout DEF n
<1>5. s[0 + 1] = s[1]
  OBVIOUS
<1> QED
  BY <1>1, <1>2, <1>3, <1>4, <1>5 DEF Statuses, n, t

LEMMA LimitIs ==
  ASSUME NEW n \in Nat
  PROVE  /\ Limit(n) >= RxBufferSize - 1 /\ Limit(n) \in Int
         /\ n < RxBufferSize => Limit(n) = RxBufferSize - 1
<1> DEFINE R == RxBufferSize
           m == n % R
<1>1. R \in Nat /\ R > 0
  BY StreamingAssumption
<1> HIDE DEF R
<1>2. m \in Nat /\ m <= n /\ (n < R => m = n)
  BY <1>1
<1> HIDE DEF m
<1>3. Limit(n) = (n - m) + R - 1
  BY DEF Limit, m, R
<1> QED
  BY <1>1, <1>2, <1>3 DEF R

LEMMA InWaitingIs ==
  ASSUME TypeInv, NEW k \in 0 .. Len(inbox)
  PROVE  InWaiting(k) \in Nat
<1> DEFINE s == [i \in 1 .. k |-> AnswerSize[inbox[i]]]
<1>1. inbox \in Seq({"status", "report"}) /\ Len(inbox) \in Nat /\ k \in Nat
  BY DEF TypeInv
<1>2. \A i \in 1 .. k : inbox[i] \in {"status", "report"}
  BY <1>1
<1>3. \A x \in {"status", "report"} : AnswerSize[x] \in Nat
  BY StreamingAssumption
<1>4. s \in Seq(Nat) /\ Len(s) = k
  BY <1>1, <1>2, <1>3
<1>5. k \in 0 .. Len(s)
  BY <1>1, <1>4
<1> HIDE DEF s
<1>6. Sums(s)[k] \in Nat
  BY <1>4, <1>5, SumsIs
<1> QED
  BY <1>6 DEF InWaiting, s

LEMMA CountedIs ==
  ASSUME TypeInv
  PROVE  Counted \in Nat /\ Len(cLine) \in Nat /\ (cLine # <<>> => Len(cLine) >= 1)
<1>1. cLine \in Seq(Nat)
  BY DEF TypeInv
<1>2. Len(cLine) \in Nat /\ (cLine # <<>> => Len(cLine) >= 1)
  BY <1>1
<1>3. Len(cLine) \in 0 .. Len(cLine)
  BY <1>2
<1> QED
  BY <1>1, <1>2, <1>3, SumsIs DEF Counted

LEMMA PipeIs ==
  ASSUME TypeInv
  PROVE  /\ Pipe \in Seq(Char) /\ Len(Pipe) = Len(ring) + Len(wire)
         /\ Len(ring) \in Nat /\ Len(wire) \in Nat
         /\ \A i \in 1 .. Len(ring) : Pipe[i] = ring[i]
         /\ \A i \in 1 .. Len(wire) : Pipe[Len(ring) + i] = wire[i]
  BY Joined DEF TypeInv, Pipe

LEMMA PipeEmpty ==
  ASSUME TypeInv
  PROVE  Pipe = <<>> <=> ring = <<>> /\ wire = <<>>
  BY DEF TypeInv, Pipe

LEMMA AnsweredIs ==
  ASSUME TypeInv
  PROVE  /\ Answered \in Nat /\ Statuses(inbox) \in Nat
         /\ Len(cLine) \in Nat /\ Written \in 0 .. Len(cLine)
<1>1. Statuses(inbox) \in Nat
  BY StatusesIs DEF TypeInv
<1>2. Len(cLine) \in Nat /\ (host = "room" => Len(cLine) >= 1)
  BY CountedIs DEF TypeInv
<1> QED
  BY <1>1, <1>2 DEF Answered, Written

-----------------------------------------------------------------------------
(* A line under way in full.                                               *)

LEMMA LineIs ==
  ASSUME NEW l \in Programs \cup SettingsLines
  PROVE  /\ l \in Seq(Char) /\ Len(l) \in Nat /\ Append(l, "\n") \in Seq(Char)
         /\ Len(Append(l, "\n")) = Len(l) + 1
         /\ Append(l, "\n")[Len(l) + 1] = "\n"
         /\ \A i \in 1 .. Len(l) : Append(l, "\n")[i] = l[i] /\ l[i] \notin LineEnds
<1>1. l \in Seq(Char) /\ ~Contains(l, "\n") /\ ~Contains(l, "\r")
  <2>1. l \in Seq(STRING) /\ STRING \subseteq Char
    BY StreamingAssumption DEF Char
  <2>2. l \in Seq(Char)
    BY <2>1, SeqMonotonic
  <2> QED
    BY <2>2, StreamingAssumption
<1>2. \A i \in 1 .. Len(l) : l[i] \notin LineEnds
  BY <1>1 DEF Contains, LineEnds
<1>3. "\n" \in Char
  BY DEF Char, LineEnds
<1> QED
  BY <1>1, <1>2, <1>3, AppendIs

LEMMA WriteIs ==
  ASSUME TypeInv, NEW l \in Programs \cup SettingsLines, Write(l), ring' = ring
  PROVE  /\ Pipe' = Pipe \o Append(l, "\n") /\ wire' \in Seq(Char)
<1>1. Append(l, "\n") \in Seq(Char) /\ wire \in Seq(Char) /\ ring \in Seq(Char)
  BY LineIs DEF TypeInv
<1> DEFINE e == Append(l, "\n")
<1>2. wire' = wire \o e
  BY DEF Write
<1> HIDE DEF e
<1>3. e \in Seq(Char) /\ wire \in Seq(Char) /\ ring \in Seq(Char)
  BY <1>1 DEF e
<1>4. ring \o (wire \o e) = (ring \o wire) \o e
  BY <1>3, ConcatAssociative
<1>5. wire \o e \in Seq(Char)
  BY <1>3, Joined
<1> QED
  BY <1>2, <1>4, <1>5 DEF Pipe, e

-----------------------------------------------------------------------------
(* The pipe while a byte moves along it.                                   *)

LEMMA Moved ==
  ASSUME NEW a \in Seq(Char), NEW b \in Seq(Char), b # <<>>
  PROVE  /\ Append(a, Head(b)) \o Tail(b) = a \o b
         /\ Append(a, Head(b)) \in Seq(Char) /\ Tail(b) \in Seq(Char)
<1> DEFINE h == Head(b)
           q == Tail(b)
           e == Append(a, h)
           m == Len(a)
           n == Len(b)
           s == e \o q
           t == a \o b
<1>1. /\ q \in Seq(Char) /\ h = b[1] /\ h \in Char /\ n \in Nat /\ Len(q) = n - 1 /\ n >= 1
      /\ \A i \in 1 .. Len(q) : q[i] = b[i + 1]
  BY TailIs
<1> HIDE DEF q, h
<1>2. /\ e \in Seq(Char) /\ Len(e) = m + 1 /\ m \in Nat
      /\ (\A i \in 1 .. m : e[i] = a[i]) /\ e[m + 1] = h
  BY <1>1, AppendIs
<1> HIDE DEF e
<1>3. /\ t \in Seq(Char) /\ Len(t) = m + n
      /\ \A i \in 1 .. m : t[i] = a[i]
      /\ \A i \in 1 .. n : t[m + i] = b[i]
  BY Joined
<1>4. /\ s \in Seq(Char) /\ Len(s) = (m + 1) + (n - 1)
      /\ \A i \in 1 .. (m + 1) : s[i] = e[i]
      /\ \A i \in 1 .. (n - 1) : s[(m + 1) + i] = q[i]
  <2>1. /\ s \in Seq(Char) /\ Len(s) = Len(e) + Len(q)
        /\ \A i \in 1 .. Len(e) : s[i] = e[i]
        /\ \A i \in 1 .. Len(q) : s[Len(e) + i] = q[i]
    BY <1>1, <1>2, Joined
  <2>2. Len(e) = m + 1 /\ Len(q) = n - 1
    BY <1>1, <1>2
  <2> HIDE DEF s
  <2> QED
    BY <2>1, <2>2, Zenon
<1> HIDE DEF s, t, m, n
<1>5. Len(s) = Len(t) /\ Len(s) = m + n
  BY <1>1, <1>2, <1>3, <1>4
<1>6. ASSUME NEW i \in 1 .. (m + n) PROVE s[i] = t[i]
  <2>1. CASE i <= m
    <3>1. i \in 1 .. m /\ i \in 1 .. (m + 1)
      BY <1>2, <2>1
    <3> QED
      BY <1>2, <1>3, <1>4, <3>1
  <2>2. CASE i = m + 1
    <3>1. 1 \in 1 .. n /\ m + 1 \in 1 .. (m + 1)
      BY <1>1, <1>2
    <3> QED
      BY <1>1, <1>2, <1>3, <1>4, <2>2, <3>1
  <2>3. CASE i > m + 1
    <3> DEFINE j == i - (m + 1)
    <3>1. j \in 1 .. (n - 1) /\ i = (m + 1) + j /\ j + 1 \in 1 .. n /\ i = m + (j + 1)
      <4>1. n \in Nat /\ n >= 1 /\ m \in Nat
        BY <1>1, <1>2
      <4> QED
        BY <2>3, <4>1
    <3> HIDE DEF j
    <3> QED
      BY <1>1, <1>3, <1>4, <3>1
  <2> QED
    BY <1>2, <2>1, <2>2, <2>3
<1>7. s = t
  BY <1>3, <1>4, <1>5, <1>6, SeqEqual
<1> QED
  BY <1>1, <1>2, <1>7 DEF s, t, e, h, q

LEMMA Dropped ==
  ASSUME NEW a \in Seq(Char), NEW b \in Seq(Char), b # <<>>
  PROVE  /\ Without(a \o b, a \o Tail(b), Len(a))
         /\ a \o Tail(b) \in Seq(Char) /\ Tail(b) \in Seq(Char)
         /\ (a \o b)[Len(a) + 1] = Head(b) /\ Head(b) \in Char
<1> DEFINE q == Tail(b)
           m == Len(a)
           n == Len(b)
           s == a \o b
           t == a \o q
<1>1. /\ q \in Seq(Char) /\ Head(b) = b[1] /\ b[1] \in Char /\ n \in Nat /\ Len(q) = n - 1
      /\ n >= 1 /\ \A i \in 1 .. Len(q) : q[i] = b[i + 1]
  BY TailIs
<1> HIDE DEF q
<1>2. /\ s \in Seq(Char) /\ Len(s) = m + n /\ m \in Nat
      /\ \A i \in 1 .. m : s[i] = a[i]
      /\ \A i \in 1 .. n : s[m + i] = b[i]
  BY Joined
<1>3. /\ t \in Seq(Char) /\ Len(t) = m + (n - 1)
      /\ \A i \in 1 .. m : t[i] = a[i]
      /\ \A i \in 1 .. (n - 1) : t[m + i] = q[i]
  <2>1. /\ t \in Seq(Char) /\ Len(t) = m + Len(q)
        /\ \A i \in 1 .. m : t[i] = a[i]
        /\ \A i \in 1 .. Len(q) : t[m + i] = q[i]
    BY <1>1, Joined
  <2> HIDE DEF t
  <2> QED
    BY <1>1, <2>1, Zenon
<1> HIDE DEF s, t, m, n
<1>4. ASSUME NEW i \in (m + 1) .. (m + (n - 1)) PROVE t[i] = s[i + 1]
  <2> DEFINE j == i - m
  <2>1. j \in 1 .. (n - 1) /\ i = m + j /\ j + 1 \in 1 .. n /\ i + 1 = m + (j + 1)
    <3>1. n \in Nat /\ n >= 1 /\ m \in Nat
      BY <1>1, <1>2
    <3> QED
      BY <3>1
  <2> HIDE DEF j
  <2>2. t[m + j] = q[j] /\ s[m + (j + 1)] = b[j + 1]
    BY <1>2, <1>3, <2>1
  <2>3. q[j] = b[j + 1]
    BY <1>1, <2>1
  <2> QED
    BY <2>1, <2>2, <2>3
<1>5. Without(s, t, m)
  <2>1. m \in Nat /\ m < Len(s) /\ Len(t) = Len(s) - 1
    BY <1>1, <1>2, <1>3
  <2>2. \A i \in 1 .. m : t[i] = s[i]
    BY <1>2, <1>3
  <2>3. \A i \in (m + 1) .. Len(t) : t[i] = s[i + 1]
    BY <1>3, <1>4
  <2> QED
    BY <2>1, <2>2, <2>3 DEF Without
<1>6. s[m + 1] = b[1]
  <2>1. 1 \in 1 .. n
    BY <1>1
  <2> QED
    BY <1>2, <2>1
<1> QED
  BY <1>1, <1>3, <1>5, <1>6 DEF s, t, m, q

LEMMA ReadFrom ==
  ASSUME NEW a \in Seq(Char), NEW b \in Seq(Char), a # <<>>
  PROVE  /\ Tail(a) \o b = Tail(a \o b) /\ Tail(a) \in Seq(Char)
         /\ a \o b # <<>> /\ (a \o b)[1] = Head(a) /\ Head(a) \in Char
<1> DEFINE q == Tail(a)
           m == Len(a)
           n == Len(b)
           p == a \o b
           s == q \o b
           t == Tail(p)
<1>1. /\ q \in Seq(Char) /\ Head(a) = a[1] /\ a[1] \in Char /\ m \in Nat /\ Len(q) = m - 1
      /\ m >= 1 /\ \A i \in 1 .. Len(q) : q[i] = a[i + 1]
  BY TailIs
<1> HIDE DEF q
<1>2. /\ p \in Seq(Char) /\ Len(p) = m + n /\ n \in Nat
      /\ \A i \in 1 .. m : p[i] = a[i]
      /\ \A i \in 1 .. n : p[m + i] = b[i]
  BY Joined
<1>3. /\ s \in Seq(Char) /\ Len(s) = (m - 1) + n
      /\ \A i \in 1 .. (m - 1) : s[i] = q[i]
      /\ \A i \in 1 .. n : s[(m - 1) + i] = b[i]
  <2>1. /\ s \in Seq(Char) /\ Len(s) = Len(q) + n
        /\ \A i \in 1 .. Len(q) : s[i] = q[i]
        /\ \A i \in 1 .. n : s[Len(q) + i] = b[i]
    BY <1>1, Joined
  <2> HIDE DEF s
  <2> QED
    BY <1>1, <2>1, Zenon
<1> HIDE DEF s, p, m, n
<1>4. p # <<>> /\ p[1] = a[1]
  <2>1. 1 \in 1 .. m /\ Len(p) >= 1
    BY <1>1, <1>2
  <2> QED
    BY <1>2, <2>1
<1>5. /\ t \in Seq(Char) /\ Len(t) = (m + n) - 1
      /\ \A i \in 1 .. ((m + n) - 1) : t[i] = p[i + 1]
  <2>1. /\ t \in Seq(Char) /\ Len(t) = Len(p) - 1
        /\ \A i \in 1 .. Len(t) : t[i] = p[i + 1]
    BY <1>2, <1>4, TailIs
  <2> HIDE DEF t
  <2> QED
    BY <1>2, <2>1, Zenon
<1> HIDE DEF t
<1>6. ASSUME NEW i \in 1 .. ((m + n) - 1) PROVE s[i] = t[i]
  <2>0. m \in Nat /\ n \in Nat /\ m >= 1
    BY <1>1, <1>2
  <2>1. CASE i <= m - 1
    <3>1. i \in 1 .. (m - 1) /\ i + 1 \in 1 .. m
      BY <2>0, <2>1
    <3> QED
      BY <1>1, <1>2, <1>3, <1>5, <3>1
  <2>2. CASE ~(i <= m - 1)
    <3> DEFINE j == i - (m - 1)
    <3>1. j \in 1 .. n /\ i = (m - 1) + j /\ i + 1 = m + j
      BY <2>0, <2>2
    <3> HIDE DEF j
    <3>2. s[i] = b[j] /\ t[i] = p[m + j] /\ p[m + j] = b[j]
      BY <1>2, <1>3, <1>5, <3>1
    <3> QED
      BY <3>2
  <2> QED
    BY <2>1, <2>2
<1>7. Len(s) = Len(t) /\ Len(s) = (m + n) - 1
  BY <1>1, <1>2, <1>3, <1>5
<1>8. s = t
  BY <1>3, <1>5, <1>6, <1>7, SeqEqual
<1> QED
  BY <1>1, <1>4, <1>8 DEF s, t, p, q

LEMMA StillOverflowed ==
  ASSUME TypeInv, NEW x \in Seq(Char) \cup {"overflow"}, log' = log \/ log' = Append(log, x)
  PROVE  Overflowed => Overflowed'
<1> DEFINE L == Seq(Char) \cup {"overflow"}
<1>1. log \in Seq(L)
  BY DEF TypeInv
<1>2. CASE log' = log
  BY <1>2 DEF Overflowed
<1>3. CASE log' = Append(log, x)
  <2> HIDE DEF L
  <2> SUFFICES ASSUME NEW i \in DOMAIN log, log[i] = "overflow"
               PROVE  i \in DOMAIN log' /\ log'[i] = "overflow"
    BY DEF Overflowed
  <2>1. x \in L
    BY DEF L
  <2>2. log' \in Seq(L) /\ Len(log') = Len(log) + 1 /\ Len(log) \in Nat
        /\ \A j \in 1 .. Len(log) : log'[j] = log[j]
    BY <1>1, <1>3, <2>1, AppendIs
  <2>3. DOMAIN log = 1 .. Len(log) /\ DOMAIN log' = 1 .. Len(log')
    BY <1>1, <2>2
  <2>4. i \in 1 .. Len(log) /\ i \in 1 .. Len(log')
    BY <2>2, <2>3
  <2> QED
    BY <2>2, <2>3, <2>4
<1> QED
  BY <1>2, <1>3

LEMMA NothingCovered ==
  Covers(<<>>, 0, <<>>, 0)
<1>1. <<>> \in Seq(Char) /\ <<>> \in Seq(Nat) /\ Len(<<>>) = 0
  OBVIOUS
<1>2. Among(<<>>, LineEnds)[0] = 0
  BY <1>1, AmongIs
<1>3. Sums(<<>>)[0] = 0
  BY <1>1, SumsIs
<1>4. Covers(<<>>, 0, <<>>, 0)
  <2>1. \A k \in 0 .. Len(<<>>) : k = 0
    BY <1>1
  <2> QED
    BY <1>1, <1>2, <1>3, <2>1 DEF Covers
<1> QED
  BY <1>4

-----------------------------------------------------------------------------
(* The steps.                                                              *)

LEMMA StartKeeps == Init => Inv
<1> SUFFICES ASSUME Init PROVE Inv
  OBVIOUS
<1> USE DEF Init
<1>1. TypeInv
  <2>1. "\r" \in Char /\ "\n" \in Char
    BY DEF Char, LineEnds
  <2>2. wire \in Seq(Char)
    BY <2>1
  <2>3. \A T : <<>> \in Seq(T)
    OBVIOUS
  <2>4. /\ cLine \in Seq(Nat) /\ inbox \in Seq({"status", "report"}) /\ ring \in Seq(Char)
        /\ line \in Seq(Char) /\ log \in Seq(Seq(Char) \cup {"overflow"})
    BY <2>3
  <2>5. \A i \in DOMAIN line : line[i] \notin LineEnds
    OBVIOUS
  <2> QED
    BY <2>2, <2>4, <2>5 DEF TypeInv
<1>2. WakeInv
  <2>1. Pipe = <<"\r", "\n", "\r", "\n">>
    <3>1. wire \in Seq(Char) /\ ring = <<>>
      BY <1>1 DEF TypeInv
    <3> QED
      BY <3>1, ConcatEmptySeq DEF Pipe
  <2>2. Len(Pipe) <= 4 /\ \A i \in 1 .. Len(Pipe) : Pipe[i] \in LineEnds
    BY <2>1 DEF LineEnds
  <2> QED
    BY <2>2 DEF WakeInv
<1>3. AnswersInv /\ CoverInv /\ NarrowInv
  BY DEF AnswersInv, CoverInv, NarrowInv, Counting
<1> QED
  BY <1>1, <1>2, <1>3 DEF Inv

LEMMA StillKeeps == Inv /\ UNCHANGED vars => Inv'
<1> SUFFICES ASSUME Inv, UNCHANGED vars PROVE Inv'
  OBVIOUS
<1>1. TypeInv' /\ WakeInv' /\ AnswersInv'
  BY DEF Inv, TypeInv, WakeInv, AnswersInv, vars, script, grbl, history, Pipe
<1>2. CoverInv' /\ NarrowInv'
  <2>1. /\ Pipe' = Pipe /\ Answered' = Answered /\ Written' = Written
        /\ Counting' = Counting /\ cLine' = cLine /\ wide' = wide /\ stored' = stored
        /\ lost' = lost /\ at' = at
    BY DEF vars, script, grbl, history, Pipe, Answered, Written, Counting, Overflowed
  <2> QED
    BY <2>1, Zenon DEF Inv, CoverInv, NarrowInv
<1> QED
  BY <1>1, <1>2 DEF Inv

LEMMA FlushInputKeeps == Inv /\ FlushInput => Inv'
<1> SUFFICES ASSUME Inv, FlushInput PROVE Inv'
  OBVIOUS
<1> USE DEF FlushInput, grbl
<1>1. TypeInv /\ WakeInv
  BY DEF Inv
<1>2. TypeInv'
  BY <1>1 DEF TypeInv
<1>3. Pipe' = <<>> /\ cLine' = <<>> /\ at' = "read" /\ line' = <<>> /\ ~lost' /\ inbox' = <<>>
  <2>1. Pipe = <<>> /\ Pipe' = Pipe
    BY <1>1, PipeEmpty DEF Pipe
  <2> QED
    BY <1>1, <2>1 DEF WakeInv
<1>4. WakeInv' /\ AnswersInv'
  BY <1>3 DEF WakeInv, AnswersInv
<1>5. CoverInv'
  <2>1. Answered' = 0
    <3>1. inbox' \in Seq({"status", "report"})
      BY <1>2 DEF TypeInv
    <3>2. Statuses(inbox') = 0
      BY <1>3, <3>1, StatusesIs
    <3> QED
      BY <1>3, <3>2 DEF Answered
  <2>2. Written' = 0
    BY <1>3 DEF Written
  <2> QED
    BY <1>3, <2>1, <2>2, NothingCovered DEF CoverInv
<1>6. NarrowInv'
  <2>1. Len(Pipe') = 0 /\ 0 < RxBufferSize - 1
    BY <1>3, StreamingAssumption
  <2> QED
    BY <1>3, <2>1 DEF NarrowInv
<1> QED
  BY <1>2, <1>4, <1>5, <1>6 DEF Inv

LEMMA SendAndWaitKeeps == Inv /\ SendAndWait => Inv'
<1> SUFFICES ASSUME Inv, SendAndWait PROVE Inv'
  OBVIOUS
<1> USE DEF SendAndWait, grbl
<1>1. TypeInv /\ AnswersInv
  BY DEF Inv
<1>2. PICK l \in SettingsLines : Write(l)
  OBVIOUS
<1>3. Pipe' = Pipe \o Append(l, "\n") /\ wire' \in Seq(Char)
  BY <1>1, <1>2, WriteIs
<1>4. TypeInv'
  BY <1>1, <1>3 DEF TypeInv
<1>5. WakeInv' /\ CoverInv' /\ NarrowInv'
  BY DEF WakeInv, CoverInv, NarrowInv, Counting
<1>6. AnswersInv'
  <2> SUFFICES ASSUME extra = 0
               PROVE  /\ ~lost /\ inbox = <<>> /\ at = "read"
                      /\ Pipe' # <<>> /\ Len(Pipe') <= RxBufferSize - 1
                      /\ \A i \in 1 .. Len(Pipe') : Pipe'[i] \in LineEnds <=> i = Len(Pipe')
    BY DEF AnswersInv
  <2>1. ~lost /\ inbox = <<>> /\ at = "read" /\ Pipe = <<>>
    BY <1>1 DEF AnswersInv
  <2> DEFINE e == Append(l, "\n")
             n == Len(l)
  <2>2. /\ e \in Seq(Char) /\ n \in Nat /\ Len(e) = n + 1 /\ e[n + 1] = "\n"
        /\ \A i \in 1 .. n : e[i] = l[i] /\ l[i] \notin LineEnds
    BY LineIs
  <2>3. n + 1 <= RxBufferSize - 1
    BY StreamingAssumption
  <2> HIDE DEF e, n
  <2>4. Pipe' = e
    BY <1>3, <2>1, <2>2, ConcatEmptySeq DEF e
  <2>5. \A i \in 1 .. (n + 1) : e[i] \in LineEnds <=> i = n + 1
    <3> SUFFICES ASSUME NEW i \in 1 .. (n + 1) PROVE e[i] \in LineEnds <=> i = n + 1
      OBVIOUS
    <3>1. CASE i = n + 1
      BY <2>2, <3>1 DEF LineEnds
    <3>2. CASE i # n + 1
      <4>1. i \in 1 .. n
        BY <2>2, <3>2
      <4> QED
        BY <2>2, <3>2, <4>1
    <3> QED
      BY <3>1, <3>2
  <2>6. e # <<>>
    BY <2>2
  <2> QED
    BY <2>1, <2>2, <2>3, <2>4, <2>5, <2>6
<1> QED
  BY <1>4, <1>5, <1>6 DEF Inv

LEMMA ReadAnswerKeeps == Inv /\ ReadAnswer => Inv'
<1> SUFFICES ASSUME Inv, ReadAnswer PROVE Inv'
  OBVIOUS
<1> USE DEF ReadAnswer, grbl, history
<1>1. TypeInv /\ AnswersInv
  BY DEF Inv
<1>2. protocol = "answers"
  BY <1>1 DEF TypeInv
<1>3. inbox \in Seq({"status", "report"}) /\ Tail(inbox) \in Seq({"status", "report"})
      /\ Len(inbox) \in Nat /\ Len(Tail(inbox)) = Len(inbox) - 1
  BY <1>1 DEF TypeInv
<1>4. TypeInv'
  BY <1>1, <1>3 DEF TypeInv
<1>5. WakeInv' /\ CoverInv' /\ NarrowInv'
  BY <1>2 DEF WakeInv, CoverInv, NarrowInv, Counting
<1>6. AnswersInv'
  <2> SUFFICES ASSUME extra = 0
               PROVE  ~lost /\ Pipe' = <<>> /\ inbox' = <<>> /\ at = "read"
    BY DEF AnswersInv
  <2>1. ~lost /\ Pipe = <<>> /\ Len(inbox) = 1 /\ at = "read"
    BY <1>1, <1>2 DEF AnswersInv
  <2> QED
    BY <1>3, <2>1 DEF Pipe
<1> QED
  BY <1>4, <1>5, <1>6 DEF Inv

LEMMA CountLineKeeps == Inv /\ CountLine => Inv'
<1> SUFFICES ASSUME Inv, CountLine PROVE Inv'
  OBVIOUS
<1> USE DEF CountLine, grbl, history
<1>1. TypeInv /\ CoverInv /\ NarrowInv
  BY DEF Inv
<1>2. PICK l \in Programs : block' = l /\ cLine' = Append(cLine, Size(l))
  OBVIOUS
<1>3. Size(l) \in Nat /\ cLine \in Seq(Nat)
  BY <1>1, LineIs DEF Size, TypeInv
<1>4. cLine' \in Seq(Nat) /\ Len(cLine) \in Nat /\ Len(cLine') = Len(cLine) + 1
      /\ cLine'[Len(cLine')] = Size(l) /\ cLine' # <<>>
  BY <1>2, <1>3, AppendIs
<1>5. TypeInv'
  BY <1>1, <1>2, <1>4 DEF TypeInv
<1>6. WakeInv' /\ AnswersInv'
  BY DEF WakeInv, AnswersInv
<1>7. /\ Pipe' = Pipe /\ Answered' = Answered /\ Counting' = Counting
      /\ wide' = wide /\ stored' = stored /\ lost' = lost /\ at' = at
  BY DEF Pipe, Answered, Counting, Overflowed
<1>8. CoverInv'
  <2>1. Written = Len(cLine) /\ Written' = Len(cLine)
    BY <1>4 DEF Written
  <2>2. Pipe \in Seq(Char) /\ Answered \in Nat
    BY <1>1, PipeIs, AnsweredIs
  <2>3. Covers(Pipe, Answered, cLine, Len(cLine)) => Covers(Pipe, Answered, cLine', Len(cLine))
    BY <1>2, <1>3, <2>2, CoverMore
  <2> QED
    BY <1>1, <1>7, <2>1, <2>3 DEF CoverInv
<1>9. NarrowInv'
  BY <1>1, <1>7 DEF NarrowInv
<1> QED
  BY <1>5, <1>6, <1>8, <1>9 DEF Inv

LEMMA ReadWhileFullKeeps == Inv /\ ReadWhileFull => Inv'
<1> SUFFICES ASSUME Inv, ReadWhileFull PROVE Inv'
  OBVIOUS
<1> USE DEF ReadWhileFull, grbl, history
<1>1. TypeInv /\ CoverInv /\ NarrowInv
  BY DEF Inv
<1>2. /\ cLine \in Seq(Nat) /\ cLine # <<>> /\ block \in Programs
      /\ cLine[Len(cLine)] = Size(block) /\ inbox \in Seq({"status", "report"})
      /\ Len(cLine) \in Nat /\ Len(cLine) >= 1
  BY <1>1, CountedIs DEF TypeInv
<1>3. /\ inbox' \in Seq({"status", "report"}) /\ Head(inbox) \in {"status", "report"}
      /\ Statuses(inbox') = Statuses(inbox) - Mark(Head(inbox), {"status"})
  BY <1>2, StatusesTail
<1>4. Len(cLine) # 1
  <2> SUFFICES ASSUME Len(cLine) = 1 PROVE FALSE
    OBVIOUS
  <2>1. PICK k \in 0 .. Len(inbox) : Counted >= Limit(InWaiting(k))
    OBVIOUS
  <2>2. Limit(InWaiting(k)) >= RxBufferSize - 1 /\ Limit(InWaiting(k)) \in Int
    BY <1>1, InWaitingIs, LimitIs
  <2>3. Counted = Size(block) /\ Counted \in Nat
    <3>1. 1 \in 1 .. Len(cLine) /\ 1 - 1 = 0
      BY <1>2
    <3>2. Sums(cLine)[1] = Sums(cLine)[0] + cLine[1] /\ Sums(cLine)[0] = 0 /\ cLine[1] \in Nat
      BY <1>2, <3>1, SumsIs
    <3> QED
      BY <1>2, <3>2 DEF Counted
  <2>4. Size(block) < RxBufferSize - 1 /\ RxBufferSize \in Nat
    BY <1>2, StreamingAssumption DEF Size
  <2> QED
    BY <2>1, <2>2, <2>3, <2>4
<1>5. /\ Tail(cLine) \in Seq(Nat) /\ Len(Tail(cLine)) = Len(cLine) - 1 /\ Tail(cLine) # <<>>
      /\ Tail(cLine)[Len(Tail(cLine))] = cLine[Len(cLine)]
  <2> DEFINE t == Tail(cLine)
             n == Len(cLine)
  <2>1. /\ t \in Seq(Nat) /\ Len(t) = n - 1 /\ n \in Nat /\ n >= 1 /\ n # 1
        /\ \A i \in 1 .. Len(t) : t[i] = cLine[i + 1]
    BY <1>2, <1>4
  <2> HIDE DEF t, n
  <2>2. n - 1 \in 1 .. Len(t) /\ (n - 1) + 1 = n /\ Len(t) # 0
    BY <2>1
  <2>3. t[n - 1] = cLine[n]
    BY <2>1, <2>2
  <2>4. t # <<>>
    BY <2>2
  <2> QED
    BY <2>1, <2>3, <2>4 DEF t, n
<1>6. TypeInv'
  <2>1. cLine' \in Seq(Nat) /\ cLine' # <<>> /\ cLine'[Len(cLine')] = Size(block)
    BY <1>2, <1>5
  <2> QED
    BY <1>1, <1>3, <2>1 DEF TypeInv
<1>7. WakeInv' /\ AnswersInv'
  <2>1. protocol = "counting"
    BY <1>1 DEF TypeInv
  <2> QED
    BY <2>1 DEF WakeInv, AnswersInv
<1>8. /\ Pipe' = Pipe /\ Counting' = Counting
      /\ wide' = wide /\ stored' = stored /\ lost' = lost /\ at' = at
  BY DEF Pipe, Counting, Overflowed
<1>9. CoverInv'
  <2> SUFFICES ASSUME Counting PROVE Covers(Pipe, Answered', cLine', Written')
    BY <1>8 DEF CoverInv
  <2>1. /\ Covers(Pipe, Answered, cLine, Written) /\ Pipe \in Seq(Char) /\ Answered \in Nat
        /\ Written \in 0 .. Len(cLine) /\ Answered' \in Nat
    <3>1. Answered' \in Nat
      <4>1. Statuses(inbox') \in Nat
        BY <1>3, StatusesIs
      <4> QED
        BY <4>1 DEF Answered
    <3> QED
      BY <1>1, <3>1, PipeIs, AnsweredIs DEF CoverInv
  <2>2. Answered' = Answered - Mark(Head(inbox), {"status"})
    <3>1. Statuses(inbox) \in Nat /\ Mark(Head(inbox), {"status"}) \in Nat
      BY <1>2, StatusesIs DEF Mark
    <3> QED
      BY <1>3, <3>1 DEF Answered
  <2>3. CASE Head(inbox) = "status"
    <3>1. Answered' = Answered - 1 /\ Answered \in Nat \ {0}
      BY <2>1, <2>2, <2>3 DEF Mark
    <3>2. cLine' = Tail(cLine) /\ Written' = Written - 1
      BY <1>2, <1>5, <2>3 DEF Written
    <3> QED
      BY <1>2, <2>1, <3>1, <3>2, CoverPop
  <2>4. CASE Head(inbox) # "status"
    <3>1. Answered' = Answered /\ cLine' = cLine /\ Written' = Written
      BY <2>1, <2>2, <2>4 DEF Mark, Written
    <3> QED
      BY <2>1, <3>1
  <2> QED
    BY <2>3, <2>4
<1>10. NarrowInv'
  BY <1>1, <1>8 DEF NarrowInv
<1> QED
  BY <1>6, <1>7, <1>9, <1>10 DEF Inv

LEMMA SendCountedKeeps == Inv /\ SendCounted => Inv'
<1> SUFFICES ASSUME Inv, SendCounted PROVE Inv'
  OBVIOUS
<1> USE DEF SendCounted, grbl
<1>1. TypeInv /\ CoverInv /\ NarrowInv
  BY DEF Inv
<1>2. /\ cLine \in Seq(Nat) /\ cLine # <<>> /\ block \in Programs
      /\ cLine[Len(cLine)] = Size(block) /\ protocol = "counting"
      /\ Len(cLine) \in Nat /\ Len(cLine) >= 1
  BY <1>1, CountedIs DEF TypeInv
<1> DEFINE e == Append(block, "\n")
<1>3. Pipe' = Pipe \o e /\ wire' \in Seq(Char)
  BY <1>1, <1>2, WriteIs
<1>4. PICK k \in 0 .. Len(inbox) : /\ Counted < Limit(InWaiting(k))
                                   /\ wide' = (wide \/ InWaiting(k) >= RxBufferSize)
  OBVIOUS
<1>5. wide' \in BOOLEAN
  BY <1>1, <1>4, Zenon DEF TypeInv
<1>6. TypeInv'
  BY <1>1, <1>3, <1>5 DEF TypeInv
<1>7. WakeInv' /\ AnswersInv'
  BY <1>2 DEF WakeInv, AnswersInv
<1>8. Counting' = Counting /\ Answered' = Answered /\ cLine' = cLine
  BY DEF Answered, Counting, Overflowed
<1>9. /\ Pipe \in Seq(Char) /\ Pipe' \in Seq(Char) /\ Len(Pipe) \in Nat /\ e \in Seq(Char)
      /\ Len(e) = Size(block) /\ Size(block) >= 1 /\ Len(Pipe') = Len(Pipe) + Size(block)
      /\ \A i \in 1 .. Len(Pipe) : Pipe'[i] = Pipe[i]
      /\ \A i \in 1 .. Len(e) : Pipe'[Len(Pipe) + i] = e[i]
  <2>1. Pipe \in Seq(Char) /\ e \in Seq(Char) /\ Len(e) = Len(block) + 1 /\ Len(block) \in Nat
    BY <1>1, <1>2, PipeIs, LineIs
  <2>2. Size(block) \in Nat /\ Size(block) = Len(block) + 1 /\ Size(block) >= 1
    BY <2>1 DEF Size
  <2> HIDE DEF e
  <2>3. /\ Pipe' \in Seq(Char) /\ Len(Pipe') = Len(Pipe) + Len(e) /\ Len(Pipe) \in Nat
        /\ \A i \in 1 .. Len(Pipe) : Pipe'[i] = Pipe[i]
        /\ \A i \in 1 .. Len(e) : Pipe'[Len(Pipe) + i] = e[i]
    BY <1>3, <2>1, Joined
  <2> QED
    BY <2>1, <2>2, <2>3
<1>10. CoverInv'
  <2> SUFFICES ASSUME Counting PROVE Covers(Pipe', Answered, cLine, Written')
    BY <1>8 DEF CoverInv
  <2> DEFINE w == Written
  <2>1. w \in 0 .. Len(cLine) - 1 /\ w + 1 = Len(cLine) /\ Written' = w + 1
    BY <1>2 DEF Written
  <2>2. Covers(Pipe, Answered, cLine, w) /\ Answered \in Nat
    BY <1>1, AnsweredIs DEF CoverInv
  <2> HIDE DEF w
  <2>4. ASSUME NEW i \in (Len(Pipe) + 1) .. (Len(Pipe') - 1) PROVE Pipe'[i] \notin LineEnds
    <3> DEFINE j == i - Len(Pipe)
    <3>1. \A h \in 1 .. Len(block) : e[h] \notin LineEnds
      BY <1>2, LineIs
    <3>2. Len(block) \in Nat /\ Size(block) = Len(block) + 1
      BY <1>2, LineIs DEF Size
    <3> HIDE DEF e
    <3>3. j \in 1 .. Len(block) /\ j \in 1 .. Len(e) /\ i = Len(Pipe) + j
      BY <1>9, <3>2
    <3> HIDE DEF j
    <3>4. Pipe'[i] = e[j]
      BY <1>9, <3>3
    <3> QED
      BY <3>1, <3>3, <3>4
  <2>5. cLine[w + 1] = Size(block)
    BY <1>2, <2>1
  <2> QED
    BY <1>2, <1>9, <2>1, <2>2, <2>4, <2>5, CoverAppend
<1>11. NarrowInv'
  <2> SUFFICES ASSUME Counting, ~wide', ~stored
               PROVE  ~lost /\ Len(Pipe') < RxBufferSize - 1 /\ at # "store"
    BY <1>8 DEF NarrowInv
  <2>1. ~lost /\ at # "store"
    BY <1>1, <1>4 DEF NarrowInv
  <2>2. Len(Pipe') < RxBufferSize - 1
    <3>1. InWaiting(k) \in Nat /\ RxBufferSize \in Nat
      BY <1>1, InWaitingIs, StreamingAssumption
    <3>2. InWaiting(k) < RxBufferSize
      <4>1. ~(InWaiting(k) >= RxBufferSize)
        BY <1>4, Zenon
      <4> QED
        BY <3>1, <4>1
    <3>3. Limit(InWaiting(k)) = RxBufferSize - 1
      BY <3>1, <3>2, LimitIs
    <3>4. Counted < RxBufferSize - 1 /\ Counted \in Nat
      BY <1>1, <1>4, <3>3, CountedIs
    <3>5. Len(Pipe') <= Counted
      <4>1. Covers(Pipe', Answered, cLine, Written') /\ Written' \in 0 .. Len(cLine)
            /\ Answered \in Nat
        BY <1>1, <1>2, <1>8, <1>10, AnsweredIs DEF CoverInv, Written
      <4> QED
        BY <1>2, <1>9, <4>1, CoverBound DEF Counted
    <3> QED
      BY <1>9, <3>1, <3>4, <3>5
  <2> QED
    BY <2>1, <2>2
<1> QED
  BY <1>6, <1>7, <1>10, <1>11 DEF Inv

(* A byte that the pipe loses, or is asked for a report by.                *)
LEMMA LostOne ==
  ASSUME TypeInv, CoverInv, wire # <<>>, wire' = Tail(wire), ring' = ring,
         UNCHANGED <<host, protocol, cLine, inbox, at, log>>
  PROVE  /\ CoverInv' /\ Pipe # <<>>
         /\ Without(Pipe, Pipe', Len(ring)) /\ Pipe[Len(ring) + 1] = Head(wire)
         /\ Pipe' \in Seq(Char)
<1>1. /\ ring \in Seq(Char) /\ wire \in Seq(Char) /\ cLine \in Seq(Nat)
  BY DEF TypeInv
<1>2. /\ Without(Pipe, Pipe', Len(ring)) /\ Pipe[Len(ring) + 1] = Head(wire)
      /\ Pipe' \in Seq(Char)
  BY <1>1, Dropped DEF Pipe
<1>3. Pipe # <<>>
  BY PipeEmpty
<1>4. CoverInv'
  <2>1. Answered' = Answered /\ Written' = Written /\ Counting' = Counting
    BY DEF Answered, Written, Counting, Overflowed
  <2>2. Pipe \in Seq(Char) /\ Answered \in Nat /\ Written \in 0 .. Len(cLine)
    BY PipeIs, AnsweredIs
  <2>3. Covers(Pipe, Answered, cLine, Written) => Covers(Pipe', Answered, cLine, Written)
    BY <1>1, <1>2, <2>2, CoverWithout
  <2> QED
    BY <2>1, <2>3 DEF CoverInv
<1> QED
  BY <1>2, <1>3, <1>4

LEMMA ReceiveKeeps == Inv /\ Receive => Inv'
<1> SUFFICES ASSUME Inv, Receive PROVE Inv'
  OBVIOUS
<1>0. /\ wire # <<>> /\ wire' = Tail(wire)
      /\ asked' = (asked \/ Head(wire) = "?")
      /\ UNCHANGED <<protocol, host, block, cLine, inbox, at, line, comment>>
      /\ UNCHANGED <<sent, log, extra, wide, stored>>
  BY DEF Receive, script
<1>1. TypeInv /\ WakeInv /\ AnswersInv /\ CoverInv /\ NarrowInv
  BY DEF Inv
<1>2. ring \in Seq(Char) /\ wire \in Seq(Char) /\ Len(ring) \in Nat /\ Len(wire) \in Nat
  BY <1>1 DEF TypeInv
<1>3. asked' \in BOOLEAN
  BY <1>0, <1>1, Zenon DEF TypeInv
<1>4. /\ Pipe \in Seq(Char) /\ Len(Pipe) = Len(ring) + Len(wire) /\ Pipe # <<>>
      /\ Len(wire) >= 1 /\ Len(Pipe) > Len(ring) /\ Len(Pipe) \in Nat
  <2>1. Len(wire) >= 1
    BY <1>0, <1>2
  <2> QED
    BY <1>0, <1>1, <1>2, <2>1, PipeIs, PipeEmpty
<1>5. Answered' = Answered /\ Written' = Written /\ Counting' = Counting
  BY <1>0 DEF Answered, Written, Counting, Overflowed
<1>6. CASE Head(wire) # "?" /\ Len(ring) < RxBufferSize - 1
  <2>1. ring' = Append(ring, Head(wire)) /\ lost' = lost
    BY <1>6 DEF Receive
  <2>2. /\ Pipe' = Pipe /\ ring' \in Seq(Char) /\ wire' \in Seq(Char)
        /\ asked' = asked
    <3>1. Pipe' = Pipe /\ ring' \in Seq(Char) /\ wire' \in Seq(Char)
      BY <1>0, <1>2, <2>1, Moved DEF Pipe
    <3>2. asked' = asked
      BY <1>0, <1>1, <1>6, Zenon DEF TypeInv
    <3> QED
      BY <3>1, <3>2
  <2>3. TypeInv'
    BY <1>0, <1>1, <2>1, <2>2 DEF TypeInv
  <2>4. WakeInv' /\ AnswersInv'
    BY <1>0, <1>1, <2>1, <2>2 DEF WakeInv, AnswersInv
  <2>5. CoverInv' /\ NarrowInv'
    BY <1>0, <1>1, <1>5, <2>1, <2>2 DEF CoverInv, NarrowInv
  <2> QED
    BY <2>3, <2>4, <2>5 DEF Inv
<1>7. CASE ~(Head(wire) # "?" /\ Len(ring) < RxBufferSize - 1)
  <2>1. ring' = ring
    BY <1>7 DEF Receive
  <2>2. Head(wire) = "?" => lost' = lost
    BY DEF Receive
  <2>3. lost' \in BOOLEAN /\ wire' \in Seq(Char)
    <3>1. wire' \in Seq(Char)
      BY <1>0, <1>2
    <3>2. lost' = lost \/ lost' = TRUE
      BY <1>7 DEF Receive
    <3> QED
      BY <1>1, <3>1, <3>2 DEF TypeInv
  <2>4. TypeInv'
    BY <1>0, <1>1, <1>3, <2>1, <2>3 DEF TypeInv
  <2>5. /\ CoverInv' /\ Without(Pipe, Pipe', Len(ring)) /\ Pipe[Len(ring) + 1] = Head(wire)
        /\ Pipe' \in Seq(Char)
    BY <1>0, <1>1, <2>1, LostOne
  <2>6. RxBufferSize \in Nat /\ RxBufferSize > 4
    BY StreamingAssumption
  <2>7. Head(wire) = "?" => Head(wire) \notin LineEnds
    BY DEF LineEnds
  <2>8. WakeInv'
    <3> SUFFICES ASSUME host = "wake" PROVE FALSE
      BY <1>0 DEF WakeInv
    <3>1. Len(Pipe) <= 4 /\ \A i \in 1 .. Len(Pipe) : Pipe[i] \in LineEnds
      BY <1>1 DEF WakeInv
    <3>2. Len(ring) + 1 \in 1 .. Len(Pipe) /\ Len(ring) < RxBufferSize - 1
      BY <1>2, <1>4, <2>6, <3>1
    <3>3. Head(wire) \in LineEnds
      BY <2>5, <3>1, <3>2
    <3> QED
      BY <1>7, <2>7, <3>2, <3>3
  <2>9. AnswersInv'
    <3> SUFFICES ASSUME protocol = "answers", host # "wake", extra = 0
                 PROVE  /\ ~lost' /\ host # "next"
                        /\ host = "answer" =>
                             /\ Pipe' # <<>> /\ inbox = <<>> /\ at = "read"
                             /\ Len(Pipe') <= RxBufferSize - 1
                             /\ \A i \in 1 .. Len(Pipe') : Pipe'[i] \in LineEnds <=> i = Len(Pipe')
      BY <1>0 DEF AnswersInv
    <3>1. ~lost /\ host # "next"
      BY <1>1, <1>4 DEF AnswersInv
    <3>2. host = "answer"
      BY <1>1, <3>1 DEF TypeInv
    <3>3. /\ inbox = <<>> /\ at = "read" /\ Len(Pipe) <= RxBufferSize - 1
          /\ \A i \in 1 .. Len(Pipe) : Pipe[i] \in LineEnds <=> i = Len(Pipe)
      BY <1>1, <1>4, <3>2 DEF AnswersInv
    <3>4. Len(ring) < RxBufferSize - 1
      BY <1>2, <1>4, <2>6, <3>3
    <3>5. Head(wire) = "?" /\ lost' = lost /\ Pipe[Len(ring) + 1] \notin LineEnds
      BY <1>7, <2>2, <2>5, <2>7, <3>4
    <3> DEFINE m == Len(ring)
               n == Len(Pipe)
               q == Pipe'
    <3>6. /\ m \in Nat /\ n \in Nat /\ m < n /\ Len(q) = n - 1
          /\ \A i \in 1 .. m : q[i] = Pipe[i]
          /\ \A i \in (m + 1) .. Len(q) : q[i] = Pipe[i + 1]
      BY <1>2, <1>4, <2>5 DEF Without
    <3> HIDE DEF m, n, q
    <3>7. m + 1 \in 1 .. n
      BY <3>6
    <3>8. m + 1 # n
      <4>1. Pipe[m + 1] \notin LineEnds /\ \A i \in 1 .. n : Pipe[i] \in LineEnds <=> i = n
        BY <3>3, <3>5 DEF m, n
      <4> QED
        BY <3>7, <4>1
    <3>9. ASSUME NEW i \in 1 .. (n - 1) PROVE q[i] \in LineEnds <=> i = n - 1
      <4>1. \A j \in 1 .. n : Pipe[j] \in LineEnds <=> j = n
        BY <3>3 DEF n
      <4>2. CASE i <= m
        <5>1. i \in 1 .. m /\ i \in 1 .. n /\ i # n /\ i # n - 1
          BY <3>6, <3>8, <4>2
        <5> QED
          BY <3>6, <4>1, <5>1
      <4>3. CASE ~(i <= m)
        <5>1. i \in (m + 1) .. (n - 1) /\ i + 1 \in 1 .. n /\ (i + 1 = n <=> i = n - 1)
          BY <3>6, <4>3
        <5> QED
          BY <3>6, <4>1, <5>1
      <4> QED
        BY <4>2, <4>3
    <3>10. Len(q) # 0 /\ Len(q) <= RxBufferSize - 1
      <4>1. n <= RxBufferSize - 1
        BY <3>3 DEF n
      <4> QED
        BY <2>6, <3>6, <3>8, <4>1
    <3>11. q # <<>>
      BY <3>10
    <3>12. Len(q) <= RxBufferSize - 1 /\ \A i \in 1 .. Len(q) : q[i] \in LineEnds <=> i = Len(q)
      BY <3>6, <3>9, <3>10
    <3> QED
      BY <3>1, <3>2, <3>3, <3>5, <3>11, <3>12 DEF q
  <2>10. NarrowInv'
    <3> SUFFICES ASSUME Counting, ~wide, ~stored
                 PROVE  ~lost' /\ Len(Pipe') < RxBufferSize - 1 /\ at # "store"
      BY <1>0, <1>5 DEF NarrowInv
    <3>1. ~lost /\ Len(Pipe) < RxBufferSize - 1 /\ at # "store"
      BY <1>1 DEF NarrowInv
    <3>2. Len(ring) < RxBufferSize - 1
      BY <1>2, <1>4, <2>6, <3>1
    <3>3. lost' = lost
      BY <1>7, <2>2, <3>2
    <3>4. Len(Pipe') < RxBufferSize - 1
      <4>1. Len(Pipe') = Len(Pipe) - 1
        BY <2>5 DEF Without
      <4> QED
        BY <1>4, <2>6, <3>1, <4>1
    <3> QED
      BY <3>1, <3>3, <3>4
  <2> QED
    BY <2>4, <2>5, <2>8, <2>9, <2>10 DEF Inv
<1> QED
  BY <1>6, <1>7

LEMMA OverrunKeeps == Inv /\ Overrun => Inv'
<1> SUFFICES ASSUME Inv, Overrun PROVE Inv'
  OBVIOUS
<1>0. /\ wire # <<>> /\ at = "store" /\ wire' = Tail(wire) /\ lost' = TRUE /\ ring' = ring
      /\ UNCHANGED <<protocol, host, block, cLine, inbox, at, line, comment, asked>>
      /\ UNCHANGED <<sent, log, extra, wide, stored>>
  BY DEF Overrun, script, grbl
<1>1. TypeInv /\ WakeInv /\ AnswersInv /\ CoverInv /\ NarrowInv
  BY DEF Inv
<1>2. TypeInv'
  <2>1. wire' \in Seq(Char)
    BY <1>0, <1>1 DEF TypeInv
  <2> QED
    BY <1>0, <1>1, <2>1 DEF TypeInv
<1>3. CoverInv' /\ Pipe # <<>>
  BY <1>0, <1>1, LostOne
<1>4. WakeInv'
  BY <1>0, <1>1 DEF WakeInv
<1>5. AnswersInv'
  <2> SUFFICES ASSUME protocol = "answers", host # "wake", extra = 0 PROVE FALSE
    BY <1>0 DEF AnswersInv
  <2>1. host \in {"next", "answer"}
    BY <1>1 DEF TypeInv
  <2> QED
    BY <1>0, <1>1, <1>3, <2>1 DEF AnswersInv
<1>6. NarrowInv'
  <2>1. Counting' = Counting /\ wide' = wide /\ stored' = stored
    BY <1>0 DEF Counting, Overflowed
  <2> QED
    BY <1>0, <1>1, <2>1 DEF NarrowInv
<1> QED
  BY <1>2, <1>3, <1>4, <1>5, <1>6 DEF Inv

LEMMA StoreKeeps == Inv /\ Store => Inv'
<1> SUFFICES ASSUME Inv, Store PROVE Inv'
  OBVIOUS
<1>0. /\ at = "execute" /\ Writes /\ at' = "store" /\ stored' = TRUE
      /\ UNCHANGED <<protocol, host, block, cLine, inbox, wire, ring, line, comment, asked>>
      /\ UNCHANGED <<sent, log, lost, extra, wide>>
  BY DEF Store, script
<1>1. TypeInv /\ WakeInv /\ AnswersInv /\ CoverInv /\ NarrowInv
  BY DEF Inv
<1>2. TypeInv'
  BY <1>0, <1>1 DEF TypeInv
<1>3. WakeInv'
  <2> SUFFICES ASSUME host = "wake" PROVE FALSE
    BY <1>0 DEF WakeInv
  <2>1. line = <<>>
    BY <1>1 DEF WakeInv
  <2>2. PICK w \in StoreWords : w \in SubSeqs(<<>>)
    BY <1>0, <2>1 DEF Writes, IsSetting
  <2>3. PICK i \in 0 .. Len(<<>>), j \in 0 .. Len(<<>>) : w = SubSeq(<<>>, i + 1, j)
    BY <2>2 DEF SubSeqs
  <2>4. w = <<>>
    BY <2>3
  <2> QED
    BY <2>2, <2>4, StreamingAssumption
<1>4. AnswersInv'
  BY <1>0, <1>1 DEF AnswersInv, Pipe
<1>5. /\ Pipe' = Pipe /\ Answered' = Answered /\ Written' = Written /\ Counting' = Counting
  BY <1>0 DEF Pipe, Answered, Written, Counting, Overflowed
<1>6. CoverInv'
  BY <1>0, <1>1, <1>5 DEF CoverInv
<1>7. NarrowInv'
  BY <1>0 DEF NarrowInv
<1> QED
  BY <1>2, <1>3, <1>4, <1>6, <1>7 DEF Inv

LEMMA ReportKeeps == Inv /\ Report => Inv'
<1> SUFFICES ASSUME Inv, Report PROVE Inv'
  OBVIOUS
<1>0. /\ asked /\ asked' = FALSE /\ inbox' = Append(inbox, "report") /\ extra' = extra + 1
      /\ UNCHANGED <<protocol, host, block, cLine, wire, ring, at, line, comment>>
      /\ UNCHANGED <<sent, log, lost, wide, stored>>
  BY DEF Report, script
<1>1. TypeInv /\ WakeInv /\ AnswersInv /\ CoverInv /\ NarrowInv
  BY DEF Inv
<1>2. extra \in Nat /\ inbox \in Seq({"status", "report"})
  BY <1>1 DEF TypeInv
<1>3. /\ inbox' \in Seq({"status", "report"})
      /\ Statuses(inbox') = Statuses(inbox) + Mark("report", {"status"})
      /\ Statuses(inbox) \in Nat
  BY <1>0, <1>2, StatusesAppend, StatusesIs
<1>4. TypeInv'
  <2>1. extra' \in Nat
    BY <1>0, <1>2
  <2>2. asked' \in BOOLEAN
    BY <1>0, Zenon
  <2> QED
    BY <1>0, <1>1, <1>3, <2>1, <2>2 DEF TypeInv
<1>5. WakeInv' /\ AnswersInv'
  BY <1>0, <1>1, <1>2 DEF WakeInv, AnswersInv
<1>6. Pipe' = Pipe /\ Written' = Written /\ Counting' = Counting
  BY <1>0 DEF Pipe, Written, Counting, Overflowed
<1>7. Answered' = Answered
  BY <1>0, <1>3 DEF Answered, Mark
<1>8. CoverInv' /\ NarrowInv'
  BY <1>0, <1>1, <1>6, <1>7 DEF CoverInv, NarrowInv
<1> QED
  BY <1>4, <1>5, <1>8 DEF Inv

LEMMA AnswerKeeps == Inv /\ Answer => Inv'
<1> SUFFICES ASSUME Inv, Answer PROVE Inv'
  OBVIOUS
<1>0. /\ at \in {"execute", "store"} /\ log' = Append(log, line) /\ line' = <<>> /\ at' = "read"
      /\ inbox' = inbox \o (IF AsksModes THEN <<"report", "status">> ELSE <<"status">>)
      /\ extra' = IF AsksModes THEN extra + 1 ELSE extra
      /\ UNCHANGED <<protocol, host, block, cLine, wire, ring, comment, asked, sent, lost, wide,
                     stored>>
  BY DEF Answer, script
<1>1. TypeInv /\ WakeInv /\ AnswersInv /\ CoverInv /\ NarrowInv
  BY DEF Inv
<1>2. /\ extra \in Nat /\ inbox \in Seq({"status", "report"}) /\ line \in Seq(Char)
      /\ log \in Seq(Seq(Char) \cup {"overflow"})
  BY <1>1 DEF TypeInv
<1>3. /\ inbox' \in Seq({"status", "report"}) /\ Statuses(inbox') = Statuses(inbox) + 1
      /\ Statuses(inbox) \in Nat
  <2>1. /\ Append(inbox, "status") \in Seq({"status", "report"})
        /\ Statuses(Append(inbox, "status")) = Statuses(inbox) + Mark("status", {"status"})
    BY <1>2, StatusesAppend
  <2> DEFINE r == Append(inbox, "report")
  <2>2. /\ r \in Seq({"status", "report"})
        /\ Statuses(r) = Statuses(inbox) + Mark("report", {"status"})
    BY <1>2, StatusesAppend
  <2> HIDE DEF r
  <2>3. /\ Append(r, "status") \in Seq({"status", "report"})
        /\ Statuses(Append(r, "status")) = Statuses(r) + Mark("status", {"status"})
    BY <2>2, StatusesAppend
  <2>4. inbox \o <<"status">> = Append(inbox, "status")
        /\ inbox \o <<"report", "status">> = Append(r, "status")
    <3>1. inbox \o <<"status">> = Append(inbox, "status")
      BY <1>2
    <3>2. inbox \o <<"report", "status">> = Append(Append(inbox, "report"), "status")
      BY <1>2
    <3> QED
      BY <3>1, <3>2 DEF r
  <2>5. Mark("status", {"status"}) = 1 /\ Mark("report", {"status"}) = 0
    BY DEF Mark
  <2>6. Statuses(inbox) \in Nat
    BY <1>2, StatusesIs
  <2>7. CASE AsksModes
    <3>1. inbox' = Append(r, "status")
      BY <1>0, <2>4, <2>7
    <3> QED
      BY <2>2, <2>3, <2>5, <2>6, <3>1
  <2>8. CASE ~AsksModes
    <3>1. inbox' = Append(inbox, "status")
      BY <1>0, <2>4, <2>8
    <3> QED
      BY <2>1, <2>5, <2>6, <3>1
  <2> QED
    BY <2>7, <2>8
<1>4. TypeInv'
  <2>1. log' \in Seq(Seq(Char) \cup {"overflow"})
    BY <1>0, <1>2, AppendIs
  <2>2. line' \in Seq(Char) /\ \A i \in DOMAIN line' : line'[i] \notin LineEnds
    BY <1>0
  <2>3. extra' \in Nat
    BY <1>0, <1>2
  <2> QED
    BY <1>0, <1>1, <1>3, <2>1, <2>2, <2>3 DEF TypeInv
<1>5. WakeInv'
  <2> SUFFICES ASSUME host = "wake"
               PROVE  /\ ~lost /\ ~wide /\ extra' = 0 /\ cLine = <<>> /\ Len(Pipe) <= 4
                      /\ \A i \in 1 .. Len(Pipe) : Pipe[i] \in LineEnds
                      /\ ~asked
    BY <1>0 DEF WakeInv, Pipe
  <2>1. ~AsksModes
    BY <1>1 DEF WakeInv, AsksModes
  <2> QED
    BY <1>0, <1>1, <2>1 DEF WakeInv
<1>6. AnswersInv'
  <2> SUFFICES ASSUME protocol = "answers", host # "wake", extra' = 0
               PROVE  ~lost /\ host # "next" /\ Pipe = <<>> /\ Len(inbox') = 1
    BY <1>0 DEF AnswersInv, Pipe
  <2>1. ~AsksModes /\ extra = 0
    BY <1>0, <1>2
  <2>2. ~lost /\ host # "next" /\ host \in {"next", "answer"}
    BY <1>0, <1>1, <2>1 DEF AnswersInv, TypeInv
  <2>3. Pipe = <<>> /\ inbox = <<>>
    BY <1>0, <1>1, <2>1, <2>2 DEF AnswersInv
  <2>4. Len(inbox') = 1
    BY <1>0, <2>1, <2>3
  <2> QED
    BY <2>2, <2>3, <2>4
<1>7. Pipe' = Pipe /\ Written' = Written /\ Answered' = Answered
  BY <1>0, <1>3 DEF Pipe, Written, Answered
<1>8. Counting' => Counting
  <2>1. Overflowed => Overflowed'
    BY <1>0, <1>1, <1>2, StillOverflowed
  <2> QED
    BY <1>0, <2>1 DEF Counting
<1>9. CoverInv'
  BY <1>0, <1>1, <1>7, <1>8 DEF CoverInv
<1>10. NarrowInv'
  BY <1>0, <1>1, <1>7, <1>8 DEF NarrowInv
<1> QED
  BY <1>4, <1>5, <1>6, <1>9, <1>10 DEF Inv

LEMMA ReadCharKeeps == Inv /\ ReadChar => Inv'
<1> SUFFICES ASSUME Inv, ReadChar PROVE Inv'
  OBVIOUS
<1> DEFINE c == Head(ring)
<1>0. /\ at = "read" /\ ring # <<>> /\ ring' = Tail(ring)
      /\ UNCHANGED <<protocol, host, block, cLine, wire, asked, sent, lost, wide, stored>>
  BY DEF ReadChar, script
<1>1. TypeInv /\ WakeInv /\ AnswersInv /\ CoverInv /\ NarrowInv
  BY DEF Inv
<1>2. /\ ring \in Seq(Char) /\ wire \in Seq(Char) /\ line \in Seq(Char) /\ cLine \in Seq(Nat)
      /\ extra \in Nat /\ inbox \in Seq({"status", "report"})
      /\ log \in Seq(Seq(Char) \cup {"overflow"})
  BY <1>1 DEF TypeInv
<1>3. /\ Pipe' = Tail(Pipe) /\ ring' \in Seq(Char) /\ Pipe # <<>> /\ Pipe[1] = c /\ c \in Char
  BY <1>0, <1>2, ReadFrom DEF Pipe
<1>4. /\ Pipe \in Seq(Char) /\ Pipe' \in Seq(Char) /\ Len(Pipe') = Len(Pipe) - 1
      /\ Len(Pipe) \in Nat /\ Len(Pipe) >= 1 /\ Without(Pipe, Pipe', 0)
      /\ \A i \in 1 .. Len(Pipe') : Pipe'[i] = Pipe[i + 1]
  BY <1>1, <1>3, PipeIs, TailIs
<1>5. /\ Written' = Written /\ Answered \in Nat /\ Written \in 0 .. Len(cLine)
      /\ RxBufferSize \in Nat
  BY <1>0, <1>1, AnsweredIs, StreamingAssumption DEF Written
<1>6. CASE c \in LineEnds
  <2>1. /\ at' = "execute" /\ UNCHANGED <<line, inbox, log, extra>>
    BY <1>6 DEF ReadChar, EndOfLine, LineEnds
  <2>2. TypeInv'
    BY <1>0, <1>1, <1>3, <2>1 DEF TypeInv
  <2>3. WakeInv'
    <3> SUFFICES ASSUME host = "wake"
                 PROVE  Len(Pipe') <= 4 /\ \A i \in 1 .. Len(Pipe') : Pipe'[i] \in LineEnds
      BY <1>0, <1>1, <2>1 DEF WakeInv
    <3>1. Len(Pipe) <= 4 /\ \A i \in 1 .. Len(Pipe) : Pipe[i] \in LineEnds
      BY <1>1 DEF WakeInv
    <3>2. \A i \in 1 .. Len(Pipe') : i + 1 \in 1 .. Len(Pipe)
      BY <1>4
    <3> QED
      BY <1>4, <3>1, <3>2
  <2>4. AnswersInv'
    <3> SUFFICES ASSUME protocol = "answers", host # "wake", extra = 0
                 PROVE  ~lost /\ host # "next" /\ Pipe' = <<>> /\ inbox = <<>>
      BY <1>0, <2>1 DEF AnswersInv
    <3>1. ~lost /\ host # "next" /\ host \in {"next", "answer"}
      BY <1>1, <1>3 DEF AnswersInv, TypeInv
    <3>2. inbox = <<>> /\ \A i \in 1 .. Len(Pipe) : Pipe[i] \in LineEnds <=> i = Len(Pipe)
      BY <1>1, <1>3, <3>1 DEF AnswersInv
    <3>3. Len(Pipe) = 1
      <4>1. 1 \in 1 .. Len(Pipe)
        BY <1>4
      <4> QED
        BY <1>3, <1>6, <3>2, <4>1
    <3>4. Pipe' = <<>>
      BY <1>4, <3>3
    <3> QED
      BY <3>1, <3>2, <3>4
  <2>5. Counting' = Counting /\ Answered' = Answered + 1
    <3>1. Counting' = Counting
      BY <1>0, <2>1 DEF Counting, Overflowed
    <3>2. Statuses(inbox) \in Nat
      BY <1>2, StatusesIs
    <3>3. Answered' = Answered + 1
      BY <1>0, <2>1, <3>2 DEF Answered
    <3> QED
      BY <3>1, <3>3
  <2>6. CoverInv'
    <3> DEFINE b == Answered + 1
    <3>1. b \in Nat /\ b = Answered + 1
      BY <1>5
    <3> HIDE DEF b
    <3>2. Covers(Pipe, Answered, cLine, Written) => Covers(Pipe', b, cLine, Written)
      BY <1>2, <1>3, <1>4, <1>5, <1>6, <3>1, CoverWithout
    <3>3. cLine' = cLine /\ Answered' = b
      BY <1>0, <2>5, <3>1
    <3> QED
      BY <1>1, <1>5, <2>5, <3>2, <3>3 DEF CoverInv
  <2>7. NarrowInv'
    BY <1>0, <1>1, <1>4, <1>5, <2>1, <2>5 DEF NarrowInv
  <2> QED
    BY <2>2, <2>3, <2>4, <2>6, <2>7 DEF Inv
<1>7. CASE c \notin LineEnds
  <2>0. c \notin {"\n", "\r"}
    BY <1>7 DEF LineEnds
  <2>1. WakeInv'
    <3> SUFFICES ASSUME host = "wake" PROVE FALSE
      BY <1>0 DEF WakeInv
    <3>1. 1 \in 1 .. Len(Pipe)
      BY <1>4
    <3> QED
      BY <1>1, <1>3, <1>7, <3>1 DEF WakeInv
  (* The line goes on, with one byte fewer to come.                        *)
  <2>2. ASSUME UNCHANGED <<at, inbox, log, extra>> PROVE AnswersInv' /\ CoverInv' /\ NarrowInv'
    <3>1. Answered' = Answered /\ Counting' = Counting
      BY <1>0, <2>2 DEF Answered, Counting, Overflowed
    <3>2. CoverInv'
      <4>1. Covers(Pipe, Answered, cLine, Written) => Covers(Pipe', Answered, cLine, Written)
        BY <1>2, <1>4, <1>5, CoverWithout
      <4> QED
        BY <1>0, <1>1, <1>5, <3>1, <4>1 DEF CoverInv
    <3>3. AnswersInv'
      <4> SUFFICES ASSUME protocol = "answers", host # "wake", extra = 0
                   PROVE  /\ ~lost /\ host # "next" /\ Pipe' # <<>> /\ inbox = <<>>
                          /\ Len(Pipe') <= RxBufferSize - 1
                          /\ \A i \in 1 .. Len(Pipe') : Pipe'[i] \in LineEnds <=> i = Len(Pipe')
        BY <1>0, <2>2 DEF AnswersInv
      <4>1. ~lost /\ host # "next" /\ host \in {"next", "answer"}
        BY <1>1, <1>3 DEF AnswersInv, TypeInv
      <4>2. /\ inbox = <<>> /\ Len(Pipe) <= RxBufferSize - 1
            /\ \A i \in 1 .. Len(Pipe) : Pipe[i] \in LineEnds <=> i = Len(Pipe)
        BY <1>1, <1>3, <4>1 DEF AnswersInv
      <4>3. Len(Pipe) # 1
        <5>1. 1 \in 1 .. Len(Pipe)
          BY <1>4
        <5> QED
          BY <1>3, <1>7, <4>2, <5>1
      <4> DEFINE q == Pipe'
      <4>4. q # <<>> /\ Len(q) <= RxBufferSize - 1
        <5>1. Len(q) # 0 /\ Len(q) <= RxBufferSize - 1
          BY <1>4, <1>5, <4>2, <4>3
        <5> QED
          BY <5>1
      <4>5. ASSUME NEW i \in 1 .. Len(q) PROVE q[i] \in LineEnds <=> i = Len(q)
        <5>1. i + 1 \in 1 .. Len(Pipe) /\ (i + 1 = Len(Pipe) <=> i = Len(q))
          BY <1>4
        <5>2. q[i] = Pipe[i + 1]
          BY <1>4
        <5> QED
          BY <4>2, <5>1, <5>2
      <4> QED
        BY <4>1, <4>2, <4>4, <4>5
    <3>4. NarrowInv'
      BY <1>0, <1>1, <1>4, <1>5, <2>2, <3>1 DEF NarrowInv
    <3> QED
      BY <3>2, <3>3, <3>4
  <2>4. CASE Ignored(c)
    <3>1. UNCHANGED <<at, line, inbox, log, extra>>
      BY <2>0, <2>4 DEF ReadChar, Skip
    <3>2. TypeInv'
      BY <1>0, <1>1, <1>3, <3>1 DEF TypeInv
    <3> QED
      BY <2>1, <2>2, <3>1, <3>2 DEF Inv
  <2>5. CASE ~Ignored(c) /\ Len(line) >= LineBufferSize - 1
    <3>1. /\ line' = <<>> /\ inbox' = Append(inbox, "status") /\ at' = at
          /\ log' = Append(log, "overflow") /\ extra' = extra + 1
      BY <2>0, <2>5 DEF ReadChar, Overflow
    <3>2. /\ inbox' \in Seq({"status", "report"}) /\ extra' \in Nat /\ extra' # 0
          /\ log' \in Seq(Seq(Char) \cup {"overflow"})
          /\ line' \in Seq(Char) /\ \A i \in DOMAIN line' : line'[i] \notin LineEnds
      <4>1. inbox' \in Seq({"status", "report"})
        BY <1>2, <3>1, StatusesAppend
      <4>2. log' \in Seq(Seq(Char) \cup {"overflow"})
        BY <1>2, <3>1, AppendIs
      <4> QED
        BY <1>2, <3>1, <4>1, <4>2
    <3>3. TypeInv'
      BY <1>0, <1>1, <1>3, <3>1, <3>2 DEF TypeInv
    <3>4. Overflowed'
      <4> DEFINE L == Seq(Char) \cup {"overflow"}
      <4>1. "overflow" \in L /\ log \in Seq(L)
        BY <1>2
      <4> HIDE DEF L
      <4>2. log' \in Seq(L) /\ Len(log') = Len(log) + 1 /\ Len(log) \in Nat
            /\ log'[Len(log) + 1] = "overflow"
        BY <3>1, <4>1, AppendIs
      <4>3. Len(log) + 1 \in DOMAIN log'
        BY <4>2
      <4> QED
        BY <4>2, <4>3 DEF Overflowed
    <3>5. AnswersInv' /\ CoverInv' /\ NarrowInv'
      BY <3>2, <3>4 DEF AnswersInv, CoverInv, NarrowInv, Counting
    <3> QED
      BY <2>1, <3>3, <3>5 DEF Inv
  <2>6. CASE ~Ignored(c) /\ ~(Len(line) >= LineBufferSize - 1)
    <3> DEFINE y == Upcase(c)
    <3>1. /\ line' = Append(line, y) /\ UNCHANGED <<at, inbox, log, extra>>
      BY <2>0, <2>6 DEF ReadChar, Keep
    <3>2. y \in Char /\ y \notin LineEnds
      BY <1>3, <1>7 DEF Upcase, LineEnds, Char
    <3> HIDE DEF y
    <3>3. line' \in Seq(Char) /\ \A i \in DOMAIN line' : line'[i] \notin LineEnds
      <4> DEFINE n == Len(line)
                 l == line'
      <4>1. l \in Seq(Char) /\ Len(l) = n + 1 /\ n \in Nat
            /\ (\A i \in 1 .. n : l[i] = line[i]) /\ l[n + 1] = y
        BY <1>2, <3>1, <3>2, AppendIs
      <4>2. DOMAIN l = 1 .. (n + 1) /\ DOMAIN line = 1 .. n
        BY <1>2, <4>1
      <4>3. \A i \in 1 .. n : line[i] \notin LineEnds
        BY <1>1, <4>2 DEF TypeInv
      <4> HIDE DEF n, l
      <4>4. \A i \in 1 .. (n + 1) : i \in 1 .. n \/ i = n + 1
        BY <4>1
      <4> QED
        BY <3>2, <4>1, <4>2, <4>3, <4>4 DEF l
    <3>4. TypeInv'
      BY <1>0, <1>1, <1>3, <3>1, <3>3 DEF TypeInv
    <3> QED
      BY <2>1, <2>2, <3>1, <3>4 DEF Inv
  <2> QED
    BY <2>4, <2>5, <2>6
<1> QED
  BY <1>6, <1>7

-----------------------------------------------------------------------------
(* The invariant holds in every state that streaming can reach.            *)
LEMMA InvHolds == Spec => []Inv
<1>1. Inv /\ [Next]_vars => Inv'
  <2> SUFFICES ASSUME Inv, [Next]_vars PROVE Inv'
    OBVIOUS
  <2>1. CASE FlushInput
    BY <2>1, FlushInputKeeps
  <2>2. CASE SendAndWait
    BY <2>2, SendAndWaitKeeps
  <2>3. CASE ReadAnswer
    BY <2>3, ReadAnswerKeeps
  <2>4. CASE CountLine
    BY <2>4, CountLineKeeps
  <2>5. CASE ReadWhileFull
    BY <2>5, ReadWhileFullKeeps
  <2>6. CASE SendCounted
    BY <2>6, SendCountedKeeps
  <2>7. CASE Receive
    BY <2>7, ReceiveKeeps
  <2>8. CASE Overrun
    BY <2>8, OverrunKeeps
  <2>9. CASE ReadChar
    BY <2>9, ReadCharKeeps
  <2>10. CASE Store
    BY <2>10, StoreKeeps
  <2>11. CASE Answer
    BY <2>11, AnswerKeeps
  <2>12. CASE Report
    BY <2>12, ReportKeeps
  <2>13. CASE Finished \/ UNCHANGED vars
    BY <2>13, StillKeeps DEF Finished
  <2> QED
    BY <2>1, <2>2, <2>3, <2>4, <2>5, <2>6, <2>7, <2>8, <2>9, <2>10, <2>11, <2>12, <2>13 DEF Next
<1> QED
  BY <1>1, StartKeeps, PTL DEF Spec

(* No byte of a file is lost, unless an answer came that stands for no     *)
(* line, the count was compared with a raised limit, or a counted line has *)
(* written the EEPROM; and what is under way to Grbl or in its ring is     *)
(* never more than what stream.py counts.                                  *)
THEOREM RingTheorem == Spec => []RingHolds
<1>1. Inv => RingHolds
  <2> SUFFICES ASSUME Inv PROVE RingHolds
    OBVIOUS
  <2>1. TypeInv /\ WakeInv /\ AnswersInv /\ CoverInv /\ NarrowInv
    BY DEF Inv
  <2>2. ASSUME lost PROVE IF protocol = "counting" THEN Overflowed \/ wide \/ stored ELSE extra > 0
    <3>1. host # "wake"
      BY <2>1, <2>2 DEF WakeInv
    <3>2. CASE protocol = "counting"
      BY <2>1, <2>2, <3>1, <3>2 DEF NarrowInv, Counting
    <3>3. CASE protocol # "counting"
      <4>1. protocol = "answers" /\ extra \in Nat
        BY <2>1, <3>3 DEF TypeInv
      <4>2. extra # 0
        BY <2>1, <2>2, <3>1, <4>1 DEF AnswersInv
      <4> QED
        BY <3>3, <4>1, <4>2
    <3> QED
      BY <3>2, <3>3
  <2>3. ASSUME protocol = "counting", ~Overflowed, host # "wake"
        PROVE  Len(wire) + Len(ring) <= Counted
    <3>1. Covers(Pipe, Answered, cLine, Written) /\ cLine \in Seq(Nat)
      BY <2>1, <2>3 DEF CoverInv, Counting, TypeInv
    <3>2. Len(Pipe) <= Counted
      BY <2>1, <3>1, PipeIs, AnsweredIs, CoverBound DEF Counted
    <3> QED
      BY <2>1, <3>2, PipeIs
  <2> QED
    BY <2>2, <2>3 DEF RingHolds
<1> QED
  BY <1>1, InvHolds, PTL

-----------------------------------------------------------------------------
(* What Grbl makes of the bytes it has still to read.                      *)

Out == Seq(Char) \cup {"overflow"}
Reader == [line : Seq(Char), comment : {"none", "(", ";"}, log : Seq(Out)]
At(l, c, g) == [line |-> l, comment |-> c, log |-> g]

(* The main loop reads c; a status request is no byte of a line.           *)
Advance(s, c) ==
  IF c = "?" THEN s
  ELSE IF c \in LineEnds THEN At(<<>>, "none", Append(s.log, s.line))
  ELSE IF s.comment # "none" \/ c \in {" ", "/", "(", ";"}
    THEN At(s.line, CASE s.comment = "(" /\ c = ")" -> "none"
                      [] s.comment = "none" /\ c \in {"(", ";"} -> c
                      [] OTHER -> s.comment, s.log)
  ELSE IF Len(s.line) >= LineBufferSize - 1 THEN At(<<>>, s.comment, Append(s.log, "overflow"))
  ELSE At(Append(s.line, Upcase(c)), s.comment, s.log)

(* Reading all of p takes the main loop from s to t.                       *)
Reads(f, s, p, t) ==
  /\ f \in [0 .. Len(p) -> Reader] /\ f[0] = s /\ f[Len(p)] = t
  /\ \A i \in 1 .. Len(p) : f[i] = Advance(f[i - 1], p[i])
Leads(s, p, t) == \E f : Reads(f, s, p, t)

LEMMA AdvanceType ==
  ASSUME NEW s \in Reader, NEW c \in Char
  PROVE  Advance(s, c) \in Reader
<1> DEFINE C == {"none", "(", ";"}
<1>0. <<>> \in Seq(Char)
  OBVIOUS
<1>1. s.line \in Seq(Char) /\ s.comment \in C /\ s.log \in Seq(Out)
  <2> HIDE DEF C
  <2>1. s \in [line : Seq(Char), comment : C, log : Seq(Out)]
    BY DEF Reader, C
  <2> QED
    BY <2>1
<1>2. /\ \A l \in Seq(Char), d \in C, g \in Seq(Out) : At(l, d, g) \in Reader
      /\ \A o \in Out : Append(s.log, o) \in Seq(Out)
  <2> HIDE DEF C
  <2>1. \A l \in Seq(Char), d \in C, g \in Seq(Out) :
          At(l, d, g) \in [line : Seq(Char), comment : C, log : Seq(Out)]
    BY DEF At
  <2> QED
    BY <1>1, <2>1, AppendIs DEF Reader, C
<1>3. s.line \in Out /\ "overflow" \in Out
  BY <1>1 DEF Out
<1>4. CASE c = "?"
  BY <1>4 DEF Advance
<1>5. CASE c # "?" /\ c \in LineEnds
  BY <1>0, <1>1, <1>2, <1>3, <1>5 DEF Advance
<1>6. CASE c # "?" /\ c \notin LineEnds /\ (s.comment # "none" \/ c \in {" ", "/", "(", ";"})
  <2> DEFINE d == CASE s.comment = "(" /\ c = ")" -> "none"
                    [] s.comment = "none" /\ c \in {"(", ";"} -> c
                    [] OTHER -> s.comment
  <2>1. d \in {"none", "(", ";"}
    BY <1>1
  <2>2. Advance(s, c) = At(s.line, d, s.log)
    BY <1>6 DEF Advance
  <2> HIDE DEF d
  <2> QED
    BY <1>1, <1>2, <2>1, <2>2
<1>7. CASE c # "?" /\ c \notin LineEnds /\ ~(s.comment # "none" \/ c \in {" ", "/", "(", ";"})
  <2>1. Upcase(c) \in Char
    BY DEF Upcase, Char
  <2>2. Append(s.line, Upcase(c)) \in Seq(Char)
    BY <1>1, <2>1, AppendIs
  <2> QED
    BY <1>0, <1>1, <1>2, <1>3, <1>7, <2>2 DEF Advance
<1> QED
  BY <1>4, <1>5, <1>6, <1>7

LEMMA LeadsNowhere ==
  ASSUME NEW s \in Reader, NEW t
  PROVE  Leads(s, <<>>, t) <=> s = t
<1>1. Len(<<>>) = 0
  OBVIOUS
<1>2. ASSUME s = t PROVE Leads(s, <<>>, t)
  <2>1. Reads([k \in 0 .. 0 |-> s], s, <<>>, t)
    BY <1>1, <1>2 DEF Reads
  <2> QED
    BY <2>1 DEF Leads
<1> QED
  BY <1>1, <1>2 DEF Leads, Reads

(* The main loop reads the first byte.                                     *)
LEMMA LeadsOn ==
  ASSUME NEW s, NEW p \in Seq(Char), NEW t, p # <<>>, Leads(s, p, t)
  PROVE  Leads(Advance(s, Head(p)), Tail(p), t)
<1>1. PICK f : Reads(f, s, p, t)
  BY DEF Leads
<1> DEFINE q == Tail(p)
           n == Len(q)
           g == [k \in 0 .. n |-> f[k + 1]]
<1>2. /\ n \in Nat /\ Len(p) = n + 1 /\ \A i \in 1 .. n : q[i] = p[i + 1]
      /\ Head(p) = p[1]
  BY TailIs
<1> HIDE DEF n, q
<1>3. /\ f \in [0 .. (n + 1) -> Reader] /\ f[0] = s /\ f[n + 1] = t
      /\ \A i \in 1 .. (n + 1) : f[i] = Advance(f[i - 1], p[i])
  BY <1>1, <1>2 DEF Reads
<1>4. g \in [0 .. n -> Reader] /\ g[n] = t
  BY <1>2, <1>3
<1>5. g[0] = Advance(s, p[1])
  <2>1. g[0] = f[1] /\ 1 \in 1 .. (n + 1) /\ 1 - 1 = 0
    BY <1>2
  <2>2. f[1] = Advance(f[1 - 1], p[1])
    BY <1>3, <2>1
  <2> QED
    BY <1>3, <2>1, <2>2
<1>6. ASSUME NEW i \in 1 .. n PROVE g[i] = Advance(g[i - 1], q[i])
  <2>1. i + 1 \in 1 .. (n + 1) /\ (i + 1) - 1 = i /\ i - 1 \in 0 .. n /\ (i - 1) + 1 = i
        /\ i \in 0 .. n
    BY <1>2
  <2>2. f[i + 1] = Advance(f[i], p[i + 1])
    BY <1>3, <2>1
  <2>3. g[i] = f[i + 1] /\ g[i - 1] = f[i]
    BY <2>1
  <2> QED
    BY <1>2, <2>2, <2>3
<1>7. Reads(g, Advance(s, Head(p)), q, t)
  <2> HIDE DEF g
  <2> QED
    BY <1>2, <1>4, <1>5, <1>6 DEF Reads, n
<1> QED
  BY <1>7 DEF Leads, q

(* A status request is taken out of the bytes to read.                     *)
LEMMA LeadsWithout ==
  ASSUME NEW s, NEW p \in Seq(Char), NEW q \in Seq(Char), NEW t, NEW r, Without(p, q, r),
         p[r + 1] = "?", Leads(s, p, t)
  PROVE  Leads(s, q, t)
<1>1. PICK f : Reads(f, s, p, t)
  BY DEF Leads
<1> DEFINE n == Len(q)
           g == [k \in 0 .. n |-> IF k <= r THEN f[k] ELSE f[k + 1]]
<1>2. /\ n \in Nat /\ Len(p) = n + 1 /\ r \in Nat /\ r <= n
      /\ \A i \in 1 .. r : q[i] = p[i]
      /\ \A i \in (r + 1) .. n : q[i] = p[i + 1]
  BY DEF Without
<1> HIDE DEF n
<1>3. /\ f \in [0 .. (n + 1) -> Reader] /\ f[0] = s /\ f[n + 1] = t
      /\ \A i \in 1 .. (n + 1) : f[i] = Advance(f[i - 1], p[i])
  BY <1>1, <1>2 DEF Reads
<1>4. f[r + 1] = f[r]
  <2>1. r + 1 \in 1 .. (n + 1) /\ (r + 1) - 1 = r
    BY <1>2
  <2>2. f[r + 1] = Advance(f[r], "?")
    BY <1>3, <2>1
  <2> QED
    BY <2>2 DEF Advance
<1>5. g \in [0 .. n -> Reader]
  BY <1>2, <1>3
<1>6. g[0] = s /\ g[n] = t
  BY <1>2, <1>3, <1>4
<1>7. ASSUME NEW i \in 1 .. n PROVE g[i] = Advance(g[i - 1], q[i])
  <2>1. i \in 0 .. n /\ i - 1 \in 0 .. n
    BY <1>2
  <2>2. CASE i <= r
    <3>1. i \in 1 .. r /\ i \in 1 .. (n + 1) /\ i - 1 <= r
      BY <1>2, <2>2
    <3>2. g[i] = f[i] /\ g[i - 1] = f[i - 1]
      BY <2>1, <2>2, <3>1
    <3> QED
      BY <1>2, <1>3, <3>1, <3>2
  <2>3. CASE i > r
    <3>1. i \in (r + 1) .. n /\ i + 1 \in 1 .. (n + 1) /\ (i + 1) - 1 = i /\ ~(i <= r)
      BY <1>2, <2>3
    <3>2. g[i] = f[i + 1] /\ g[i - 1] = f[i]
      <4>1. g[i] = f[i + 1]
        BY <2>1, <3>1
      <4>2. CASE i - 1 <= r
        <5>1. i = r + 1 /\ i - 1 = r
          BY <1>2, <3>1, <4>2
        <5>2. g[i - 1] = f[i - 1]
          BY <2>1, <4>2
        <5> QED
          BY <1>4, <4>1, <5>1, <5>2
      <4>3. CASE ~(i - 1 <= r)
        <5>1. (i - 1) + 1 = i
          OBVIOUS
        <5> QED
          BY <2>1, <4>1, <4>3, <5>1
      <4> QED
        BY <4>2, <4>3
    <3>3. f[i + 1] = Advance(f[i], p[i + 1])
      BY <1>3, <3>1
    <3> QED
      BY <1>2, <3>1, <3>2, <3>3
  <2> QED
    BY <1>2, <2>2, <2>3
<1>8. Reads(g, s, q, t)
  <2> HIDE DEF g
  <2> QED
    BY <1>5, <1>6, <1>7 DEF Reads, n
<1> QED
  BY <1>8 DEF Leads

(* More bytes come behind those under way.                                 *)
LEMMA LeadsBoth ==
  ASSUME NEW s, NEW p \in Seq(Char), NEW t, NEW q \in Seq(Char), NEW u,
         Leads(s, p, t), Leads(t, q, u)
  PROVE  Leads(s, p \o q, u)
<1>1. PICK f : Reads(f, s, p, t)
  BY DEF Leads
<1>2. PICK h : Reads(h, t, q, u)
  BY DEF Leads
<1> DEFINE m == Len(p)
           n == Len(q)
           b == p \o q
           g == [k \in 0 .. (m + n) |-> IF k <= m THEN f[k] ELSE h[k - m]]
<1>3. /\ m \in Nat /\ n \in Nat /\ Len(b) = m + n
      /\ \A i \in 1 .. m : b[i] = p[i]
      /\ \A i \in 1 .. n : b[m + i] = q[i]
  BY Joined
<1>4. /\ f \in [0 .. m -> Reader] /\ f[0] = s /\ f[m] = t
      /\ \A i \in 1 .. m : f[i] = Advance(f[i - 1], p[i])
      /\ h \in [0 .. n -> Reader] /\ h[0] = t /\ h[n] = u
      /\ \A i \in 1 .. n : h[i] = Advance(h[i - 1], q[i])
  BY <1>1, <1>2 DEF Reads
<1> HIDE DEF m, n, b
<1>5. g \in [0 .. (m + n) -> Reader]
  BY <1>3, <1>4
<1>6. g[0] = s /\ g[m + n] = u
  <2>1. 0 \in 0 .. (m + n) /\ 0 <= m /\ m + n \in 0 .. (m + n)
    BY <1>3
  <2>2. CASE n = 0
    <3>1. m + n = m /\ m \in 0 .. (m + n) /\ u = t
      BY <1>3, <1>4, <2>2
    <3> QED
      BY <1>4, <2>1, <3>1
  <2>3. CASE n # 0
    <3>1. ~(m + n <= m) /\ (m + n) - m = n
      BY <1>3, <2>3
    <3> QED
      BY <1>4, <2>1, <3>1
  <2> QED
    BY <2>2, <2>3
<1>7. ASSUME NEW i \in 1 .. (m + n) PROVE g[i] = Advance(g[i - 1], b[i])
  <2>1. i \in 0 .. (m + n) /\ i - 1 \in 0 .. (m + n)
    BY <1>3
  <2>2. CASE i <= m
    <3>1. i \in 1 .. m /\ i - 1 <= m
      BY <1>3, <2>2
    <3>2. g[i] = f[i] /\ g[i - 1] = f[i - 1]
      BY <2>1, <2>2, <3>1
    <3> QED
      BY <1>3, <1>4, <3>1, <3>2
  <2>3. CASE ~(i <= m)
    <3>1. i - m \in 1 .. n /\ m + (i - m) = i /\ (i - 1) - m = (i - m) - 1
      BY <1>3, <2>3
    <3>2. g[i] = h[i - m] /\ g[i - 1] = h[(i - m) - 1]
      <4>1. g[i] = h[i - m]
        BY <2>1, <2>3
      <4>2. CASE i - 1 <= m
        <5>1. i - 1 = m /\ (i - m) - 1 = 0
          BY <1>3, <2>3, <4>2
        <5>2. g[i - 1] = f[i - 1]
          BY <2>1, <4>2
        <5> QED
          BY <1>4, <4>1, <5>1, <5>2
      <4>3. CASE ~(i - 1 <= m)
        BY <2>1, <3>1, <4>1, <4>3
      <4> QED
        BY <4>2, <4>3
    <3>3. b[m + (i - m)] = q[i - m]
      BY <1>3, <3>1
    <3>4. h[i - m] = Advance(h[(i - m) - 1], q[i - m])
      BY <1>4, <3>1
    <3> QED
      BY <3>1, <3>2, <3>3, <3>4
  <2> QED
    BY <2>2, <2>3
<1>8. Reads(g, s, b, u)
  <2> HIDE DEF g
  <2> QED
    BY <1>3, <1>5, <1>6, <1>7 DEF Reads
<1> QED
  BY <1>8 DEF Leads, b

(* What has been executed stays so.                                        *)
Extends(g, h) == Len(g) <= Len(h) /\ \A i \in 1 .. Len(g) : h[i] = g[i]

LEMMA ExtendsPrefix ==
  ASSUME NEW T, NEW g \in Seq(T), NEW h \in Seq(T), Extends(g, h)
  PROVE  IsPrefix(g, h)
<1> DEFINE n == Len(g)
<1>1. n \in Nat /\ n <= Len(h) /\ Len(h) \in Nat /\ \A i \in 1 .. n : h[i] = g[i]
  BY DEF Extends
<1>2. /\ SubSeq(g, 1, n) = [i \in 1 .. n |-> g[i]]
      /\ SubSeq(h, 1, n) = [i \in 1 .. n |-> h[i]]
  OBVIOUS
<1>3. [i \in 1 .. n |-> g[i]] = [i \in 1 .. n |-> h[i]]
  BY <1>1
<1> QED
  BY <1>1, <1>2, <1>3 DEF IsPrefix

LEMMA AdvanceLog ==
  ASSUME NEW s \in Reader, NEW c
  PROVE  Advance(s, c).log \in {s.log, Append(s.log, s.line), Append(s.log, "overflow")}
  BY DEF Advance, At, Reader

LEMMA LeadsLog ==
  ASSUME NEW s \in Reader, NEW p \in Seq(Char), NEW t, Leads(s, p, t)
  PROVE  t \in Reader /\ Extends(s.log, t.log)
<1>1. PICK f : Reads(f, s, p, t)
  BY DEF Leads
<1> DEFINE n == Len(p)
           T == {k \in 0 .. n : Extends(s.log, f[k].log)}
<1>2. /\ n \in Nat /\ f \in [0 .. n -> Reader] /\ f[0] = s /\ f[n] = t
      /\ \A i \in 1 .. n : f[i] = Advance(f[i - 1], p[i])
  BY <1>1 DEF Reads
<1>3. s.log \in Seq(Out) /\ \A k \in 0 .. n : f[k].log \in Seq(Out)
  BY <1>2 DEF Reader
<1> HIDE DEF n
<1>4. 0 \in T
  BY <1>2, <1>3 DEF Extends
<1>5. ASSUME NEW k \in 1 .. n, k - 1 \in T PROVE k \in T
  <2> DEFINE r == f[k - 1]
  <2>1. r \in Reader /\ Extends(s.log, r.log) /\ f[k] = Advance(r, p[k]) /\ k \in 0 .. n
    BY <1>2, <1>5
  <2>2. f[k].log \in {r.log, Append(r.log, r.line), Append(r.log, "overflow")}
    BY <2>1, AdvanceLog
  <2>3. r.log \in Seq(Out) /\ r.line \in Out /\ "overflow" \in Out
    BY <2>1 DEF Reader, Out
  <2> HIDE DEF r, T
  <2>4. ASSUME NEW o \in Out PROVE Extends(s.log, Append(r.log, o))
    <3> DEFINE g == s.log
               h == r.log
               e == Append(h, o)
    <3>1. /\ Len(e) = Len(h) + 1 /\ Len(h) \in Nat /\ Len(g) \in Nat
          /\ \A i \in 1 .. Len(h) : e[i] = h[i]
      BY <1>3, <2>3, AppendIs
    <3>2. Len(g) <= Len(h) /\ \A i \in 1 .. Len(g) : h[i] = g[i]
      BY <2>1 DEF Extends
    <3> HIDE DEF g, h, e
    <3>3. \A i \in 1 .. Len(g) : i \in 1 .. Len(h)
      BY <3>1, <3>2
    <3>4. Extends(g, e)
      BY <3>1, <3>2, <3>3 DEF Extends
    <3> QED
      BY <3>4 DEF g, e, h
  <2>5. Extends(s.log, f[k].log)
    BY <2>1, <2>2, <2>3, <2>4
  <2> QED
    BY <2>1, <2>5 DEF T
<1>6. \A k \in 0 .. n : k \in T
  <2> HIDE DEF T
  <2> QED
    BY <1>2, <1>4, <1>5, Induction
<1>7. n \in 0 .. n
  BY <1>2
<1>8. n \in T
  BY <1>6, <1>7
<1> QED
  BY <1>2, <1>7, <1>8

-----------------------------------------------------------------------------
(* What is computed from one element to the next.                          *)

Follows(f, d, step, n) == f[0] = d /\ \A k \in 1 .. n : f[k] = step[k][f[k - 1]]

LEMMA StepByStep ==
  ASSUME NEW n \in Nat, NEW D, NEW d \in D, NEW step \in [1 .. n -> [D -> D]]
  PROVE  \E f \in [0 .. n -> D] : Follows(f, d, step, n)
<1> DEFINE T == {j \in 0 .. n : \E f \in [0 .. j -> D] : Follows(f, d, step, j)}
<1>1. 0 \in T
  <2>1. Follows([k \in 0 .. 0 |-> d], d, step, 0)
    BY DEF Follows
  <2>2. [k \in 0 .. 0 |-> d] \in [0 .. 0 -> D]
    OBVIOUS
  <2> QED
    BY <2>1, <2>2
<1>2. ASSUME NEW j \in 1 .. n, j - 1 \in T PROVE j \in T
  <2>1. PICK f \in [0 .. (j - 1) -> D] : Follows(f, d, step, j - 1)
    BY <1>2
  <2> DEFINE x == step[j][f[j - 1]]
             g == [k \in 0 .. j |-> IF k = j THEN x ELSE f[k]]
  <2>2. j \in Nat /\ j - 1 \in 0 .. (j - 1) /\ j # 0
    OBVIOUS
  <2>3. x \in D /\ \A k \in 0 .. (j - 1) : f[k] \in D
    BY <2>2
  <2> HIDE DEF x
  <2>4. g \in [0 .. j -> D]
    BY <2>3
  <2>5. g[j] = x /\ \A k \in 0 .. (j - 1) : g[k] = f[k]
    BY <2>2
  <2> HIDE DEF g
  <2>6. ASSUME NEW k \in 1 .. j PROVE g[k] = step[k][g[k - 1]]
    <3>1. CASE k = j
      BY <2>2, <2>5, <3>1 DEF x
    <3>2. CASE k # j
      <4>1. k \in 1 .. (j - 1) /\ k \in 0 .. (j - 1) /\ k - 1 \in 0 .. (j - 1)
        BY <3>2
      <4> QED
        BY <2>1, <2>5, <4>1 DEF Follows
    <3> QED
      BY <3>1, <3>2
  <2>7. g[0] = d
    <3>1. 0 \in 0 .. (j - 1)
      OBVIOUS
    <3> QED
      BY <2>1, <2>5, <3>1 DEF Follows
  <2>8. Follows(g, d, step, j)
    BY <2>6, <2>7 DEF Follows
  <2> QED
    BY <2>4, <2>8
<1>3. \A j \in 0 .. n : j \in T
  <2> HIDE DEF T
  <2> QED
    BY <1>1, <1>2, Induction
<1>4. n \in 0 .. n
  OBVIOUS
<1> QED
  BY <1>3, <1>4

-----------------------------------------------------------------------------
(* Sequences put one behind the other.                                     *)

IsFlat(f, S) ==
  /\ f \in [0 .. Len(S) -> Seq(Out)] /\ f[0] = <<>>
  /\ \A k \in 1 .. Len(S) : f[k] = f[k - 1] \o S[k]

LEMMA FlatExists ==
  ASSUME NEW S \in Seq(Seq(Out))
  PROVE  \E f : IsFlat(f, S)
<1> DEFINE n == Len(S)
           D == Seq(Out)
           step == [k \in 1 .. n |-> [d \in D |-> d \o S[k]]]
<1>1. n \in Nat /\ <<>> \in D /\ \A k \in 1 .. n : S[k] \in D
  OBVIOUS
<1>2. \A d \in D, e \in D : d \o e \in D
  OBVIOUS
<1> HIDE DEF n, D
<1>3. step \in [1 .. n -> [D -> D]]
  BY <1>1, <1>2
<1>4. \A k \in 1 .. n, d \in D : step[k][d] = d \o S[k]
  OBVIOUS
<1> HIDE DEF step
<1>5. PICK f \in [0 .. n -> D] : Follows(f, <<>>, step, n)
  BY <1>1, <1>3, StepByStep
<1>6. ASSUME NEW k \in 1 .. n PROVE f[k] = f[k - 1] \o S[k]
  <2>1. k - 1 \in 0 .. n
    BY <1>1
  <2>2. f[k - 1] \in D
    BY <2>1
  <2> QED
    BY <1>4, <1>5, <2>2 DEF Follows
<1>7. IsFlat(f, S)
  BY <1>5, <1>6 DEF IsFlat, Follows, n, D
<1> QED
  BY <1>7

LEMMA FlattenIs ==
  ASSUME NEW S \in Seq(Seq(Out)), NEW f, IsFlat(f, S)
  PROVE  FlattenSeq(S) = f[Len(S)] /\ f[Len(S)] \in Seq(Out)
<1> DEFINE n == Len(S)
           Is(g) == g = [i \in 1 .. n |-> IF i = 1 THEN S[i] ELSE g[i - 1] \o S[i]]
<1>0. n \in Nat /\ \A k \in 1 .. n : S[k] \in Seq(Out)
  OBVIOUS
<1>1. /\ f \in [0 .. n -> Seq(Out)] /\ f[0] = <<>>
      /\ \A k \in 1 .. n : f[k] = f[k - 1] \o S[k]
  BY DEF IsFlat
<1>2. CASE n = 0
  <2>1. S = <<>>
    BY <1>2
  <2> QED
    BY <1>0, <1>1, <1>2, <2>1 DEF FlattenSeq
<1>3. CASE n # 0
  <2> DEFINE h == [i \in 1 .. n |-> f[i]]
  <2>1. ASSUME NEW i \in 1 .. n
        PROVE  f[i] = IF i = 1 THEN S[i] ELSE h[i - 1] \o S[i]
    <3>1. CASE i = 1
      <4>1. 1 \in 1 .. n /\ 1 - 1 = 0
        BY <3>1
      <4>2. f[1] = f[1 - 1] \o S[1]
        BY <1>0, <1>1, <4>1
      <4>3. f[1] = <<>> \o S[1] /\ S[1] \in Seq(Out)
        BY <1>0, <1>1, <4>1, <4>2
      <4> QED
        BY <3>1, <4>3
    <3>2. CASE i # 1
      <4>1. i - 1 \in 1 .. n
        BY <1>0, <1>1, <3>2
      <4> QED
        BY <1>0, <1>1, <3>2, <4>1
    <3> QED
      BY <3>1, <3>2
  <2>2. Is(h)
    <3> HIDE DEF n
    <3> QED
      BY <2>1
  <2> DEFINE F == CHOOSE g : Is(g)
  <2>3. FlattenSeq(S) = F[n]
    BY <1>3 DEF FlattenSeq
  <2>4. Is(F)
    <3> HIDE DEF Is, h
    <3> QED
      BY <2>2
  <2> HIDE DEF F
  <2>5. \A i \in 1 .. n : F[i] = IF i = 1 THEN S[i] ELSE F[i - 1] \o S[i]
    BY <2>4
  <2> HIDE DEF Is, n
  <2> DEFINE T == {k \in 0 .. n : k = 0 \/ F[k] = f[k]}
  <2>6. 0 \in T
    BY <1>0, <1>1
  <2>7. ASSUME NEW k \in 1 .. n, k - 1 \in T PROVE k \in T
    <3>1. f[k] = IF k = 1 THEN S[k] ELSE h[k - 1] \o S[k]
      BY <2>1
    <3>2. CASE k = 1
      BY <1>0, <1>1, <2>5, <3>1, <3>2
    <3>3. CASE k # 1
      <4>1. k - 1 \in 1 .. n /\ k - 1 # 0
        BY <1>0, <1>1, <3>3
      <4>2. F[k - 1] = f[k - 1]
        BY <2>7, <4>1
      <4>3. F[k] = F[k - 1] \o S[k]
        BY <2>5, <3>3
      <4>4. f[k] = f[k - 1] \o S[k]
        BY <1>0, <1>1
      <4>5. F[k] = f[k]
        BY <4>2, <4>3, <4>4, Zenon
      <4> QED
        BY <4>5
    <3> QED
      BY <3>2, <3>3
  <2>8. \A k \in 0 .. n : k \in T
    <3> HIDE DEF T
    <3> QED
      BY <1>0, <1>1, <2>6, <2>7, Induction
  <2>9. n \in 0 .. n
    BY <1>0, <1>1
  <2>10. n \in T
    BY <2>8, <2>9
  <2> QED
    BY <1>0, <1>1, <1>3, <2>3, <2>9, <2>10 DEF n
<1> QED
  BY <1>2, <1>3

LEMMA FlattenAppend ==
  ASSUME NEW S \in Seq(Seq(Out)), NEW x \in Seq(Out)
  PROVE  FlattenSeq(Append(S, x)) = FlattenSeq(S) \o x /\ FlattenSeq(S) \in Seq(Out)
<1>1. PICK f : IsFlat(f, S)
  BY FlatExists
<1> DEFINE n == Len(S)
           U == Append(S, x)
           y == f[n] \o x
           g == [k \in 0 .. (n + 1) |-> IF k = n + 1 THEN y ELSE f[k]]
<1>2. /\ n \in Nat /\ U \in Seq(Seq(Out)) /\ Len(U) = n + 1 /\ U[n + 1] = x
      /\ \A k \in 1 .. n : U[k] = S[k]
  BY AppendIs
<1>3. /\ f \in [0 .. n -> Seq(Out)] /\ f[0] = <<>>
      /\ \A k \in 1 .. n : f[k] = f[k - 1] \o S[k]
  BY <1>1 DEF IsFlat
<1>4. FlattenSeq(S) = f[n] /\ f[n] \in Seq(Out)
  BY <1>1, FlattenIs
<1>5. y \in Seq(Out)
  BY <1>4
<1> HIDE DEF n, U, y
<1>6. g \in [0 .. (n + 1) -> Seq(Out)] /\ g[0] = <<>>
  BY <1>2, <1>3, <1>5
<1>7. ASSUME NEW k \in 1 .. (n + 1) PROVE g[k] = g[k - 1] \o U[k]
  <2>1. k \in 0 .. (n + 1) /\ k - 1 \in 0 .. (n + 1) /\ k - 1 # n + 1
    BY <1>2
  <2>2. CASE k = n + 1
    <3>1. k - 1 = n
      BY <1>2, <2>2
    <3>2. g[k] = y /\ g[k - 1] = f[n]
      BY <2>1, <2>2, <3>1
    <3> QED
      BY <1>2, <2>2, <3>2 DEF y
  <2>3. CASE k # n + 1
    <3>1. k \in 1 .. n
      BY <1>2, <2>3
    <3>2. g[k] = f[k] /\ g[k - 1] = f[k - 1]
      BY <2>1, <2>3
    <3> QED
      BY <1>2, <1>3, <3>1, <3>2
  <2> QED
    BY <2>2, <2>3
<1>8. IsFlat(g, U) /\ g[n + 1] = y
  <2>1. n + 1 \in 0 .. (n + 1)
    BY <1>2
  <2>2. g[n + 1] = y
    BY <2>1
  <2> HIDE DEF g
  <2> QED
    BY <1>2, <1>6, <1>7, <2>2 DEF IsFlat
<1>9. FlattenSeq(U) = y
  <2> HIDE DEF g
  <2> QED
    BY <1>2, <1>8, FlattenIs
<1> QED
  BY <1>4, <1>9 DEF n, U, y

-----------------------------------------------------------------------------
(* One line, character by character.                                       *)

Lines == Programs \cup SettingsLines
Comments == {"none", "(", ";"}
CommentFrom(d, c) == IF d = "none" /\ c \in {"(", ";"} THEN c
                     ELSE IF d = "(" /\ c = ")" THEN "none"
                     ELSE d

LEMMA CommentAfterIs ==
  ASSUME NEW l \in Lines
  PROVE  /\ CommentAfter(l) \in [0 .. Len(l) -> Comments] /\ CommentAfter(l)[0] = "none"
         /\ \A j \in 1 .. Len(l) :
              CommentAfter(l)[j] = CommentFrom(CommentAfter(l)[j - 1], l[j])
<1> DEFINE n == Len(l)
           step == [k \in 1 .. n |-> [d \in Comments |-> CommentFrom(d, l[k])]]
           Is(g) == g = [j \in 0 .. n |->
                           IF j = 0 THEN "none"
                           ELSE IF g[j - 1] = "none" /\ l[j] \in {"(", ";"} THEN l[j]
                           ELSE IF g[j - 1] = "(" /\ l[j] = ")" THEN "none"
                           ELSE g[j - 1]]
           F == CHOOSE g : Is(g)
<1>1. n \in Nat /\ "none" \in Comments
  BY LineIs DEF Lines, Comments
<1>2. \A d \in Comments : \A c : CommentFrom(d, c) \in Comments
  BY DEF Comments, CommentFrom
<1>3. CommentAfter(l) = F
  BY DEF CommentAfter
<1> HIDE DEF n
<1>4. step \in [1 .. n -> [Comments -> Comments]]
  BY <1>2
<1>5. \A k \in 1 .. n, d \in Comments : step[k][d] = CommentFrom(d, l[k])
  OBVIOUS
<1> HIDE DEF step
<1>6. PICK f \in [0 .. n -> Comments] : Follows(f, "none", step, n)
  BY <1>1, <1>4, StepByStep
<1>7. ASSUME NEW k \in 1 .. n PROVE f[k] = CommentFrom(f[k - 1], l[k])
  <2>1. k - 1 \in 0 .. n
    BY <1>1
  <2>2. f[k - 1] \in Comments
    BY <2>1
  <2> QED
    BY <1>5, <1>6, <2>2 DEF Follows
<1>8. f[0] = "none"
  BY <1>6 DEF Follows
<1>9. Is(f)
  <2>1. ASSUME NEW j \in 0 .. n
        PROVE  f[j] = IF j = 0 THEN "none"
                      ELSE IF f[j - 1] = "none" /\ l[j] \in {"(", ";"} THEN l[j]
                      ELSE IF f[j - 1] = "(" /\ l[j] = ")" THEN "none"
                      ELSE f[j - 1]
    <3>1. CASE j = 0
      BY <1>8, <3>1
    <3>2. CASE j # 0
      <4>1. j \in 1 .. n
        BY <1>1, <3>2
      <4> QED
        BY <1>7, <3>2, <4>1 DEF CommentFrom
    <3> QED
      BY <3>1, <3>2
  <2> QED
    BY <2>1
<1>10. Is(F)
  <2> HIDE DEF Is
  <2> QED
    BY <1>9
<1> HIDE DEF F
<1>11. /\ DOMAIN F = 0 .. n
       /\ \A j \in 0 .. n :
            F[j] = IF j = 0 THEN "none"
                   ELSE IF F[j - 1] = "none" /\ l[j] \in {"(", ";"} THEN l[j]
                   ELSE IF F[j - 1] = "(" /\ l[j] = ")" THEN "none"
                   ELSE F[j - 1]
  BY <1>10
<1>12. F = [j \in 0 .. n |-> F[j]]
  BY <1>10
<1> HIDE DEF Is
<1>13. 0 \in 0 .. n /\ \A j \in 1 .. n : j \in 0 .. n /\ j # 0
  BY <1>1
<1>14. F[0] = "none"
  BY <1>11, <1>13
<1>15. \A j \in 1 .. n : F[j] = CommentFrom(F[j - 1], l[j])
  BY <1>11, <1>13 DEF CommentFrom
<1>16. \A j \in 0 .. n : F[j] \in Comments
  <2> DEFINE T == {j \in 0 .. n : F[j] \in Comments}
  <2>1. 0 \in T
    BY <1>1, <1>13, <1>14
  <2>2. ASSUME NEW k \in 1 .. n, k - 1 \in T PROVE k \in T
    BY <1>2, <1>13, <1>15, <2>2
  <2>3. \A k \in 0 .. n : k \in T
    <3> HIDE DEF T
    <3> QED
      BY <1>1, <2>1, <2>2, Induction
  <2> QED
    BY <2>3
<1> QED
  BY <1>3, <1>12, <1>14, <1>15, <1>16 DEF n

(* The characters of a line that are neither blank nor in a comment, and   *)
(* how many of them are among the first j.                                 *)
Coded(l) == {j \in 1 .. Len(l) : /\ CommentAfter(l)[j - 1] = "none"
                                 /\ l[j] \notin {" ", "/", "(", ";", "?"}}
CodedBy(l, j) == {k \in Coded(l) : k <= j}
CodeSize(l, j) == Cardinality(CodedBy(l, j))

LEMMA CodedFinite ==
  ASSUME NEW l \in Lines, NEW j
  PROVE  IsFiniteSet(Coded(l)) /\ IsFiniteSet(CodedBy(l, j)) /\ CodeSize(l, j) \in Nat
<1>1. Len(l) \in Nat
  BY LineIs DEF Lines
<1>2. IsFiniteSet(1 .. Len(l))
  BY <1>1, FS_Interval
<1>3. Coded(l) \in SUBSET (1 .. Len(l)) /\ CodedBy(l, j) \in SUBSET (1 .. Len(l))
  BY DEF Coded, CodedBy
<1>4. IsFiniteSet(Coded(l)) /\ IsFiniteSet(CodedBy(l, j))
  BY <1>2, <1>3, FS_Subset
<1> QED
  BY <1>4, FS_CardinalityType DEF CodeSize

LEMMA CodeSizeIs ==
  ASSUME NEW l \in Lines
  PROVE  /\ CodeSize(l, 0) = 0
         /\ \A j \in 1 .. Len(l) :
              CodeSize(l, j) = IF j \in Coded(l) THEN CodeSize(l, j - 1) + 1 ELSE CodeSize(l, j - 1)
<1>1. CodeSize(l, 0) = 0
  <2>1. CodedBy(l, 0) = {}
    <3>1. Len(l) \in Nat /\ Coded(l) \subseteq 1 .. Len(l)
      BY LineIs DEF Lines, Coded
    <3> QED
      BY <3>1 DEF CodedBy
  <2> QED
    BY <2>1, FS_EmptySet DEF CodeSize
<1>2. ASSUME NEW j \in 1 .. Len(l)
      PROVE  CodeSize(l, j) = IF j \in Coded(l) THEN CodeSize(l, j - 1) + 1 ELSE CodeSize(l, j - 1)
  <2>1. Len(l) \in Nat /\ Coded(l) \subseteq 1 .. Len(l)
    BY LineIs DEF Lines, Coded
  <2>2. j \notin CodedBy(l, j - 1)
    BY <2>1 DEF CodedBy
  <2>3. \A k \in Coded(l) : k <= j <=> k <= j - 1 \/ k = j
    BY <2>1
  <2>4. CASE j \in Coded(l)
    <3>1. CodedBy(l, j) = CodedBy(l, j - 1) \cup {j}
      BY <2>1, <2>3, <2>4 DEF CodedBy
    <3>2. IsFiniteSet(CodedBy(l, j - 1))
      BY CodedFinite
    <3> QED
      BY <2>2, <2>4, <3>1, <3>2, FS_AddElement DEF CodeSize
  <2>5. CASE j \notin Coded(l)
    <3>1. CodedBy(l, j) = CodedBy(l, j - 1)
      BY <2>1, <2>3, <2>5 DEF CodedBy
    <3> QED
      BY <2>5, <3>1 DEF CodeSize
  <2> QED
    BY <2>4, <2>5
<1> QED
  BY <1>1, <1>2

(* Two characters kept have different places in the code, and every place  *)
(* of the code has one.                                                    *)
LEMMA CodeSizeDiffers ==
  ASSUME NEW l \in Lines, NEW j \in Coded(l), NEW k \in Coded(l), CodeSize(l, j) = CodeSize(l, k)
  PROVE  j = k
<1>1. ASSUME NEW a \in Coded(l), NEW b \in Coded(l), a < b PROVE CodeSize(l, a) < CodeSize(l, b)
  <2>1. Len(l) \in Nat /\ Coded(l) \subseteq 1 .. Len(l)
    BY LineIs DEF Lines, Coded
  <2> DEFINE A == CodedBy(l, a)
             B == A \cup {b}
  <2>2. b \notin A
    BY <1>1, <2>1 DEF CodedBy
  <2>3. B \in SUBSET CodedBy(l, b)
    BY <1>1, <2>1 DEF CodedBy
  <2>4. IsFiniteSet(A) /\ IsFiniteSet(CodedBy(l, b)) /\ CodeSize(l, a) \in Nat /\ CodeSize(l, b) \in Nat
    BY CodedFinite
  <2> HIDE DEF A
  <2>5. Cardinality(B) = Cardinality(A) + 1
    BY <2>2, <2>4, FS_AddElement
  <2> HIDE DEF B
  <2>6. Cardinality(B) <= Cardinality(CodedBy(l, b))
    BY <2>3, <2>4, FS_Subset
  <2> QED
    BY <2>4, <2>5, <2>6 DEF CodeSize, A
<1>2. /\ Len(l) \in Nat /\ Coded(l) \subseteq 1 .. Len(l)
      /\ CodeSize(l, j) \in Nat /\ CodeSize(l, k) \in Nat
  BY LineIs, CodedFinite DEF Lines, Coded
<1>3. ~(j < k) /\ ~(k < j)
  BY <1>1, <1>2
<1> QED
  BY <1>2, <1>3

LEMMA CodeSizeReached ==
  ASSUME NEW l \in Lines, NEW j \in 0 .. Len(l), NEW i \in 1 .. CodeSize(l, j)
  PROVE  \E k \in Coded(l) : CodeSize(l, k) = i
<1> DEFINE n == Len(l)
           T == {m \in 0 .. n : \A q \in 1 .. CodeSize(l, m) : \E k \in Coded(l) : CodeSize(l, k) = q}
<1>1. n \in Nat /\ \A m : CodeSize(l, m) \in Nat
  BY LineIs, CodedFinite DEF Lines
<1>2. /\ CodeSize(l, 0) = 0
      /\ \A m \in 1 .. n :
           CodeSize(l, m) = IF m \in Coded(l) THEN CodeSize(l, m - 1) + 1 ELSE CodeSize(l, m - 1)
  BY CodeSizeIs
<1> HIDE DEF n
<1>3. 0 \in T
  BY <1>1, <1>2
<1>4. ASSUME NEW m \in 1 .. n, m - 1 \in T PROVE m \in T
  <2>1. m \in 0 .. n /\ \A q \in 1 .. CodeSize(l, m - 1) : \E k \in Coded(l) : CodeSize(l, k) = q
    BY <1>1, <1>4
  <2>2. ASSUME NEW q \in 1 .. CodeSize(l, m) PROVE \E k \in Coded(l) : CodeSize(l, k) = q
    <3>1. CodeSize(l, m) \in Nat /\ CodeSize(l, m - 1) \in Nat
      BY <1>1
    <3>2. CASE q \in 1 .. CodeSize(l, m - 1)
      BY <2>1, <3>2
    <3>3. CASE q \notin 1 .. CodeSize(l, m - 1)
      <4>1. m \in Coded(l) /\ CodeSize(l, m) = q
        BY <1>2, <3>1, <3>3
      <4> QED
        BY <4>1
    <3> QED
      BY <3>2, <3>3
  <2> QED
    BY <2>1, <2>2
<1>5. \A m \in 0 .. n : m \in T
  <2> HIDE DEF T
  <2> QED
    BY <1>1, <1>3, <1>4, Induction
<1>6. j \in T
  BY <1>5 DEF n
<1> QED
  BY <1>6

LEMMA CodeIs ==
  ASSUME NEW l \in Lines
  PROVE  /\ Code(l) \in Seq(Char) /\ Len(Code(l)) = CodeSize(l, Len(l))
         /\ \A j \in Coded(l) : Code(l)[CodeSize(l, j)] = Upcase(l[j])
<1> DEFINE n == Len(l)
           size == CodeSize(l, n)
           Where(i) == CHOOSE j \in Coded(l) : CodeSize(l, j) = i
<1>1. n \in Nat /\ Coded(l) \subseteq 1 .. n /\ size \in Nat /\ \A j : CodeSize(l, j) \in Nat
  BY LineIs, CodedFinite DEF Lines, Coded
<1>2. CodedBy(l, n) = Coded(l)
  BY <1>1 DEF CodedBy
<1>3. Code(l) = [i \in 1 .. size |-> Upcase(l[Where(i)])]
  BY <1>2 DEF Code, Coded, CodedBy, CodeSize
<1> HIDE DEF n, size
<1>4. \A i \in 1 .. size : Where(i) \in Coded(l) /\ CodeSize(l, Where(i)) = i
  <2> SUFFICES ASSUME NEW i \in 1 .. size PROVE Where(i) \in Coded(l) /\ CodeSize(l, Where(i)) = i
    OBVIOUS
  <2>1. n \in 0 .. n
    BY <1>1
  <2>2. \E j \in Coded(l) : CodeSize(l, j) = i
    BY <2>1, CodeSizeReached DEF n, size
  <2> QED
    BY <2>2
<1> HIDE DEF Where
<1>5. \A j \in Coded(l) : l[j] \in Char /\ Upcase(l[j]) \in Char
  <2>1. \A j \in 1 .. n : l[j] \in Char
    BY LineIs DEF Lines, n
  <2> QED
    BY <1>1, <2>1 DEF Upcase, Char
<1>6. Code(l) \in Seq(Char) /\ Len(Code(l)) = size
  <2>1. \A i \in 1 .. size : Upcase(l[Where(i)]) \in Char
    BY <1>4, <1>5
  <2> QED
    BY <1>1, <1>3, <2>1
<1>7. ASSUME NEW j \in Coded(l) PROVE Code(l)[CodeSize(l, j)] = Upcase(l[j])
  <2> DEFINE i == CodeSize(l, j)
  <2>1. i \in 1 .. size
    <3>1. CodedBy(l, j) \in SUBSET Coded(l) /\ j \in CodedBy(l, j) /\ IsFiniteSet(Coded(l))
          /\ IsFiniteSet(CodedBy(l, j))
      BY <1>1, CodedFinite DEF CodedBy
    <3>2. Cardinality(CodedBy(l, j)) <= Cardinality(Coded(l))
      BY <3>1, FS_Subset
    <3>3. Cardinality(CodedBy(l, j)) # 0
      BY <3>1, FS_EmptySet
    <3> QED
      BY <1>1, <1>2, <3>2, <3>3 DEF CodeSize, size
  <2>2. Where(i) = j
    <3>1. Where(i) \in Coded(l) /\ CodeSize(l, Where(i)) = CodeSize(l, j)
      BY <1>4, <2>1
    <3> QED
      BY <3>1, CodeSizeDiffers
  <2> HIDE DEF i
  <2>3. Code(l)[i] = Upcase(l[j])
    BY <1>3, <2>1, <2>2
  <2> QED
    BY <2>3 DEF i
<1> QED
  BY <1>6, <1>7 DEF n, size

-----------------------------------------------------------------------------
(* The line buffer.                                                        *)

B == LineBufferSize
Overflows(k) == [i \in 1 .. k |-> "overflow"]

(* What is in the line buffer after n characters of code.                  *)
Buffered(l, n) == SubSeq(Code(l), (n \div B) * B + 1, n)

LEMMA Division ==
  ASSUME NEW n \in Nat, NEW b \in Nat, b >= 1
  PROVE  /\ n \div b \in Int /\ n % b \in Int /\ 0 <= n % b /\ n % b < b
         /\ n = b * (n \div b) + (n % b)
  OBVIOUS

LEMMA DivIs ==
  ASSUME NEW n \in Nat, NEW q \in Nat, NEW r \in 0 .. B - 1, n = q * B + r
  PROVE  n \div B = q
<1> DEFINE b == B
           d == n \div b
           e == n % b
<1>1. b \in Nat /\ b >= 1 /\ r \in Nat /\ r < b
  BY StreamingAssumption DEF B
<1> HIDE DEF b
<1>2. d \in Int /\ e \in Int /\ 0 <= e /\ e < b /\ n = b * d + e
  BY <1>1, Division, Zenon
<1>3. n = q * b + r
  BY DEF b
<1> HIDE DEF d, e
<1>4. CASE d >= q + 1
  <2>1. b * d >= b * (q + 1) /\ b * (q + 1) = q * b + b
    BY <1>1, <1>2, <1>4
  <2> QED
    BY <1>1, <1>2, <1>3, <2>1
<1>5. CASE d <= q - 1
  <2>1. b * d <= b * (q - 1) /\ b * (q - 1) = q * b - b
    BY <1>1, <1>2, <1>5
  <2> QED
    BY <1>1, <1>2, <1>3, <2>1
<1>6. CASE d = q
  BY <1>6 DEF d, b
<1> QED
  BY <1>2, <1>4, <1>5, <1>6

LEMMA DivNext ==
  ASSUME NEW n \in Nat
  PROVE  /\ n \div B \in Nat /\ (n \div B) * B \in Nat
         /\ (n \div B) * B <= n /\ n - (n \div B) * B \in 0 .. B - 1
         /\ n - (n \div B) * B >= B - 1 =>
              (n + 1) \div B = (n \div B) + 1 /\ ((n \div B) + 1) * B = n + 1
         /\ ~(n - (n \div B) * B >= B - 1) => (n + 1) \div B = n \div B
<1> DEFINE b == B
           q == n \div b
           r == n % b
<1>1. b \in Nat /\ b >= 1
  BY StreamingAssumption DEF B
<1> HIDE DEF b
<1>2. q \in Int /\ r \in Int /\ 0 <= r /\ r < b /\ n = b * q + r
  BY <1>1, Division
<1> HIDE DEF q, r
<1>3. q \in Nat
  <2> SUFFICES ASSUME q <= -1 PROVE FALSE
    BY <1>2
  <2>1. b * q <= b * (-1) /\ b * (-1) = -b
    BY <1>1, <1>2
  <2> QED
    BY <1>1, <1>2, <2>1
<1>4. q * b \in Nat /\ q * b <= n /\ n - q * b = r /\ r \in 0 .. b - 1
  <2>1. b * q = q * b /\ q * b \in Nat
    BY <1>1, <1>3
  <2> QED
    BY <1>1, <1>2, <2>1
<1>5. ASSUME n - q * b >= b - 1 PROVE (n + 1) \div b = q + 1 /\ (q + 1) * b = n + 1
  <2>1. r = b - 1 /\ (q + 1) * b = q * b + b
    BY <1>1, <1>2, <1>3, <1>4, <1>5
  <2>2. n + 1 = (q + 1) * b /\ n + 1 = (q + 1) * b + 0
    BY <1>1, <1>3, <1>4, <2>1
  <2>3. n + 1 \in Nat /\ q + 1 \in Nat /\ 0 \in 0 .. b - 1
    BY <1>1, <1>3
  <2> QED
    BY <2>2, <2>3, DivIs DEF b
<1>6. ASSUME ~(n - q * b >= b - 1) PROVE (n + 1) \div b = q
  <2>1. n + 1 = q * b + (r + 1) /\ r + 1 \in 0 .. b - 1 /\ n + 1 \in Nat
    BY <1>1, <1>3, <1>4, <1>6
  <2> QED
    BY <1>3, <2>1, DivIs DEF b
<1> QED
  BY <1>3, <1>4, <1>5, <1>6 DEF q, b

LEMMA OverflowsIs ==
  ASSUME NEW k \in Nat
  PROVE  /\ Overflows(k) \in Seq(Out)
         /\ Overflows(k + 1) = Append(Overflows(k), "overflow")
<1>1. "overflow" \in Out
  BY DEF Out
<1>2. Overflows(k) \in Seq(Out) /\ Overflows(k + 1) \in Seq(Out)
      /\ Len(Overflows(k)) = k /\ Len(Overflows(k + 1)) = k + 1
  BY <1>1 DEF Overflows
<1> DEFINE s == Append(Overflows(k), "overflow")
           t == Overflows(k + 1)
<1>3. /\ s \in Seq(Out) /\ Len(s) = k + 1
      /\ \A i \in 1 .. k : s[i] = Overflows(k)[i]
      /\ s[k + 1] = "overflow"
  BY <1>1, <1>2, AppendIs
<1>4. \A i \in 1 .. k + 1 : s[i] = t[i]
  BY <1>3 DEF Overflows
<1> HIDE DEF s, t
<1>5. s = t
  BY <1>2, <1>3, <1>4, SeqEqual DEF t
<1> QED
  BY <1>2, <1>5 DEF s, t

LEMMA CodeSizeFits ==
  ASSUME NEW l \in Lines, NEW j \in 0 .. Len(l)
  PROVE  CodeSize(l, j) \in 0 .. Len(Code(l)) /\ Len(Code(l)) \in Nat
<1>1. Len(l) \in Nat /\ Coded(l) \subseteq 1 .. Len(l)
  BY LineIs DEF Lines, Coded
<1>2. CodedBy(l, Len(l)) = Coded(l) /\ CodedBy(l, j) \in SUBSET Coded(l)
  BY <1>1 DEF CodedBy
<1>3. IsFiniteSet(Coded(l)) /\ CodeSize(l, j) \in Nat /\ CodeSize(l, Len(l)) \in Nat
  BY CodedFinite
<1>4. CodeSize(l, j) <= CodeSize(l, Len(l))
  BY <1>2, <1>3, FS_Subset DEF CodeSize
<1> QED
  BY <1>3, <1>4, CodeIs

LEMMA BufferedIs ==
  ASSUME NEW l \in Lines, NEW n \in 0 .. Len(Code(l))
  PROVE  /\ Buffered(l, n) \in Seq(Char)
         /\ Len(Buffered(l, n)) = n - (n \div B) * B
         /\ \A i \in 1 .. Len(Buffered(l, n)) : Buffered(l, n)[i] = Code(l)[(n \div B) * B + i]
<1> DEFINE c == Code(l)
           m == Len(c)
           a == (n \div B) * B
           s == Buffered(l, n)
<1>1. c \in Seq(Char) /\ m \in Nat /\ n \in Nat /\ n <= m /\ \A i \in 1 .. m : c[i] \in Char
  BY CodeIs
<1>2. a \in Nat /\ a <= n
  BY <1>1, DivNext
<1>3. s = SubSeq(c, a + 1, n)
  BY DEF Buffered
<1> HIDE DEF c, m, a, s
<1>4. s = [i \in 1 .. (n - a) |-> c[a + i]]
  <2>1. /\ a + 1 \in Nat /\ n \in Nat /\ (n - (a + 1)) + 1 = n - a
        /\ \A i \in 1 .. (n - a) : (i + (a + 1)) - 1 = a + i
    BY <1>1, <1>2
  <2>2. SubSeq(c, a + 1, n) = [i \in 1 .. (n - a) |-> c[a + i]]
    BY <1>1, <1>2, <2>1
  <2> QED
    BY <1>3, <2>2
<1>5. \A i \in 1 .. (n - a) : c[a + i] \in Char
  <2>1. \A i \in 1 .. (n - a) : a + i \in 1 .. m
    BY <1>1, <1>2
  <2> QED
    BY <1>1, <2>1
<1>6. n - a \in Nat
  BY <1>1, <1>2
<1>7. s \in Seq(Char) /\ Len(s) = n - a
  BY <1>4, <1>5, <1>6
<1> QED
  BY <1>4, <1>7 DEF s, a, c

LEMMA BufferedNext ==
  ASSUME NEW l \in Lines, NEW n \in Nat, n + 1 <= Len(Code(l))
  PROVE  Buffered(l, n + 1) = IF Len(Buffered(l, n)) >= B - 1 THEN <<>>
                              ELSE Append(Buffered(l, n), Code(l)[n + 1])
<1> DEFINE c == Code(l)
           a == (n \div B) * B
           s == Buffered(l, n)
           t == Buffered(l, n + 1)
<1>1. c \in Seq(Char) /\ Len(c) \in Nat /\ n \in 0 .. Len(c) /\ n + 1 \in 0 .. Len(c)
      /\ n + 1 \in 1 .. Len(c) /\ c[n + 1] \in Char
  BY CodeIs
<1>2. /\ s \in Seq(Char) /\ Len(s) = n - a /\ \A i \in 1 .. Len(s) : s[i] = c[a + i]
      /\ t \in Seq(Char)
  BY <1>1, BufferedIs
<1>3. CASE Len(s) >= B - 1
  <2>1. ((n + 1) \div B) * B = n + 1
    BY <1>2, <1>3, DivNext
  <2>2. Len(t) = (n + 1) - (n + 1)
    BY <1>1, <2>1, BufferedIs
  <2>3. t = <<>>
    <3> HIDE DEF t, s, a, c
    <3>1. Len(t) = 0
      BY <2>2
    <3> QED
      BY <1>2, <3>1
  <2> QED
    BY <1>3, <2>3
<1>4. CASE ~(Len(s) >= B - 1)
  <2>1. ((n + 1) \div B) * B = a /\ a \in Nat /\ a <= n
    BY <1>2, <1>4, DivNext
  <2>2. Len(t) = (n + 1) - a /\ \A i \in 1 .. Len(t) : t[i] = c[a + i]
    BY <1>1, <2>1, BufferedIs
  <2> DEFINE u == Append(s, c[n + 1])
  <2>3. /\ u \in Seq(Char) /\ Len(u) = Len(s) + 1
        /\ \A i \in 1 .. Len(s) : u[i] = s[i]
        /\ u[Len(s) + 1] = c[n + 1]
    BY <1>1, <1>2, AppendIs
  <2>4. t = u
    <3> HIDE DEF t, u, s, a, c
    <3>1. Len(t) = (n - a) + 1 /\ Len(u) = (n - a) + 1 /\ n - a \in Nat
      BY <1>2, <2>1, <2>2, <2>3
    <3>2. ASSUME NEW i \in 1 .. (n - a) + 1 PROVE t[i] = u[i]
      <4>1. t[i] = c[a + i]
        BY <2>2, <3>1
      <4>2. CASE i \in 1 .. (n - a)
        BY <1>2, <2>3, <4>1, <4>2
      <4>3. CASE i \notin 1 .. (n - a)
        <5>1. i = (n - a) + 1 /\ a + i = n + 1
          BY <2>1, <3>1, <4>3
        <5> QED
          BY <1>2, <2>3, <4>1, <5>1
      <4> QED
        BY <4>2, <4>3
    <3> QED
      BY <1>2, <2>3, <3>1, <3>2, SeqEqual
  <2> QED
    BY <1>4, <2>4
<1> QED
  BY <1>3, <1>4

LEMMA AppendBehind ==
  ASSUME NEW g \in Seq(Out), NEW o \in Seq(Out), NEW s \in Out
  PROVE  Append(g \o o, s) = g \o (o \o <<s>>) /\ o \o <<s>> = Append(o, s)
<1>1. o \o <<s>> = Append(o, s) /\ Append(g \o o, s) = (g \o o) \o <<s>> /\ <<s>> \in Seq(Out)
  OBVIOUS
<1> QED
  BY <1>1, ConcatAssociative

(* The main loop after the first j characters of a line.                   *)
Within(l, g, j) ==
  At(Buffered(l, CodeSize(l, j)), CommentAfter(l)[j], g \o Overflows(CodeSize(l, j) \div B))

LEMMA WithinType ==
  ASSUME NEW l \in Lines, NEW g \in Seq(Out), NEW j \in 0 .. Len(l)
  PROVE  /\ Within(l, g, j) \in Reader
         /\ g \o Overflows(CodeSize(l, j) \div B) \in Seq(Out)
<1>1. CodeSize(l, j) \in 0 .. Len(Code(l)) /\ CodeSize(l, j) \in Nat
  BY CodeSizeFits, CodedFinite
<1>2. Buffered(l, CodeSize(l, j)) \in Seq(Char)
  BY <1>1, BufferedIs
<1>3. CommentAfter(l)[j] \in {"none", "(", ";"}
  BY CommentAfterIs DEF Comments
<1>4. g \o Overflows(CodeSize(l, j) \div B) \in Seq(Out)
  <2>1. Overflows(CodeSize(l, j) \div B) \in Seq(Out)
    BY <1>1, DivNext, OverflowsIs
  <2> QED
    BY <2>1
<1> QED
  BY <1>2, <1>3, <1>4 DEF Within, At, Reader

LEMMA WithinNext ==
  ASSUME NEW l \in Lines, NEW g \in Seq(Out), NEW j \in 1 .. Len(l)
  PROVE  Within(l, g, j) = Advance(Within(l, g, j - 1), l[j])
<1> DEFINE c == l[j]
           n == CodeSize(l, j - 1)
           d == CommentAfter(l)[j - 1]
           s == Buffered(l, n)
           h == g \o Overflows(n \div B)
<1>1. /\ Len(l) \in Nat /\ j \in 0 .. Len(l) /\ j - 1 \in 0 .. Len(l)
      /\ c \notin LineEnds
  BY LineIs DEF Lines
<1>2. /\ Within(l, g, j - 1) = At(s, d, h) /\ Within(l, g, j - 1) \in Reader
      /\ h \in Seq(Out) /\ n \in Nat /\ n \in 0 .. Len(Code(l))
  BY <1>1, WithinType, CodedFinite, CodeSizeFits DEF Within
<1>3. /\ d \in Comments /\ CommentAfter(l)[j] = CommentFrom(d, c)
      /\ CodeSize(l, j) = IF j \in Coded(l) THEN n + 1 ELSE n
  BY <1>1, CommentAfterIs, CodeSizeIs
<1>4. j \in Coded(l) <=> d = "none" /\ c \notin {" ", "/", "(", ";", "?"}
  BY DEF Coded
<1> DEFINE w == At(s, d, h)
<1>5. w.line = s /\ w.comment = d /\ w.log = h
  BY DEF At
<1> HIDE DEF c, n, d, s, h, w
<1>6. CASE j \notin Coded(l)
  <2>1. Within(l, g, j) = At(s, CommentFrom(d, c), h)
    BY <1>3, <1>6 DEF Within, s, h
  <2>2. CASE c = "?"
    <3>1. CommentFrom(d, c) = d
      BY <2>2 DEF CommentFrom
    <3> QED
      BY <1>2, <2>1, <2>2, <3>1 DEF Advance, c
  <2>3. CASE c # "?"
    <3>1. d # "none" \/ c \in {" ", "/", "(", ";"}
      BY <1>4, <1>6, <2>3
    <3>2. CommentFrom(d, c) = CASE d = "(" /\ c = ")" -> "none"
                                [] d = "none" /\ c \in {"(", ";"} -> c
                                [] OTHER -> d
      BY <1>3 DEF CommentFrom, Comments
    <3>3. Advance(w, c) = At(s, CommentFrom(d, c), h)
      BY <1>1, <1>5, <2>3, <3>1, <3>2 DEF Advance
    <3> QED
      BY <1>2, <2>1, <3>3 DEF c, w
  <2> QED
    BY <2>2, <2>3
<1>7. CASE j \in Coded(l)
  <2>1. d = "none" /\ c \notin {" ", "/", "(", ";", "?"} /\ CommentFrom(d, c) = d
    BY <1>4, <1>7 DEF CommentFrom
  <2>2. CodeSize(l, j) = n + 1 /\ n + 1 <= Len(Code(l)) /\ Code(l)[n + 1] = Upcase(c)
    <3>1. CodeSize(l, j) = n + 1
      BY <1>3, <1>7
    <3>2. CodeSize(l, j) \in 0 .. Len(Code(l))
      BY <1>1, CodeSizeFits
    <3>3. Code(l)[CodeSize(l, j)] = Upcase(c)
      BY <1>7, CodeIs DEF c
    <3> QED
      BY <1>2, <3>1, <3>2, <3>3
  <2>3. Within(l, g, j) = At(Buffered(l, n + 1), d, g \o Overflows((n + 1) \div B))
    BY <1>3, <2>1, <2>2 DEF Within
  <2>4. Len(s) = n - (n \div B) * B
    BY <1>2, BufferedIs DEF s
  <2>5. CASE Len(s) >= B - 1
    <3>1. Buffered(l, n + 1) = <<>>
      BY <1>2, <2>2, <2>5, BufferedNext DEF s
    <3>2. (n + 1) \div B = (n \div B) + 1 /\ n \div B \in Nat
      BY <1>2, <2>4, <2>5, DivNext
    <3>3. g \o Overflows((n + 1) \div B) = Append(h, "overflow")
      <4>1. /\ Overflows(n \div B) \in Seq(Out)
            /\ Overflows((n + 1) \div B) = Append(Overflows(n \div B), "overflow")
        BY <3>2, OverflowsIs
      <4>2. "overflow" \in Out
        BY DEF Out
      <4> DEFINE o == Overflows(n \div B)
      <4>3. h = g \o o
        BY DEF h
      <4>4. o \in Seq(Out) /\ Overflows((n + 1) \div B) = Append(o, "overflow")
        BY <4>1
      <4> HIDE DEF o
      <4>5. /\ Append(g \o o, "overflow") = g \o (o \o <<"overflow">>)
            /\ o \o <<"overflow">> = Append(o, "overflow")
        BY <4>2, <4>4, AppendBehind
      <4> QED
        BY <4>3, <4>4, <4>5, Zenon
    <3>4. Advance(w, c) = At(<<>>, d, Append(h, "overflow"))
      BY <1>1, <1>5, <2>1, <2>5 DEF Advance, B
    <3> QED
      BY <1>2, <2>3, <3>1, <3>3, <3>4 DEF c, w
  <2>6. CASE ~(Len(s) >= B - 1)
    <3>1. Buffered(l, n + 1) = Append(s, Upcase(c))
      BY <1>2, <2>2, <2>6, BufferedNext DEF s
    <3>2. (n + 1) \div B = n \div B
      BY <1>2, <2>4, <2>6, DivNext
    <3>3. Advance(w, c) = At(Append(s, Upcase(c)), d, h)
      BY <1>1, <1>5, <2>1, <2>6 DEF Advance, B
    <3> QED
      BY <1>2, <2>3, <3>1, <3>2, <3>3 DEF c, w, h
  <2> QED
    BY <2>5, <2>6
<1> QED
  BY <1>6, <1>7

LEMMA OutcomeIs ==
  ASSUME NEW l \in Lines
  PROVE  /\ Outcome(l) = Overflows(Len(Code(l)) \div B) \o <<Buffered(l, Len(Code(l)))>>
         /\ Outcome(l) \in Seq(Out)
<1> DEFINE n == Len(Code(l))
<1>1. n \in Nat /\ n \in 0 .. n
  BY CodeIs
<1>2. Outcome(l) = Overflows(n \div B) \o <<Buffered(l, n)>>
  BY DEF Outcome, Overflows, Buffered, B
<1>3. Overflows(n \div B) \in Seq(Out)
  BY <1>1, DivNext, OverflowsIs
<1>4. Buffered(l, n) \in Out
  BY <1>1, BufferedIs DEF Out
<1> HIDE DEF n
<1>5. <<Buffered(l, n)>> \in Seq(Out)
  BY <1>4
<1> QED
  BY <1>2, <1>3, <1>5 DEF n

(* Reading a whole line adds its outcome.                                  *)
LEMMA LineLeads ==
  ASSUME NEW l \in Lines, NEW g \in Seq(Out)
  PROVE  Leads(At(<<>>, "none", g), Append(l, "\n"), At(<<>>, "none", g \o Outcome(l)))
<1> DEFINE n == Len(l)
           p == Append(l, "\n")
           e == At(<<>>, "none", g \o Outcome(l))
           f == [k \in 0 .. (n + 1) |-> IF k <= n THEN Within(l, g, k) ELSE e]
           m == Len(Code(l))
<1>1. /\ n \in Nat /\ Len(p) = n + 1 /\ p[n + 1] = "\n" /\ \A i \in 1 .. n : p[i] = l[i]
  BY LineIs DEF Lines
<1>2. n \in 0 .. n /\ 0 \in 0 .. n
  BY <1>1
<1>3. Within(l, g, 0) = At(<<>>, "none", g)
  <2>1. CodeSize(l, 0) = 0 /\ CommentAfter(l)[0] = "none"
    BY CodeSizeIs, CommentAfterIs
  <2>2. 0 \div B = 0
    <3>1. 0 \in 0 .. B - 1 /\ 0 = 0 * B + 0
      BY StreamingAssumption DEF B
    <3> QED
      BY <3>1, DivIs
  <2>3. Buffered(l, 0) = <<>>
    <3>1. 0 \in 0 .. m
      BY <1>2, <2>1, CodeSizeFits
    <3>2. Buffered(l, 0) \in Seq(Char) /\ Len(Buffered(l, 0)) = 0 - 0 * B
      BY <2>2, <3>1, BufferedIs
    <3>3. 0 - 0 * B = 0
      BY StreamingAssumption DEF B
    <3> QED
      BY <3>2, <3>3
  <2>4. g \o Overflows(0) = g
    <3>1. Overflows(0) = <<>>
      BY DEF Overflows
    <3> QED
      BY <3>1
  <2> QED
    BY <2>1, <2>2, <2>3, <2>4 DEF Within
<1>4. Advance(Within(l, g, n), "\n") = e
  <2> DEFINE s == Buffered(l, m)
             o == Overflows(m \div B)
             h == g \o o
             w == At(s, CommentAfter(l)[n], h)
  <2>1. Within(l, g, n) = w
    BY CodeIs DEF Within
  <2>2. w.line = s /\ w.log = h
    BY DEF At
  <2>3. o \in Seq(Out) /\ s \in Out /\ Outcome(l) = o \o <<s>>
    <3>1. m \in Nat /\ m \in 0 .. m
      BY CodeIs
    <3> QED
      BY <3>1, OutcomeIs, DivNext, OverflowsIs, BufferedIs DEF Out
  <2> HIDE DEF s, o, w
  <2>4. Append(h, s) = g \o Outcome(l)
    BY <2>3, AppendBehind
  <2>5. Advance(w, "\n") = At(<<>>, "none", Append(h, s))
    BY <2>2 DEF Advance, LineEnds
  <2> QED
    BY <2>1, <2>4, <2>5
<1>5. e \in Reader
  <2>1. g \o Outcome(l) \in Seq(Out)
    <3>1. Outcome(l) \in Seq(Out)
      BY OutcomeIs
    <3> HIDE DEF n, p, e, m
    <3> QED
      BY <3>1
  <2>2. <<>> \in Seq(Char)
    OBVIOUS
  <2> HIDE DEF e
  <2> QED
    BY <2>1, <2>2 DEF e, At, Reader
<1>6. \A k \in 0 .. n : Within(l, g, k) \in Reader
  BY WithinType
<1>7. \A k \in 1 .. n : Within(l, g, k) = Advance(Within(l, g, k - 1), l[k])
  BY WithinNext
<1> HIDE DEF n, p, e
<1>8. f \in [0 .. (n + 1) -> Reader]
  <2>1. ASSUME NEW k \in 0 .. (n + 1)
        PROVE  (IF k <= n THEN Within(l, g, k) ELSE e) \in Reader
    <3>1. k <= n => k \in 0 .. n
      BY <1>1
    <3> QED
      BY <1>5, <1>6, <3>1
  <2> QED
    BY <2>1
<1>9. f[0] = At(<<>>, "none", g) /\ f[n + 1] = e
  <2>1. 0 \in 0 .. (n + 1) /\ n + 1 \in 0 .. (n + 1) /\ 0 <= n /\ ~(n + 1 <= n)
    BY <1>1
  <2> QED
    BY <1>3, <2>1
<1>10. ASSUME NEW i \in 1 .. (n + 1) PROVE f[i] = Advance(f[i - 1], p[i])
  <2>1. i \in 0 .. (n + 1) /\ i - 1 \in 0 .. (n + 1) /\ i - 1 <= n
    BY <1>1
  <2>2. f[i - 1] = Within(l, g, i - 1)
    BY <2>1
  <2>3. CASE i \in 1 .. n
    <3>1. f[i] = Within(l, g, i)
      BY <2>1, <2>3
    <3> QED
      BY <1>1, <1>7, <2>2, <2>3, <3>1
  <2>4. CASE i \notin 1 .. n
    <3>1. i = n + 1 /\ i - 1 = n
      BY <1>1, <2>4
    <3> QED
      BY <1>1, <1>4, <1>9, <2>2, <3>1
  <2> QED
    BY <2>3, <2>4
<1>11. Reads(f, At(<<>>, "none", g), p, e)
  <2> HIDE DEF f
  <2> QED
    BY <1>1, <1>8, <1>9, <1>10 DEF Reads
<1> QED
  BY <1>11 DEF Leads, p, e

-----------------------------------------------------------------------------
(* Grbl's log becomes the outcomes of the lines sent.                      *)

(* A line read to its end counts as executed.                              *)
Now == IF at = "read" THEN At(line, comment, log) ELSE At(<<>>, comment, Append(log, line))
Done == At(<<>>, "none", Outcomes)

TailInv ==
  /\ sent \in Seq(Lines) /\ comment \in Comments
  /\ \A i \in 1 .. Len(ring) : ring[i] # "?"
  /\ at # "read" => comment = "none"
  /\ host = "wake" => comment = "none" /\ sent = <<>>
  /\ ~lost /\ host # "wake" => Leads(Now, Pipe, Done)

LEMMA NowIs ==
  ASSUME TypeInv, comment \in Comments
  PROVE  Now \in Reader /\ log \in Seq(Out) /\ line \in Seq(Char)
<1>1. line \in Seq(Char) /\ log \in Seq(Out) /\ <<>> \in Seq(Char)
  BY DEF TypeInv, Out
<1>2. Append(log, line) \in Seq(Out)
  BY <1>1, AppendIs DEF Out
<1> QED
  BY <1>1, <1>2 DEF Now, At, Reader, Comments

LEMMA OutcomesAre ==
  ASSUME sent \in Seq(Lines)
  PROVE  /\ Outcomes \in Seq(Out) /\ (sent = <<>> => Outcomes = <<>>)
         /\ \A l \in Lines : sent' = Append(sent, l) => Outcomes' = Outcomes \o Outcome(l)
<1> DEFINE n == Len(sent)
           S == [i \in DOMAIN sent |-> Outcome(sent[i])]
<1>1. n \in Nat /\ DOMAIN sent = 1 .. n /\ \A i \in 1 .. n : sent[i] \in Lines
  OBVIOUS
<1>2. Outcomes = FlattenSeq(S)
  BY DEF Outcomes
<1>3. S \in Seq(Seq(Out)) /\ Len(S) = n
  <2>1. \A i \in 1 .. n : Outcome(sent[i]) \in Seq(Out)
    BY <1>1, OutcomeIs
  <2> HIDE DEF n
  <2>2. S = [i \in 1 .. n |-> Outcome(sent[i])]
    BY <1>1
  <2> QED
    BY <1>1, <2>1, <2>2
<1>4. FlattenSeq(S) \in Seq(Out)
  <2>1. <<>> \in Seq(Out)
    OBVIOUS
  <2> HIDE DEF S
  <2> QED
    BY <1>3, <2>1, FlattenAppend
<1>5. ASSUME sent = <<>> PROVE Outcomes = <<>>
  <2>1. Len(S) = 0
    BY <1>3, <1>5
  <2> HIDE DEF S
  <2>2. S = <<>>
    BY <1>3, <2>1
  <2> QED
    BY <1>2, <2>1, <2>2 DEF FlattenSeq
<1>6. ASSUME NEW l \in Lines, sent' = Append(sent, l) PROVE Outcomes' = Outcomes \o Outcome(l)
  <2> DEFINE o == Outcome(l)
             U == Append(S, o)
             V == [i \in DOMAIN sent' |-> Outcome(sent'[i])]
  <2>1. Outcomes' = FlattenSeq(V)
    BY DEF Outcomes
  <2>2. o \in Seq(Out) /\ \A i \in 1 .. n : Outcome(sent[i]) \in Seq(Out)
    BY <1>1, OutcomeIs
  <2>3. /\ DOMAIN sent' = 1 .. n + 1 /\ sent'[n + 1] = l
        /\ \A i \in 1 .. n : sent'[i] = sent[i]
    BY <1>1, <1>6
  <2>4. /\ U \in Seq(Seq(Out)) /\ Len(U) = n + 1 /\ U[n + 1] = o
        /\ \A i \in 1 .. n : U[i] = S[i]
    <3> HIDE DEF S, n, o
    <3> QED
      BY <1>3, <2>2, AppendIs
  <2>5. \A i \in 1 .. n : S[i] = Outcome(sent[i])
    BY <1>1
  <2> HIDE DEF S, U
  <2>6. ASSUME NEW i \in 1 .. n + 1 PROVE V[i] = U[i]
    <3>1. V[i] = Outcome(sent'[i])
      BY <2>3
    <3>2. CASE i \in 1 .. n
      BY <2>3, <2>4, <2>5, <3>1, <3>2
    <3>3. CASE i \notin 1 .. n
      <4>1. i = n + 1
        BY <1>1, <3>3
      <4> QED
        BY <2>3, <2>4, <3>1, <4>1
    <3> QED
      BY <3>2, <3>3
  <2>7. V = [i \in 1 .. n + 1 |-> V[i]]
    BY <2>3
  <2>8. U = [i \in 1 .. n + 1 |-> U[i]]
    BY <2>4
  <2>9. V = U
    <3> HIDE DEF V
    <3> QED
      BY <2>6, <2>7, <2>8
  <2> HIDE DEF V, o
  <2>10. FlattenSeq(Append(S, o)) = FlattenSeq(S) \o o
    BY <1>3, <2>2, FlattenAppend
  <2> QED
    BY <1>2, <2>1, <2>9, <2>10 DEF U, o
<1> QED
  BY <1>2, <1>4, <1>5, <1>6

LEMMA TailStart == Init => TailInv
  BY DEF Init, TailInv, Comments

(* A step that neither moves bytes nor changes what is read of them.       *)
LEMMA TailStays ==
  ASSUME TailInv, UNCHANGED <<sent, comment, ring, wire, lost>>, Now' = Now,
         host' = "wake" <=> host = "wake", at' # "read" => at # "read"
  PROVE  TailInv'
<1>1. Pipe' = Pipe /\ Done' = Done
  BY DEF Pipe, Done, Outcomes
<1> QED
  BY <1>1 DEF TailInv

LEMMA TailFlush == Inv /\ TailInv /\ FlushInput => TailInv'
<1> SUFFICES ASSUME Inv, TailInv, FlushInput PROVE TailInv'
  OBVIOUS
<1>1. /\ host = "wake" /\ wire = <<>> /\ ring = <<>> /\ at = "read" /\ log' = <<>>
      /\ UNCHANGED <<at, line, comment, wire, ring, sent, lost>> /\ host' = "next"
  BY DEF FlushInput, grbl
<1>2. line = <<>> /\ comment = "none" /\ sent = <<>>
  BY <1>1 DEF Inv, WakeInv, TailInv
<1>3. Pipe' = <<>>
  BY <1>1 DEF Pipe
<1>4. sent \in Seq(Lines)
  BY DEF TailInv
<1>5. Outcomes' = <<>>
  <2>1. Outcomes = <<>>
    BY <1>2, <1>4, OutcomesAre
  <2> QED
    BY <1>1, <2>1 DEF Outcomes
<1>6. Now' = At(<<>>, "none", <<>>) /\ Done' = At(<<>>, "none", <<>>)
  BY <1>1, <1>2, <1>5 DEF Now, Done
<1>7. At(<<>>, "none", <<>>) \in Reader
  <2>1. <<>> \in Seq(Char) /\ <<>> \in Seq(Out)
    OBVIOUS
  <2> QED
    BY <2>1 DEF At, Reader
<1>8. Leads(Now', Pipe', Done')
  BY <1>3, <1>6, <1>7, LeadsNowhere
<1> QED
  BY <1>1, <1>8 DEF TailInv

LEMMA TailWrite ==
  ASSUME Inv, TailInv, NEW l \in Lines, Write(l), host # "wake", host' # "wake",
         UNCHANGED <<ring, at, line, comment, log, lost>>
  PROVE  TailInv'
<1>1. TypeInv /\ sent \in Seq(Lines) /\ comment \in Comments
  BY DEF Inv, TailInv
<1>2. Pipe' = Pipe \o Append(l, "\n") /\ Pipe \in Seq(Char) /\ Append(l, "\n") \in Seq(Char)
  BY <1>1, WriteIs, PipeIs, LineIs DEF Lines
<1>3. sent' = Append(sent, l)
  BY DEF Write
<1>4. Outcomes' = Outcomes \o Outcome(l) /\ Outcomes \in Seq(Out)
  BY <1>1, <1>3, OutcomesAre
<1>5. Now' = Now
  BY DEF Now
<1>6. ASSUME ~lost PROVE Leads(Now', Pipe', Done')
  <2>1. Leads(Now, Pipe, Done)
    BY <1>6 DEF TailInv
  <2>2. Leads(Done, Append(l, "\n"), Done')
    BY <1>4, LineLeads DEF Done
  <2>3. Leads(Now, Pipe \o Append(l, "\n"), Done')
    BY <1>2, <2>1, <2>2, LeadsBoth
  <2> QED
    BY <1>2, <1>5, <2>3
<1>7. sent' \in Seq(Lines)
  BY <1>1, <1>3
<1> QED
  BY <1>6, <1>7 DEF TailInv

LEMMA TailReceive == Inv /\ TailInv /\ Receive => TailInv'
<1> SUFFICES ASSUME Inv, TailInv, Receive PROVE TailInv'
  OBVIOUS
<1>1. /\ wire # <<>> /\ wire' = Tail(wire)
      /\ UNCHANGED <<host, at, line, comment, sent, log>>
  BY DEF Receive, script
<1>2. TypeInv /\ ring \in Seq(Char) /\ wire \in Seq(Char)
  BY DEF Inv, TypeInv
<1>3. Now' = Now /\ Done' = Done
  BY <1>1 DEF Now, Done, Outcomes
<1>4. CASE Head(wire) = "?"
  <2>1. ring' = ring /\ lost' = lost
    BY <1>4 DEF Receive
  <2>2. /\ Without(Pipe, Pipe', Len(ring)) /\ Pipe[Len(ring) + 1] = "?"
        /\ Pipe \in Seq(Char) /\ Pipe' \in Seq(Char)
    <3>1. Pipe' = ring \o Tail(wire) /\ Pipe \in Seq(Char)
      BY <1>1, <1>2, <2>1, PipeIs DEF Pipe
    <3> QED
      BY <1>1, <1>2, <1>4, <3>1, Dropped DEF Pipe
  <2>3. ASSUME ~lost, host # "wake" PROVE Leads(Now, Pipe', Done)
    <3>1. Leads(Now, Pipe, Done)
      BY <2>3 DEF TailInv
    <3> QED
      BY <2>2, <3>1, LeadsWithout
  <2> QED
    BY <1>1, <1>3, <2>1, <2>3 DEF TailInv
<1>5. CASE Head(wire) # "?" /\ Len(ring) < RxBufferSize - 1
  <2>1. ring' = Append(ring, Head(wire)) /\ lost' = lost
    BY <1>5 DEF Receive
  <2>2. Pipe' = Pipe
    BY <1>1, <1>2, <2>1, Moved DEF Pipe
  <2>3. \A i \in 1 .. Len(ring') : ring'[i] # "?"
    <3>1. Head(wire) \in Char
      BY <1>1, <1>2
    <3>2. /\ Len(ring') = Len(ring) + 1 /\ Len(ring) \in Nat
          /\ \A i \in 1 .. Len(ring) : ring'[i] = ring[i]
          /\ ring'[Len(ring) + 1] = Head(wire)
      BY <1>2, <2>1, <3>1, AppendIs
    <3>3. \A i \in 1 .. Len(ring) : ring[i] # "?"
      BY DEF TailInv
    <3>4. \A i \in 1 .. Len(ring') : i \in 1 .. Len(ring) \/ i = Len(ring) + 1
      BY <3>2
    <3> QED
      BY <1>5, <3>2, <3>3, <3>4
  <2> QED
    BY <1>1, <1>3, <2>1, <2>2, <2>3 DEF TailInv
<1>6. CASE Head(wire) # "?" /\ ~(Len(ring) < RxBufferSize - 1)
  <2>1. ring' = ring /\ lost'
    BY <1>6 DEF Receive
  <2> QED
    BY <1>1, <2>1 DEF TailInv
<1> QED
  BY <1>4, <1>5, <1>6

LEMMA TailRead == Inv /\ TailInv /\ ReadChar => TailInv'
<1> SUFFICES ASSUME Inv, TailInv, ReadChar PROVE TailInv'
  OBVIOUS
<1> DEFINE c == Head(ring)
<1>1. /\ at = "read" /\ ring # <<>> /\ ring' = Tail(ring)
      /\ UNCHANGED <<host, wire, sent, lost>>
  BY DEF ReadChar, script
<1>2. /\ TypeInv /\ ring \in Seq(Char) /\ wire \in Seq(Char) /\ Pipe \in Seq(Char)
      /\ comment \in Comments
  BY PipeIs DEF Inv, TypeInv, TailInv
<1>3. Pipe # <<>> /\ Pipe' = Tail(Pipe) /\ Head(Pipe) = c
  <2>1. Tail(ring) \o wire = Tail(Pipe) /\ Pipe # <<>> /\ Pipe[1] = c
    BY <1>1, <1>2, ReadFrom DEF Pipe
  <2>2. Head(Pipe) = Pipe[1]
    BY <1>2, <2>1, TailIs
  <2> QED
    BY <1>1, <2>1, <2>2 DEF Pipe
<1>4. c # "?" /\ \A i \in 1 .. Len(ring') : ring'[i] # "?"
  <2>1. /\ Len(ring) \in Nat /\ Len(ring) >= 1 /\ c = ring[1]
        /\ Len(ring') = Len(ring) - 1 /\ \A i \in 1 .. Len(ring') : ring'[i] = ring[i + 1]
    BY <1>1, <1>2, TailIs
  <2>2. \A i \in 1 .. Len(ring) : ring[i] # "?"
    BY DEF TailInv
  <2>3. 1 \in 1 .. Len(ring) /\ \A i \in 1 .. Len(ring') : i + 1 \in 1 .. Len(ring)
    BY <2>1
  <2> QED
    BY <2>1, <2>2, <2>3
<1> DEFINE s == At(line, comment, log)
<1>5. Now = s /\ s.line = line /\ s.comment = comment /\ s.log = log
  BY <1>1 DEF Now, At
<1> HIDE DEF c, s
<1>6. /\ Now' = Advance(s, c) /\ comment' \in Comments
      /\ at' # "read" => comment' = "none"
      /\ host = "wake" => comment' = "none"
  <2>0. host = "wake" => c \in LineEnds
    <3>1. Len(Pipe) >= 1 /\ Pipe[1] = c
      BY <1>2, <1>3, TailIs
    <3>2. host = "wake" => \A i \in 1 .. Len(Pipe) : Pipe[i] \in LineEnds
      BY DEF Inv, WakeInv
    <3>3. Len(Pipe) \in Nat
      BY <1>2
    <3> QED
      BY <3>1, <3>2, <3>3
  <2>1. CASE c \in LineEnds
    <3>1. at' = "execute" /\ comment' = "none" /\ line' = line /\ log' = log
      BY <2>1 DEF ReadChar, EndOfLine, LineEnds, c
    <3>2. Now' = At(<<>>, "none", Append(log, line))
      BY <3>1 DEF Now
    <3> QED
      BY <1>4, <1>5, <2>1, <3>1, <3>2 DEF Advance, Comments
  <2>2. CASE c \notin LineEnds /\ Ignored(c)
    <3>1. /\ UNCHANGED <<at, line, log>>
          /\ comment' = CASE comment = "(" /\ c = ")" -> "none"
                          [] comment = "none" /\ c \in {"(", ";"} -> c
                          [] OTHER -> comment
      BY <2>2 DEF ReadChar, Skip, LineEnds, c
    <3>2. Now' = At(line, comment', log)
      BY <1>1, <3>1 DEF Now
    <3> QED
      BY <1>1, <1>2, <1>4, <1>5, <2>0, <2>2, <3>1, <3>2 DEF Advance, Comments, Ignored
  <2>3. CASE c \notin LineEnds /\ ~Ignored(c) /\ Len(line) >= LineBufferSize - 1
    <3>1. /\ line' = <<>> /\ log' = Append(log, "overflow") /\ UNCHANGED <<at, comment>>
      BY <2>3 DEF ReadChar, Overflow, LineEnds, c
    <3>2. Now' = At(<<>>, comment, Append(log, "overflow"))
      BY <1>1, <3>1 DEF Now
    <3> QED
      BY <1>1, <1>2, <1>4, <1>5, <2>0, <2>3, <3>1, <3>2 DEF Advance, Ignored
  <2>4. CASE c \notin LineEnds /\ ~Ignored(c) /\ ~(Len(line) >= LineBufferSize - 1)
    <3>1. /\ line' = Append(line, Upcase(c)) /\ UNCHANGED <<at, comment, log>>
      BY <2>4 DEF ReadChar, Keep, LineEnds, c
    <3>2. Now' = At(Append(line, Upcase(c)), comment, log)
      BY <1>1, <3>1 DEF Now
    <3> QED
      BY <1>1, <1>2, <1>4, <1>5, <2>0, <2>4, <3>1, <3>2 DEF Advance, Ignored
  <2> QED
    BY <2>1, <2>2, <2>3, <2>4
<1>7. Done' = Done
  BY <1>1 DEF Done, Outcomes
<1>8. ASSUME ~lost, host # "wake" PROVE Leads(Now', Pipe', Done')
  <2>1. Leads(s, Pipe, Done)
    BY <1>5, <1>8 DEF TailInv
  <2> QED
    BY <1>2, <1>3, <1>6, <1>7, <2>1, LeadsOn
<1> QED
  BY <1>1, <1>4, <1>6, <1>8 DEF TailInv

LEMMA TailAnswer == TailInv /\ Answer => TailInv'
<1> SUFFICES ASSUME TailInv, Answer PROVE TailInv'
  OBVIOUS
<1>1. /\ at # "read" /\ at' = "read" /\ line' = <<>> /\ log' = Append(log, line)
      /\ UNCHANGED <<host, wire, ring, comment, sent, lost>>
  BY DEF Answer, script
<1>2. Now' = Now
  BY <1>1 DEF Now
<1> QED
  BY <1>1, <1>2, TailStays

LEMMA TailHolds == Spec => [](Inv /\ TailInv)
<1>1. Inv /\ TailInv /\ [Next]_vars => TailInv'
  <2> SUFFICES ASSUME Inv, TailInv, [Next]_vars PROVE TailInv'
    OBVIOUS
  <2>1. CASE FlushInput
    BY <2>1, TailFlush
  <2>2. CASE SendAndWait
    <3>1. PICK l \in SettingsLines : Write(l)
      BY <2>2 DEF SendAndWait
    <3>2. /\ host = "next" /\ host' = "answer" /\ l \in Lines
          /\ UNCHANGED <<ring, at, line, comment, log, lost>>
      BY <2>2 DEF SendAndWait, grbl, Lines
    <3> QED
      BY <3>1, <3>2, TailWrite
  <2>3. CASE ReadAnswer \/ CountLine \/ ReadWhileFull
    <3>1. /\ UNCHANGED <<sent, comment, line, ring, wire, lost, log, at>>
          /\ host # "wake" /\ host' # "wake"
      BY <2>3 DEF ReadAnswer, CountLine, ReadWhileFull, grbl, history
    <3>2. Now' = Now
      BY <3>1 DEF Now
    <3> QED
      BY <3>1, <3>2, TailStays
  <2>4. CASE SendCounted
    <3>1. /\ Write(block) /\ host = "room" /\ host' = "next"
          /\ UNCHANGED <<ring, at, line, comment, log, lost>>
      BY <2>4 DEF SendCounted, grbl
    <3>2. block \in Lines
      BY <3>1 DEF Inv, TypeInv, Lines
    <3> QED
      BY <3>1, <3>2, TailWrite
  <2>5. CASE Receive
    BY <2>5, TailReceive
  <2>6. CASE Overrun
    <3>1. lost' /\ UNCHANGED <<host, ring, at, line, comment, sent>>
      BY <2>6 DEF Overrun, script, grbl
    <3> QED
      BY <3>1 DEF TailInv
  <2>7. CASE ReadChar
    BY <2>7, TailRead
  <2>8. CASE Store
    <3>1. /\ UNCHANGED <<sent, comment, line, ring, wire, lost, log, host>>
          /\ at = "execute" /\ at' = "store"
      BY <2>8 DEF Store, script
    <3>2. Now' = Now
      BY <3>1 DEF Now
    <3> QED
      BY <3>1, <3>2, TailStays
  <2>9. CASE Answer
    BY <2>9, TailAnswer
  <2>10. CASE Report \/ Finished \/ UNCHANGED vars
    <3>1. UNCHANGED <<sent, comment, line, ring, wire, lost, log, host, at>>
      BY <2>10 DEF Report, Finished, vars, script, grbl, history
    <3>2. Now' = Now
      BY <3>1 DEF Now
    <3> QED
      BY <3>1, <3>2, TailStays
  <2> QED
    BY <2>1, <2>2, <2>3, <2>4, <2>5, <2>6, <2>7, <2>8, <2>9, <2>10 DEF Next
<1> QED
  BY <1>1, TailStart, InvHolds, PTL DEF Spec

(* While no byte is lost, Grbl executes the lines of the file in order,    *)
(* each without its blanks and comments and whatever came before it; of a  *)
(* line too long for the line buffer it executes the end.                  *)
THEOREM TailsTheorem == Spec => []LinesAreTails
<1>1. Inv /\ TailInv => LinesAreTails
  <2> SUFFICES ASSUME Inv, TailInv, ~lost, host # "wake"
               PROVE  IsPrefix(log, Outcomes) /\ (Drained => log = Outcomes)
    BY DEF LinesAreTails
  <2>1. /\ TypeInv /\ Leads(Now, Pipe, Done) /\ sent \in Seq(Lines) /\ comment \in Comments
    BY DEF Inv, TailInv
  <2>2. Now \in Reader /\ log \in Seq(Out) /\ line \in Out /\ Pipe \in Seq(Char)
    BY <2>1, NowIs, PipeIs DEF Out
  <2>3. Outcomes \in Seq(Out) /\ Done.log = Outcomes
    BY <2>1, OutcomesAre DEF Done, At
  <2>4. Extends(Now.log, Outcomes)
    BY <2>1, <2>2, <2>3, LeadsLog
  <2>5. Extends(log, Outcomes)
    <3>1. CASE at = "read"
      <4>1. Now.log = log
        BY <3>1 DEF Now, At
      <4> QED
        BY <2>4, <4>1
    <3>2. CASE at # "read"
      <4> DEFINE g == Append(log, line)
      <4>1. Now.log = g
        BY <3>2 DEF Now, At
      <4>2. /\ Len(g) = Len(log) + 1 /\ Len(log) \in Nat /\ Len(Outcomes) \in Nat
            /\ \A i \in 1 .. Len(log) : g[i] = log[i]
        BY <2>2, <2>3, AppendIs
      <4> HIDE DEF g
      <4>3. /\ Len(g) <= Len(Outcomes) /\ \A i \in 1 .. Len(g) : Outcomes[i] = g[i]
        BY <2>4, <4>1 DEF Extends
      <4>4. \A i \in 1 .. Len(log) : i \in 1 .. Len(g)
        BY <4>2
      <4>5. Len(log) <= Len(Outcomes)
        BY <4>2, <4>3
      <4>6. \A i \in 1 .. Len(log) : Outcomes[i] = log[i]
        BY <4>2, <4>3, <4>4
      <4> QED
        BY <4>5, <4>6 DEF Extends
    <3> QED
      BY <3>1, <3>2
  <2>6. ASSUME Drained PROVE log = Outcomes
    <3>1. at = "read" /\ Pipe = <<>>
      BY <2>6 DEF Drained, Pipe
    <3>2. Now = Done /\ Now.log = log
      BY <2>1, <2>2, <3>1, LeadsNowhere DEF Now, At
    <3> QED
      BY <2>3, <3>2
  <2> QED
    BY <2>2, <2>3, <2>5, <2>6, ExtendsPrefix
<1> QED
  BY <1>1, TailHolds, PTL
=============================================================================
