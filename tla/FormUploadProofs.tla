--------------------------- MODULE FormUploadProofs ---------------------------
(***************************************************************************)
(* Files are saved as they were sent, for every form, every way it is cut  *)
(* into records and every length of the header.                            *)
(*                                                                         *)
(* The argument follows the buffer through the body of the request: while  *)
(* it is being saved it is always a piece of the body that ends where the  *)
(* reading stopped, and the next boundary in it is the one of the part     *)
(* that has to be saved next.                                              *)
(***************************************************************************)
EXTENDS FormUpload, SequenceTheorems, WellFoundedInduction, TLAPS

-------------------------------------------------------------------------------
(* Numbers *)

LEMMA SmallestOfSome ==
    ASSUME NEW S, S \subseteq Nat, S # {}
    PROVE  Min(S) \in S /\ \A y \in S : Min(S) <= y
<1>. DEFINE Less == {p \in Nat \X Nat : p[1] < p[2]}
<1>1. IsWellFoundedOn(Less, Nat)
  BY NatLessThanWellFounded DEF OpToRel
<1>2. PICK m \in S : \A x \in S : ~ (<<x, m>> \in Less)
  <2>. HIDE DEF Less
  <2>. QED  BY <1>1, WFMin
<1>3. ASSUME NEW x \in S  PROVE m <= x
  <2>1. ~ (<<x, m>> \in Less) /\ x \in Nat /\ m \in Nat
    BY <1>2
  <2>2. ~ (x < m)
    BY <2>1
  <2>. QED  BY <2>1, <2>2
<1>4. \E x \in S : \A y \in S : x <= y
  BY <1>3
<1>. QED  BY <1>4 DEF Min

(* Induction, about a set of numbers. *)
LEMMA Induction ==
    ASSUME NEW S, 0 \in S, \A n \in Nat : n \in S => n + 1 \in S
    PROVE  Nat \subseteq S
<1>. DEFINE Others == Nat \ S
<1>. SUFFICES ASSUME Others # {}  PROVE FALSE
  OBVIOUS
<1>1. PICK m \in Others : \A y \in Others : m <= y
  <2>1. Others \subseteq Nat
    OBVIOUS
  <2>. HIDE DEF Others
  <2>. QED  BY <2>1, SmallestOfSome
<1>2. m \in Nat \ {0} /\ m - 1 \in Nat /\ m = (m - 1) + 1 /\ ~ (m <= m - 1)
  OBVIOUS
<1>. QED  BY <1>1, <1>2

(* What is computed by recursion over the places of a sequence exists. *)
LEMMA Recursion ==
    ASSUME NEW V, NEW first \in V, NEW len \in Nat,
           NEW step \in [(1 .. len) \X V -> V]
    PROVE  \E F \in [0 .. len -> V] :
              F[0] = first /\ \A n \in 1 .. len : F[n] = step[<<n, F[n - 1]>>]
<1>. DEFINE Fits(F, m) == /\ F \in [0 .. m -> V] /\ F[0] = first
                          /\ \A n \in 1 .. m : F[n] = step[<<n, F[n - 1]>>]
            D == {m \in Nat : m <= len => \E F : Fits(F, m)}
<1>1. 0 \in D
  <2>. DEFINE F == [n \in 0 .. 0 |-> first]
  <2>1. Fits(F, 0)
    OBVIOUS
  <2>. QED  BY <2>1
<1>2. ASSUME NEW m \in Nat, m \in D  PROVE m + 1 \in D
  <2>. SUFFICES ASSUME m + 1 <= len  PROVE \E F : Fits(F, m + 1)
    OBVIOUS
  <2>1. PICK F : Fits(F, m)
    BY <1>2
  <2>. DEFINE G == [n \in 0 .. m + 1 |->
                       IF n = m + 1 THEN step[<<n, F[m]>>] ELSE F[n]]
  <2>2. step[<<m + 1, F[m]>>] \in V
    BY <2>1
  <2>3. G \in [0 .. m + 1 -> V] /\ G[0] = first
    BY <2>1, <2>2
  <2>4. ASSUME NEW n \in 1 .. m + 1  PROVE G[n] = step[<<n, G[n - 1]>>]
    <3>1. CASE n = m + 1
      BY <3>1
    <3>2. CASE n # m + 1
      <4>1. n \in 1 .. m /\ n - 1 \in 0 .. m /\ n - 1 # m + 1
        BY <3>2
      <4>. QED  BY <2>1, <4>1
    <3>. QED  BY <3>1, <3>2
  <2>. HIDE DEF G
  <2>. QED  BY <2>3, <2>4
<1>3. len \in D
  <2>. HIDE DEF D
  <2>. QED  BY <1>1, <1>2, Induction
<1>. QED  BY <1>3

-------------------------------------------------------------------------------
(* The tokens of a part, and of the first parts *)

HeaderLen(part) == IF part.length = None THEN 3 ELSE 4

LEMMA KindsDiffer ==
    /\ Boundary.kind = "boundary" /\ Closing.kind = "closing"
    /\ Blank.kind = "blank" /\ Crlf.kind = "crlf"
    /\ \A f : Part(f).kind = "part" /\ Part(f).arg = f
    /\ \A n : Length(n).kind = "length"
    /\ \A t \in Content : t.kind \notin {"boundary", "closing", "part"}
BY DEF Boundary, Closing, Blank, Crlf, Part, Length, Token, Content

(* The tokens that may be in the body of these parts. *)
TokensIn(parts) ==
    Content \cup {Boundary, Closing, Blank, Crlf}
    \cup {Part(parts[i].filename) : i \in DOMAIN parts}
    \cup {Length(parts[i].length) : i \in DOMAIN parts}

WellFormed(parts) ==
    /\ parts \in Seq(Range(parts))
    /\ \A i \in DOMAIN parts : parts[i].data \in Seq(Content)

LEMMA RequestsAreWellFormed == \A r \in Requests : WellFormed(r.parts)
BY RequestsAssumption DEF WellFormed

LEMMA PartIs ==
    ASSUME NEW parts, WellFormed(parts), NEW i \in DOMAIN parts
    PROVE  LET part == parts[i]
               t    == PartTokens(part)
               d    == part.data
               h    == HeaderLen(part)
           IN  /\ t \in Seq(TokensIn(parts))
               /\ h \in {3, 4} /\ Len(d) \in Nat /\ Len(t) = h + Len(d) + 1
               /\ t[1] = Boundary /\ t[2] = Part(part.filename) /\ t[h] = Blank
               /\ h = 4 => t[3] = Length(part.length)
               /\ \A j \in 1 .. Len(d) : t[h + j] = d[j]
               /\ t[h + Len(d) + 1] = Crlf
               /\ \A j \in 2 .. Len(t) : t[j].kind # "boundary"
<1>. DEFINE part == parts[i]
            T == TokensIn(parts)
            d == part.data
            h == HeaderLen(part)
            a == <<Boundary, Part(part.filename)>>
            b == IF part.length = None THEN <<>> ELSE <<Length(part.length)>>
            e == a \o b \o <<Blank>>
            t == e \o d \o <<Crlf>>
<1>1. /\ Boundary \in T /\ Blank \in T /\ Crlf \in T /\ Part(part.filename) \in T
      /\ Length(part.length) \in T /\ Content \subseteq T
  BY DEF TokensIn
<1>2. d \in Seq(T)
  <2>1. d \in Seq(Content)
    BY DEF WellFormed
  <2>. HIDE DEF T, d
  <2>. QED  BY <1>1, <2>1, SeqMonotonic
<1>3. e \in Seq(T) /\ Len(e) = h /\ e[1] = Boundary /\ e[2] = Part(part.filename)
      /\ e[h] = Blank /\ (h = 4 => e[3] = Length(part.length)) /\ h \in {3, 4}
  <2>. HIDE DEF T
  <2>1. CASE part.length = None
    BY <1>1, <2>1 DEF HeaderLen
  <2>2. CASE part.length # None
    BY <1>1, <2>2 DEF HeaderLen
  <2>. QED  BY <2>1, <2>2
<1>. HIDE DEF e, d, T, h
<1>4. Len(d) \in Nat /\ \A j \in 1 .. Len(d) : d[j] \in Content
  BY DEF WellFormed, d
<1>5. /\ t \in Seq(T) /\ Len(t) = h + Len(d) + 1
      /\ \A j \in 1 .. h : t[j] = e[j]
      /\ \A j \in 1 .. Len(d) : t[h + j] = d[j]
      /\ t[h + Len(d) + 1] = Crlf
  <2>1. e \o d \in Seq(T) /\ Len(e \o d) = h + Len(d) /\ <<Crlf>> \in Seq(T)
    BY <1>1, <1>2, <1>3
  <2>2. \A j \in 1 .. h : (e \o d)[j] = e[j]
    BY <1>2, <1>3
  <2>3. \A j \in 1 .. Len(d) : (e \o d)[h + j] = d[j]
    BY <1>2, <1>3, <1>4
  <2>. DEFINE ed == e \o d
  <2>. HIDE DEF ed
  <2>4. /\ ed \o <<Crlf>> \in Seq(T) /\ Len(ed \o <<Crlf>>) = Len(ed) + 1
        /\ \A j \in 1 .. Len(ed) : (ed \o <<Crlf>>)[j] = ed[j]
        /\ (ed \o <<Crlf>>)[Len(ed) + 1] = Crlf
    BY <2>1 DEF ed
  <2>. QED  BY <1>3, <1>4, <2>1, <2>2, <2>3, <2>4 DEF ed
<1>6. ASSUME NEW j \in 2 .. Len(t)  PROVE t[j].kind # "boundary"
  <2>1. CASE j \in 2 .. h
    <3>1. t[j] \in {Part(part.filename), Blank, Length(part.length)}
      BY <1>3, <1>5, <2>1
    <3>. QED  BY <3>1, KindsDiffer
  <2>2. CASE j \in h + 1 .. h + Len(d)
    <3>1. j - h \in 1 .. Len(d) /\ j = h + (j - h)
      BY <1>3, <1>4, <2>2
    <3>2. t[j] = d[j - h]
      BY <1>5, <3>1
    <3>. QED  BY <1>4, <3>1, <3>2, KindsDiffer
  <2>3. CASE j = h + Len(d) + 1
    BY <1>5, <2>3, KindsDiffer
  <2>. QED  BY <1>3, <1>4, <1>5, <2>1, <2>2, <2>3
<1>7. t = PartTokens(part)
  <2>1. PartTokens(part) = a \o b \o <<Blank>> \o d \o <<Crlf>>
    BY DEF PartTokens, d
  <2>. QED  BY <2>1 DEF e
<1>8. t[1] = Boundary /\ t[2] = Part(part.filename) /\ t[h] = Blank
      /\ (h = 4 => t[3] = Length(part.length))
  BY <1>3, <1>5
<1>. HIDE DEF t
<1>. QED
  BY <1>3, <1>4, <1>5, <1>6, <1>7, <1>8 DEF d, h, T

(* Where the parts are in the body *)

LEMMA PartsAreNumbered ==
    ASSUME NEW parts, WellFormed(parts)
    PROVE  Len(parts) \in Nat /\ DOMAIN parts = 1 .. Len(parts)
BY DEF WellFormed

LEMMA TokensSteps ==
    ASSUME NEW parts, WellFormed(parts)
    PROVE  /\ Tokens(parts)[0] = <<>>
           /\ \A n \in 0 .. Len(parts) - 1 :
                 Tokens(parts)[n + 1] = Tokens(parts)[n] \o PartTokens(parts[n + 1])
           /\ \A n \in 0 .. Len(parts) : Tokens(parts)[n] \in Seq(TokensIn(parts))
<1>. DEFINE V == Seq(TokensIn(parts))
            len == Len(parts)
            step == [p \in (1 .. len) \X V |-> p[2] \o PartTokens(parts[p[1]])]
<1>0. len \in Nat /\ DOMAIN parts = 1 .. len
  BY PartsAreNumbered
<1>1. \A n \in 1 .. len : PartTokens(parts[n]) \in V
  BY <1>0, PartIs
<1>2. <<>> \in V
  OBVIOUS
<1>3. step \in [(1 .. len) \X V -> V]
  <2>1. \A a, b \in V : a \o b \in V
    OBVIOUS
  <2>. HIDE DEF V, len
  <2>. QED  BY <1>1, <2>1
<1>. HIDE DEF V, len
<1>4. PICK F \in [0 .. len -> V] :
          F[0] = <<>> /\ \A n \in 1 .. len : F[n] = step[<<n, F[n - 1]>>]
  <2>1. len \in Nat
    BY <1>0
  <2>. DEFINE first == <<>>
  <2>2. first \in V
    BY <1>2
  <2>. HIDE DEF step, first
  <2>3. \E F \in [0 .. len -> V] :
            F[0] = first /\ \A n \in 1 .. len : F[n] = step[<<n, F[n - 1]>>]
    BY <1>3, <2>1, <2>2, Recursion
  <2>. QED  BY <2>3 DEF first
<1>5. \A n \in 1 .. len : F[n] = F[n - 1] \o PartTokens(parts[n])
  <2>1. \A n \in 1 .. len : n - 1 \in 0 .. len /\ F[n - 1] \in V
    BY <1>0
  <2>. QED  BY <1>4, <2>1
<1>6. F = [n \in 0 .. len |->
              IF n = 0 THEN <<>> ELSE F[n - 1] \o PartTokens(parts[n])]
  <2>1. \A n \in 0 .. len :
            F[n] = IF n = 0 THEN <<>> ELSE F[n - 1] \o PartTokens(parts[n])
    <3>. TAKE n \in 0 .. len
    <3>1. CASE n = 0
      BY <1>4, <3>1
    <3>2. CASE n # 0
      <4>1. n \in 1 .. len
        BY <1>0, <3>2
      <4>. QED  BY <1>5, <3>2, <4>1
    <3>. QED  BY <3>1, <3>2
  <2>. QED  BY <2>1
<1>. DEFINE T == Tokens(parts)
<1>7. T = [n \in 0 .. len |->
              IF n = 0 THEN <<>> ELSE T[n - 1] \o PartTokens(parts[n])]
  BY <1>6 DEF Tokens, len
<1>. HIDE DEF T
<1>8. T[0] = <<>>
  BY <1>0, <1>7
<1>9. ASSUME NEW n \in 0 .. len - 1
      PROVE  T[n + 1] = T[n] \o PartTokens(parts[n + 1])
  <2>1. n + 1 \in 0 .. len /\ n + 1 # 0 /\ (n + 1) - 1 = n
    BY <1>0
  <2>2. T[n + 1] = T[(n + 1) - 1] \o PartTokens(parts[n + 1])
    BY <1>7, <2>1
  <2>. QED  BY <2>1, <2>2
<1>10. \A n \in 0 .. len : T[n] \in V
  <2>. DEFINE D == {n \in Nat : n <= len => T[n] \in V}
  <2>1. 0 \in D
    BY <1>2, <1>8
  <2>2. ASSUME NEW n \in Nat, n \in D  PROVE n + 1 \in D
    <3>. SUFFICES ASSUME n + 1 <= len  PROVE T[n + 1] \in V
      OBVIOUS
    <3>1. n \in 0 .. len - 1 /\ n <= len /\ n + 1 \in 1 .. len
      BY <1>0
    <3>2. T[n] \in V /\ PartTokens(parts[n + 1]) \in V
      BY <1>1, <2>2, <3>1
    <3>3. \A a, b \in V : a \o b \in V
      BY ConcatProperties DEF V
    <3>. QED  BY <1>9, <3>1, <3>2, <3>3
  <2>3. Nat \subseteq D
    <3>. HIDE DEF D
    <3>. QED  BY <2>1, <2>2, Induction
  <2>. QED  BY <1>0, <2>3
<1>. QED  BY <1>8, <1>9, <1>10 DEF T, V, len

(* The length of a part's data. *)
DataLen(part) == Len(part.data)

LEMMA Places ==
    ASSUME NEW parts, WellFormed(parts)
    PROVE  /\ Start(parts, 0) = 0
           /\ \A n \in 0 .. Len(parts) : Start(parts, n) \in Nat
           /\ \A n \in 0 .. Len(parts) - 1 :
                 Start(parts, n + 1) = Start(parts, n) + HeaderLen(parts[n + 1])
                                       + DataLen(parts[n + 1]) + 1
           /\ \A n \in 1 .. Len(parts) :
                 HeaderLen(parts[n]) \in {3, 4} /\ DataLen(parts[n]) \in Nat
<1>. DEFINE T == TokensIn(parts)
<1>1. ASSUME NEW n \in 0 .. Len(parts) - 1
      PROVE  Start(parts, n + 1) = Start(parts, n) + HeaderLen(parts[n + 1])
                                   + DataLen(parts[n + 1]) + 1
  <2>. DEFINE t == PartTokens(parts[n + 1])  a == Tokens(parts)[n]
  <2>1. n + 1 \in DOMAIN parts /\ n \in 0 .. Len(parts)
    BY PartsAreNumbered
  <2>2. /\ t \in Seq(T)
        /\ HeaderLen(parts[n + 1]) \in {3, 4} /\ Len(parts[n + 1].data) \in Nat
        /\ Len(t) = HeaderLen(parts[n + 1]) + Len(parts[n + 1].data) + 1
    BY <2>1, PartIs
  <2>3. a \in Seq(T) /\ Tokens(parts)[n + 1] = a \o t
    BY <2>1, TokensSteps
  <2>. HIDE DEF t, a, T
  <2>4. Len(a \o t) = Len(a) + Len(t) /\ Len(a) \in Nat
    BY <2>2, <2>3, ConcatProperties, LenProperties
  <2>. QED  BY <2>2, <2>3, <2>4 DEF Start, DataLen, a
<1>2. ASSUME NEW n \in 0 .. Len(parts)  PROVE Start(parts, n) \in Nat
  BY TokensSteps, LenProperties DEF Start
<1>3. ASSUME NEW n \in 1 .. Len(parts)
      PROVE  HeaderLen(parts[n]) \in {3, 4} /\ DataLen(parts[n]) \in Nat
  BY PartsAreNumbered, PartIs DEF DataLen
<1>4. Start(parts, 0) = 0
  <2>1. Tokens(parts)[0] = <<>>
    BY TokensSteps
  <2>. QED  BY <2>1 DEF Start
<1>. QED  BY <1>1, <1>2, <1>3, <1>4

LEMMA PartsFollow ==
    ASSUME NEW parts, WellFormed(parts), NEW n \in 0 .. Len(parts),
           NEW m \in 0 .. n
    PROVE  Start(parts, m) <= Start(parts, n)
<1>. DEFINE D == {k \in Nat : m <= k /\ k <= Len(parts) =>
                                  Start(parts, m) <= Start(parts, k)}
<1>0. Len(parts) \in Nat
  BY PartsAreNumbered
<1>1. 0 \in D
  <2>. SUFFICES ASSUME m = 0  PROVE Start(parts, m) <= Start(parts, 0)
    OBVIOUS
  <2>. QED  BY Places
<1>2. ASSUME NEW k \in Nat, k \in D  PROVE k + 1 \in D
  <2>. SUFFICES ASSUME m <= k + 1, k + 1 <= Len(parts)
                PROVE  Start(parts, m) <= Start(parts, k + 1)
    OBVIOUS
  <2>1. CASE m = k + 1
    BY <1>0, <2>1, Places
  <2>2. CASE m <= k
    <3>1. k \in 0 .. Len(parts) - 1 /\ k \in 0 .. Len(parts) /\ k + 1 \in 1 .. Len(parts)
          /\ m \in 0 .. Len(parts)
      BY <1>0, <2>2
    <3>2. Start(parts, m) <= Start(parts, k)
      BY <1>2, <2>2, <3>1
    <3>3. /\ Start(parts, k + 1) = Start(parts, k) + HeaderLen(parts[k + 1])
                                   + DataLen(parts[k + 1]) + 1
          /\ HeaderLen(parts[k + 1]) \in {3, 4} /\ DataLen(parts[k + 1]) \in Nat
          /\ Start(parts, k) \in Nat /\ Start(parts, m) \in Nat
      BY <3>1, Places
    <3>. QED  BY <3>2, <3>3
  <2>. QED  BY <2>1, <2>2
<1>3. n \in D
  <2>1. Nat \subseteq D
    <3>. HIDE DEF D
    <3>. QED  BY <1>1, <1>2, Induction
  <2>. QED  BY <1>0, <2>1
<1>. QED  BY <1>0, <1>3

LEMMA TokensFollow ==
    ASSUME NEW parts, WellFormed(parts), NEW n \in 0 .. Len(parts),
           NEW m \in 0 .. n, NEW i \in 1 .. Start(parts, m)
    PROVE  Tokens(parts)[n][i] = Tokens(parts)[m][i]
<1>. DEFINE T == TokensIn(parts)
            F == Tokens(parts)
            D == {k \in Nat : m <= k /\ k <= Len(parts) => F[k][i] = F[m][i]}
<1>0. Len(parts) \in Nat /\ i \in Nat
  BY PartsAreNumbered, Places
<1>1. 0 \in D
  OBVIOUS
<1>2. ASSUME NEW k \in Nat, k \in D  PROVE k + 1 \in D
  <2>. SUFFICES ASSUME m <= k + 1, k + 1 <= Len(parts), m # k + 1
                PROVE  F[k + 1][i] = F[m][i]
    OBVIOUS
  <2>1. k \in 0 .. Len(parts) - 1 /\ k \in 0 .. Len(parts) /\ m \in 0 .. k
        /\ k + 1 \in DOMAIN parts
    BY PartsAreNumbered
  <2>. DEFINE t == PartTokens(parts[k + 1])
  <2>2. t \in Seq(T)
    BY <2>1, PartIs
  <2>3. F[k + 1] = F[k] \o t /\ F[k] \in Seq(T)
    BY <2>1, TokensSteps
  <2>4. i \in 1 .. Len(F[k])
    <3>1. Start(parts, m) <= Start(parts, k) /\ Start(parts, k) \in Nat
          /\ Start(parts, m) \in Nat
      BY <2>1, PartsFollow, Places
    <3>. QED  BY <3>1 DEF Start
  <2>5. (F[k] \o t)[i] = F[k][i]
    <3>. HIDE DEF F, t, T
    <3>. QED  BY <2>2, <2>3, <2>4, ConcatProperties, LenProperties
  <2>6. F[k][i] = F[m][i]
    BY <1>2, <2>1
  <2>. HIDE DEF F, t
  <2>. QED  BY <2>3, <2>5, <2>6
<1>3. n \in D
  <2>1. Nat \subseteq D
    <3>. HIDE DEF D
    <3>. QED  BY <1>1, <1>2, Induction
  <2>. QED  BY <1>0, <2>1
<1>. QED  BY <1>0, <1>3

(* Where the tokens of the parts are in the body, and that a line of the
   boundary's kind is only where a part starts. *)
LEMMA Layout ==
    ASSUME NEW r \in Requests
    PROVE  LET parts == r.parts
               N     == Len(parts)
               b     == Body(r)
           IN  /\ b \in Seq(TokensIn(parts))
               /\ Len(b) = Start(parts, N) + 1
               /\ b[Start(parts, N) + 1] = Closing
               /\ \A n \in 0 .. N - 1 :
                     \A j \in 1 .. Len(PartTokens(parts[n + 1])) :
                        b[Start(parts, n) + j] = PartTokens(parts[n + 1])[j]
<1>. DEFINE parts == r.parts
            N == Len(parts)
            F == Tokens(parts)
            T == TokensIn(parts)
            b == F[N] \o <<Closing>>
<1>0. WellFormed(parts)
  BY RequestsAreWellFormed
<1>1. Body(r) = b
  BY DEF Body
<1>. HIDE DEF parts
<1>2. N \in Nat /\ DOMAIN parts = 1 .. N
  BY <1>0, PartsAreNumbered
<1>3. F[N] \in Seq(T) /\ <<Closing>> \in Seq(T) /\ Len(<<Closing>>) = 1
  <2>1. Closing \in T
    BY DEF TokensIn
  <2>2. \A n \in 0 .. N : F[n] \in Seq(T)
    BY <1>0, TokensSteps
  <2>3. F[N] \in Seq(T)
    BY <1>2, <2>2
  <2>. HIDE DEF T
  <2>. QED  BY <2>1, <2>3
<1>4. /\ b \in Seq(T) /\ Len(b) = Len(F[N]) + 1 /\ Len(F[N]) \in Nat
      /\ b[Len(F[N]) + 1] = Closing
      /\ \A i \in 1 .. Len(F[N]) : b[i] = F[N][i]
  <2>. DEFINE f == F[N]
  <2>. HIDE DEF f, T
  <2>1. f \in Seq(T) /\ <<Closing>> \in Seq(T)
    BY <1>3 DEF f
  <2>2. /\ f \o <<Closing>> \in Seq(T) /\ Len(f \o <<Closing>>) = Len(f) + 1
        /\ Len(f) \in Nat /\ (f \o <<Closing>>)[Len(f) + 1] = Closing
        /\ \A i \in 1 .. Len(f) : (f \o <<Closing>>)[i] = f[i]
    BY <2>1
  <2>. QED  BY <2>2 DEF f
<1>5. ASSUME NEW n \in 0 .. N - 1, NEW j \in 1 .. Len(PartTokens(parts[n + 1]))
      PROVE  b[Start(parts, n) + j] = PartTokens(parts[n + 1])[j]
  <2>. DEFINE t == PartTokens(parts[n + 1])
  <2>1. n \in 0 .. N /\ n + 1 \in 0 .. N /\ n + 1 \in DOMAIN parts
    BY <1>2
  <2>2. t \in Seq(T) /\ F[n] \in Seq(T) /\ F[n + 1] = F[n] \o t
    BY <1>0, <2>1, TokensSteps, PartIs
  <2>3. /\ Len(F[n]) \in Nat /\ Len(t) \in Nat /\ Len(F[n] \o t) = Len(F[n]) + Len(t)
        /\ (F[n] \o t)[Len(F[n]) + j] = t[j]
    <3>. HIDE DEF F, T
    <3>1. j \in 1 .. Len(t)
      OBVIOUS
    <3>. HIDE DEF t
    <3>2. Len(F[n]) \in Nat /\ Len(t) \in Nat
      BY <2>2, LenProperties
    <3>3. /\ Len(F[n]) + j \in 1 .. Len(F[n]) + Len(t) /\ ~ (Len(F[n]) + j <= Len(F[n]))
          /\ (Len(F[n]) + j) - Len(F[n]) = j
      BY <3>1, <3>2
    <3>. QED  BY <2>2, <3>2, <3>3, ConcatProperties
  <2>4. Start(parts, n) = Len(F[n]) /\ Start(parts, n + 1) = Len(F[n]) + Len(t)
    BY <2>2, <2>3 DEF Start
  <2>5. Start(parts, n) + j \in 1 .. Start(parts, n + 1)
    <3>1. j \in 1 .. Len(t)
      OBVIOUS
    <3>. HIDE DEF F, t
    <3>. QED  BY <2>3, <2>4, <3>1
  <2>6. F[N][Start(parts, n) + j] = F[n + 1][Start(parts, n) + j]
    BY <1>0, <1>2, <2>1, <2>5, TokensFollow
  <2>7. Start(parts, n) + j \in 1 .. Len(F[N])
    <3>1. Start(parts, n + 1) <= Start(parts, N)
      BY <1>0, <1>2, <2>1, PartsFollow
    <3>2. Start(parts, N) = Len(F[N])
      BY DEF Start
    <3>3. Start(parts, n + 1) \in Nat
      BY <1>0, <2>1, Places
    <3>. QED  BY <1>4, <2>5, <3>1, <3>2, <3>3
  <2>. HIDE DEF F, b, t
  <2>8. b[Start(parts, n) + j] = F[n + 1][Start(parts, n) + j]
    BY <1>4, <2>6, <2>7
  <2>9. F[n + 1][Start(parts, n) + j] = t[j]
    BY <2>2, <2>3, <2>4
  <2>. QED  BY <2>8, <2>9 DEF t
<1>6. Start(parts, N) = Len(F[N])
  BY DEF Start
<1>. HIDE DEF b, F, T
<1>. QED  BY <1>1, <1>4, <1>5, <1>6 DEF T, parts

-------------------------------------------------------------------------------
(* The files among the first parts *)

LEMMA FilesSteps ==
    ASSUME NEW parts, WellFormed(parts)
    PROVE  /\ FilesOf(parts)[0] = <<>>
           /\ \A n \in 0 .. Len(parts) - 1 :
                 FilesOf(parts)[n + 1] = IF IsFile(parts[n + 1])
                                         THEN Append(FilesOf(parts)[n], parts[n + 1])
                                         ELSE FilesOf(parts)[n]
           /\ \A n \in 0 .. Len(parts) : FilesOf(parts)[n] \in Seq(Range(parts))
<1>. DEFINE V == Seq(Range(parts))
            len == Len(parts)
            Step(n, s) == IF IsFile(parts[n]) THEN Append(s, parts[n]) ELSE s
            step == [p \in (1 .. len) \X V |-> Step(p[1], p[2])]
<1>0. len \in Nat /\ DOMAIN parts = 1 .. len
  BY PartsAreNumbered
<1>1. \A n \in 1 .. len : parts[n] \in Range(parts)
  BY <1>0 DEF Range
<1>2. <<>> \in V
  OBVIOUS
<1>3. \A n \in 1 .. len, s \in V : Step(n, s) \in V
  BY <1>1
<1>. HIDE DEF V, len, Step
<1>4. step \in [(1 .. len) \X V -> V]
  BY <1>3
<1>5. PICK F \in [0 .. len -> V] :
          F[0] = <<>> /\ \A n \in 1 .. len : F[n] = step[<<n, F[n - 1]>>]
  <2>1. len \in Nat
    BY <1>0
  <2>. DEFINE first == <<>>
  <2>2. first \in V
    BY <1>2
  <2>. HIDE DEF step, first
  <2>3. \E F \in [0 .. len -> V] :
            F[0] = first /\ \A n \in 1 .. len : F[n] = step[<<n, F[n - 1]>>]
    BY <1>4, <2>1, <2>2, Recursion
  <2>. QED  BY <2>3 DEF first
<1>6. \A n \in 1 .. len : F[n] = Step(n, F[n - 1])
  <2>1. \A n \in 1 .. len : n - 1 \in 0 .. len /\ F[n - 1] \in V
    BY <1>0
  <2>. QED  BY <1>5, <2>1
<1>7. F = [n \in 0 .. len |-> IF n = 0 THEN <<>> ELSE Step(n, F[n - 1])]
  <2>1. ASSUME NEW n \in 0 .. len
        PROVE  F[n] = IF n = 0 THEN <<>> ELSE Step(n, F[n - 1])
    <3>1. CASE n = 0
      BY <1>5, <3>1
    <3>2. CASE n # 0
      <4>1. n \in 1 .. len
        BY <1>0, <3>2
      <4>. QED  BY <1>6, <3>2, <4>1
    <3>. QED  BY <3>1, <3>2
  <2>. QED  BY <2>1
<1>. DEFINE S == FilesOf(parts)
<1>8. S = [n \in 0 .. len |-> IF n = 0 THEN <<>> ELSE Step(n, S[n - 1])]
  BY <1>7 DEF FilesOf, len, Step
<1>. HIDE DEF S
<1>9. S[0] = <<>>
  BY <1>0, <1>8
<1>10. ASSUME NEW n \in 0 .. len - 1  PROVE S[n + 1] = Step(n + 1, S[n])
  <2>1. n + 1 \in 0 .. len /\ n + 1 # 0 /\ (n + 1) - 1 = n
    BY <1>0
  <2>2. S[n + 1] = Step(n + 1, S[(n + 1) - 1])
    BY <1>8, <2>1
  <2>. QED  BY <2>1, <2>2
<1>11. \A n \in 0 .. len : S[n] \in V
  <2>. DEFINE D == {n \in Nat : n <= len => S[n] \in V}
  <2>1. 0 \in D
    BY <1>2, <1>9
  <2>2. ASSUME NEW n \in Nat, n \in D  PROVE n + 1 \in D
    <3>. SUFFICES ASSUME n + 1 <= len  PROVE S[n + 1] \in V
      OBVIOUS
    <3>1. n \in 0 .. len - 1 /\ n <= len /\ n + 1 \in 1 .. len
      BY <1>0
    <3>. QED  BY <1>3, <1>10, <2>2, <3>1
  <2>3. Nat \subseteq D
    <3>. HIDE DEF D
    <3>. QED  BY <2>1, <2>2, Induction
  <2>. QED  BY <1>0, <2>3
<1>. QED  BY <1>9, <1>10, <1>11 DEF S, V, len, Step

(* The first files of all are the files of the first parts. *)
LEMMA FilesFollow ==
    ASSUME NEW parts, WellFormed(parts), NEW n \in 0 .. Len(parts), NEW m \in 0 .. n
    PROVE  /\ Len(FilesOf(parts)[m]) \in Nat /\ Len(FilesOf(parts)[n]) \in Nat
           /\ Len(FilesOf(parts)[m]) <= Len(FilesOf(parts)[n])
           /\ \A j \in 1 .. Len(FilesOf(parts)[m]) :
                 FilesOf(parts)[n][j] = FilesOf(parts)[m][j]
<1>. DEFINE F == FilesOf(parts)
            Extends(k) == /\ Len(F[m]) <= Len(F[k])
                          /\ \A j \in 1 .. Len(F[m]) : F[k][j] = F[m][j]
            D == {k \in Nat : m <= k /\ k <= Len(parts) => Extends(k)}
<1>0. Len(parts) \in Nat /\ DOMAIN parts = 1 .. Len(parts)
  BY PartsAreNumbered
<1>1. \A k \in 0 .. Len(parts) : F[k] \in Seq(Range(parts)) /\ Len(F[k]) \in Nat
  BY FilesSteps, LenProperties
<1>2. 0 \in D
  <2>. SUFFICES ASSUME m = 0  PROVE Extends(0)
    OBVIOUS
  <2>. HIDE DEF F
  <2>. QED  BY <1>0, <1>1
<1>3. ASSUME NEW k \in Nat, k \in D  PROVE k + 1 \in D
  <2>. SUFFICES ASSUME m <= k + 1, k + 1 <= Len(parts)  PROVE Extends(k + 1)
    OBVIOUS
  <2>1. CASE m = k + 1
    <3>1. k + 1 \in 0 .. Len(parts)
      BY <1>0
    <3>. HIDE DEF F
    <3>. QED  BY <1>1, <2>1, <3>1
  <2>2. CASE m # k + 1
    <3>1. /\ k \in 0 .. Len(parts) - 1 /\ k \in 0 .. Len(parts) /\ m <= k
          /\ m \in 0 .. Len(parts) /\ k + 1 \in DOMAIN parts
      BY <1>0, <2>2
    <3>2. F[k + 1] = IF IsFile(parts[k + 1]) THEN Append(F[k], parts[k + 1]) ELSE F[k]
      BY <3>1, FilesSteps
    <3>3. Extends(k)
      BY <1>3, <3>1
    <3>4. F[k] \in Seq(Range(parts)) /\ Len(F[k]) \in Nat /\ Len(F[m]) \in Nat
          /\ parts[k + 1] \in Range(parts)
      BY <1>1, <3>1 DEF Range
    <3>. HIDE DEF F
    <3>5. CASE IsFile(parts[k + 1])
      <4>1. /\ Len(F[k + 1]) = Len(F[k]) + 1
            /\ \A j \in 1 .. Len(F[k]) : F[k + 1][j] = F[k][j]
        BY <3>2, <3>4, <3>5, AppendProperties
      <4>. QED  BY <3>3, <3>4, <4>1
    <3>6. CASE ~ IsFile(parts[k + 1])
      BY <3>2, <3>3, <3>6
    <3>. QED  BY <3>5, <3>6
  <2>. QED  BY <2>1, <2>2
<1>4. n \in D
  <2>1. Nat \subseteq D
    <3>. HIDE DEF D
    <3>. QED  BY <1>2, <1>3, Induction
  <2>. QED  BY <1>0, <2>1
<1>5. Extends(n) /\ m \in 0 .. Len(parts) /\ n \in 0 .. Len(parts)
  BY <1>0, <1>4
<1>. HIDE DEF F
<1>. QED  BY <1>1, <1>5 DEF F

-------------------------------------------------------------------------------
(* Pieces of the body, and what find finds in them *)

(* The tokens of b behind the place p and up to the place r. *)
Piece(b, p, r) == SubSeq(b, p + 1, r)

LEMMA Pieces ==
    ASSUME NEW T, NEW b \in Seq(T), NEW r \in 0 .. Len(b), NEW p \in 0 .. r
    PROVE  /\ Piece(b, p, r) \in Seq(T) /\ Len(Piece(b, p, r)) = r - p
           /\ \A i \in 1 .. r - p : Piece(b, p, r)[i] = b[p + i]
<1>1. \A i \in p + 1 .. r : b[i] \in T
  BY LenProperties, ElementOfSeq
<1>2. p + 1 \in Int /\ r \in Int /\ r - p \in Nat /\ r \in Nat /\ p \in Nat
  BY LenProperties
<1>3. /\ SubSeq(b, p + 1, r) \in Seq(T)
      /\ Len(SubSeq(b, p + 1, r)) = IF p + 1 <= r THEN r - (p + 1) + 1 ELSE 0
      /\ \A i \in 1 .. r - (p + 1) + 1 : SubSeq(b, p + 1, r)[i] = b[(p + 1) + i - 1]
  BY <1>1, <1>2, SubSeqProperties
<1>4. (IF p + 1 <= r THEN r - (p + 1) + 1 ELSE 0) = r - p
  BY <1>2
<1>5. r - (p + 1) + 1 = r - p
  BY <1>2
<1>6. \A i \in 1 .. r - p : (p + 1) + i - 1 = p + i
  BY <1>2
<1>. QED  BY <1>3, <1>4, <1>5, <1>6 DEF Piece

LEMMA PieceOfPiece ==
    ASSUME NEW T, NEW b \in Seq(T), NEW r \in 0 .. Len(b), NEW p \in 0 .. r,
           NEW i \in 0 .. r - p, NEW j \in i .. r - p
    PROVE  SubSeq(Piece(b, p, r), i + 1, j) = Piece(b, p + i, p + j)
<1>. DEFINE s == Piece(b, p, r)
<1>0. r \in Nat /\ p \in Nat /\ i \in Nat /\ j \in Nat /\ Len(b) \in Nat /\ r <= Len(b)
  BY LenProperties
<1>1. s \in Seq(T) /\ Len(s) = r - p /\ \A k \in 1 .. r - p : s[k] = b[p + k]
  BY Pieces
<1>. HIDE DEF s
<1>2. /\ Piece(s, i, j) \in Seq(T) /\ Len(Piece(s, i, j)) = j - i
      /\ \A k \in 1 .. j - i : Piece(s, i, j)[k] = s[i + k]
  <2>1. j \in 0 .. Len(s) /\ i \in 0 .. j
    BY <1>0, <1>1
  <2>. QED  BY <1>1, <2>1, Pieces
<1>3. /\ Piece(b, p + i, p + j) \in Seq(T) /\ Len(Piece(b, p + i, p + j)) = j - i
      /\ \A k \in 1 .. j - i : Piece(b, p + i, p + j)[k] = b[p + i + k]
  <2>1. p + j \in 0 .. Len(b) /\ p + i \in 0 .. p + j /\ (p + j) - (p + i) = j - i
    BY <1>0
  <2>. QED  BY <2>1, Pieces
<1>4. ASSUME NEW k \in 1 .. j - i  PROVE Piece(s, i, j)[k] = Piece(b, p + i, p + j)[k]
  <2>1. i + k \in 1 .. r - p /\ p + (i + k) = p + i + k
    BY <1>0
  <2>. QED  BY <1>1, <1>2, <1>3, <2>1
<1>5. Piece(s, i, j) = Piece(b, p + i, p + j)
  <2>. DEFINE u == Piece(s, i, j)  v == Piece(b, p + i, p + j)
  <2>1. /\ u \in Seq(T) /\ v \in Seq(T) /\ Len(u) = Len(v)
        /\ \A k \in 1 .. Len(u) : u[k] = v[k]
    BY <1>2, <1>3, <1>4
  <2>. HIDE DEF u, v
  <2>2. u = v
    BY <2>1, SeqEqual
  <2>. QED  BY <2>2 DEF u, v
<1>. QED  BY <1>5 DEF Piece, s

LEMMA BehindPiece ==
    ASSUME NEW T, NEW b \in Seq(T), NEW r \in 0 .. Len(b), NEW p \in 0 .. r,
           NEW i \in 0 .. r - p
    PROVE  Behind(Piece(b, p, r), i) = Piece(b, p + i, r)
<1>0. r \in Nat /\ p \in Nat /\ i \in Nat
  BY LenProperties
<1>1. Len(Piece(b, p, r)) = r - p
  BY Pieces
<1>2. r - p \in i .. r - p /\ p + (r - p) = r
  BY <1>0
<1>3. SubSeq(Piece(b, p, r), i + 1, r - p) = Piece(b, p + i, p + (r - p))
  BY <1>2, PieceOfPiece
<1>. QED  BY <1>1, <1>2, <1>3 DEF Behind

LEMMA FindIn ==
    ASSUME NEW T, NEW s \in Seq(T), NEW kind
    PROVE  /\ Find(s, kind) \in 0 .. Len(s)
           /\ Find(s, kind) = 0 => \A i \in 1 .. Len(s) : s[i].kind # kind
           /\ Find(s, kind) # 0 =>
                 /\ s[Find(s, kind)].kind = kind
                 /\ \A i \in 1 .. Find(s, kind) - 1 : s[i].kind # kind
<1>. DEFINE I == {i \in 1 .. Len(s) : s[i].kind = kind}
<1>0. Len(s) \in Nat
  BY LenProperties
<1>1. Find(s, kind) = IF I # {} THEN Min(I) ELSE 0
  BY DEF Find, SelectInSeq
<1>2. CASE I # {}
  <2>1. Min(I) \in I /\ \A y \in I : Min(I) <= y
    <3>1. I \subseteq Nat
      BY <1>0
    <3>. HIDE DEF I
    <3>. QED  BY <1>2, <3>1, SmallestOfSome
  <2>. DEFINE f == Find(s, kind)
  <2>2. f = Min(I)
    BY <1>1, <1>2
  <2>. HIDE DEF f
  <2>3. f \in I /\ \A y \in I : f <= y
    BY <2>1, <2>2
  <2>4. f \in 1 .. Len(s) /\ s[f].kind = kind
    BY <2>3
  <2>5. ASSUME NEW i \in 1 .. f - 1  PROVE s[i].kind # kind
    <3>1. i \in 1 .. Len(s) /\ ~ (f <= i)
      BY <1>0, <2>4
    <3>. QED  BY <2>3, <3>1
  <2>. QED  BY <1>0, <2>4, <2>5 DEF f
<1>3. CASE I = {}
  BY <1>0, <1>1, <1>3
<1>. QED  BY <1>2, <1>3

(* The first token of a kind in a piece, when its place in b is known. *)
LEMMA FirstInPiece ==
    ASSUME NEW T, NEW b \in Seq(T), NEW r \in 0 .. Len(b), NEW p \in 0 .. r, NEW kind,
           NEW q \in p + 1 .. r, b[q].kind = kind,
           \A i \in p + 1 .. q - 1 : b[i].kind # kind
    PROVE  Find(Piece(b, p, r), kind) = q - p
<1>. DEFINE s == Piece(b, p, r)
            f == Find(s, kind)
<1>0. r \in Nat /\ p \in Nat /\ q \in Nat /\ q - p \in 1 .. r - p /\ p + (q - p) = q
  BY LenProperties
<1>1. s \in Seq(T) /\ Len(s) = r - p /\ \A i \in 1 .. r - p : s[i] = b[p + i]
  BY Pieces
<1>2. /\ f \in 0 .. Len(s)
      /\ f = 0 => \A i \in 1 .. Len(s) : s[i].kind # kind
      /\ f # 0 => s[f].kind = kind /\ \A i \in 1 .. f - 1 : s[i].kind # kind
  BY <1>1, FindIn
<1>. HIDE DEF s, f
<1>3. s[q - p].kind = kind
  BY <1>0, <1>1
<1>4. f # 0 /\ f \in 1 .. r - p
  BY <1>0, <1>1, <1>2, <1>3
<1>5. ~ (q - p <= f - 1)
  BY <1>0, <1>2, <1>3, <1>4
<1>6. ~ (p + f <= q - 1)
  <2>. SUFFICES ASSUME p + f <= q - 1  PROVE FALSE
    OBVIOUS
  <2>1. p + f \in p + 1 .. q - 1
    BY <1>0, <1>4
  <2>2. s[f] = b[p + f]
    BY <1>1, <1>4
  <2>. QED  BY <1>2, <1>4, <2>1, <2>2
<1>7. f = q - p
  BY <1>0, <1>4, <1>5, <1>6
<1>. QED  BY <1>7 DEF f, s

LEMMA NoneInPiece ==
    ASSUME NEW T, NEW b \in Seq(T), NEW r \in 0 .. Len(b), NEW p \in 0 .. r, NEW kind,
           \A i \in p + 1 .. r : b[i].kind # kind
    PROVE  Find(Piece(b, p, r), kind) = 0
<1>. DEFINE s == Piece(b, p, r)
            f == Find(s, kind)
<1>0. r \in Nat /\ p \in Nat
  BY LenProperties
<1>1. s \in Seq(T) /\ Len(s) = r - p /\ \A i \in 1 .. r - p : s[i] = b[p + i]
  BY Pieces
<1>2. f \in 0 .. Len(s) /\ (f # 0 => s[f].kind = kind)
  BY <1>1, FindIn
<1>. HIDE DEF s, f
<1>. SUFFICES ASSUME f # 0  PROVE FALSE
  BY DEF f, s
<1>3. f \in 1 .. r - p
  BY <1>0, <1>1, <1>2
<1>4. p + f \in p + 1 .. r /\ s[f] = b[p + f]
  BY <1>0, <1>1, <1>3
<1>. QED  BY <1>2, <1>4

(* A part in the body: its boundary, its header, its data. *)
LEMMA PartInBody ==
    ASSUME NEW r \in Requests, NEW n \in 0 .. Len(r.parts) - 1
    PROVE  LET parts == r.parts
               part  == parts[n + 1]
               b     == Body(r)
               s     == Start(parts, n)
               e     == Start(parts, n + 1)
               h     == HeaderLen(part)
               l     == DataLen(part)
           IN  /\ s \in Nat /\ e \in Nat /\ h \in {3, 4} /\ l \in Nat
               /\ e = s + h + l + 1 /\ Len(b) \in Nat /\ e + 1 <= Len(b)
               /\ b[s + 1].kind = "boundary"
               /\ \A q \in s + 2 .. e : b[q].kind # "boundary"
               /\ b[s + h].kind = "blank"
               /\ \A q \in s + 2 .. s + h - 1 : b[q].kind # "blank"
               /\ b[s + 2].kind = "part" /\ b[s + 2].arg = part.filename
               /\ \A j \in 1 .. l : b[s + h + j] = part.data[j]
               /\ b[e] = Crlf
<1>. DEFINE parts == r.parts
            part == parts[n + 1]
            b == Body(r)
            s == Start(parts, n)
            e == Start(parts, n + 1)
            h == HeaderLen(part)
            l == DataLen(part)
            t == PartTokens(part)
<1>0. WellFormed(parts) /\ Len(parts) \in Nat /\ n \in 0 .. Len(parts) - 1
      /\ n + 1 \in DOMAIN parts /\ n + 1 \in 0 .. Len(parts) /\ n \in 0 .. Len(parts)
      /\ Len(parts) \in 0 .. Len(parts) /\ n + 1 \in 0 .. Len(parts)
      /\ n + 1 \in 1 .. Len(parts)
  <2>1. WellFormed(parts)
    BY RequestsAreWellFormed
  <2>2. Len(parts) \in Nat /\ DOMAIN parts = 1 .. Len(parts)
    BY <2>1, PartsAreNumbered
  <2>. QED  BY <2>1, <2>2
<1>1. /\ s \in Nat /\ e \in Nat /\ h \in {3, 4} /\ l \in Nat /\ e = s + h + l + 1
  BY <1>0, Places
<1>2. /\ Len(t) = h + l + 1
      /\ t[1] = Boundary /\ t[2] = Part(part.filename) /\ t[h] = Blank
      /\ h = 4 => t[3] = Length(part.length)
      /\ \A j \in 1 .. l : t[h + j] = part.data[j]
      /\ t[h + l + 1] = Crlf
      /\ \A j \in 2 .. Len(t) : t[j].kind # "boundary"
  <2>1. WellFormed(parts) /\ n + 1 \in DOMAIN parts /\ l = Len(part.data)
    BY <1>0 DEF DataLen
  <2>. HIDE DEF parts, l
  <2>. QED  BY <2>1, PartIs
<1>3. \A j \in 1 .. Len(t) : b[s + j] = t[j]
  BY <1>0, Layout
<1>4. Len(b) = Start(parts, Len(parts)) + 1 /\ Start(parts, Len(parts)) \in Nat
      /\ e <= Start(parts, Len(parts))
  BY <1>0, Layout, Places, PartsFollow
<1>. HIDE DEF parts, part, b, s, e, h, l, t
<1>5. Len(b) \in Nat /\ e + 1 <= Len(b)
  BY <1>1, <1>4
<1>6. b[s + 1].kind = "boundary"
  BY <1>1, <1>2, <1>3, KindsDiffer
<1>7. ASSUME NEW q \in s + 2 .. e  PROVE b[q].kind # "boundary"
  <2>1. q - s \in 2 .. Len(t) /\ q - s \in 1 .. Len(t) /\ s + (q - s) = q
    BY <1>1, <1>2
  <2>. QED  BY <1>2, <1>3, <2>1
<1>8. b[s + h].kind = "blank"
  <2>1. h \in 1 .. Len(t)
    BY <1>1, <1>2
  <2>. QED  BY <1>2, <1>3, <2>1, KindsDiffer
<1>9. ASSUME NEW q \in s + 2 .. s + h - 1  PROVE b[q].kind # "blank"
  <2>1. CASE q = s + 2
    <3>1. b[q] = Part(part.filename)
      BY <1>1, <1>2, <1>3, <2>1
    <3>. QED  BY <3>1, KindsDiffer
  <2>2. CASE q # s + 2
    <3>1. h = 4 /\ q = s + 3
      BY <1>1, <2>2
    <3>2. b[q] = Length(part.length)
      BY <1>1, <1>2, <1>3, <3>1
    <3>. QED  BY <3>2, KindsDiffer
  <2>. QED  BY <2>1, <2>2
<1>10. b[s + 2].kind = "part" /\ b[s + 2].arg = part.filename
  <2>1. b[s + 2] = Part(part.filename)
    BY <1>1, <1>2, <1>3
  <2>. QED  BY <2>1, KindsDiffer
<1>11. ASSUME NEW j \in 1 .. l  PROVE b[s + h + j] = part.data[j]
  <2>1. h + j \in 1 .. Len(t) /\ s + h + j = s + (h + j)
    BY <1>1, <1>2
  <2>. QED  BY <1>2, <1>3, <2>1
<1>12. b[e] = Crlf
  <2>1. h + l + 1 \in 1 .. Len(t) /\ e = s + (h + l + 1)
    BY <1>1, <1>2
  <2>. QED  BY <1>2, <1>3, <2>1
<1>. QED
  BY <1>1, <1>5, <1>6, <1>7, <1>8, <1>9, <1>10, <1>11, <1>12
     DEF parts, part, b, s, e, h, l

(* What the last file saved may run on to. *)
Rests(part) == part.data \o <<Crlf, Closing>>

LEMMA WholeData ==
    ASSUME NEW r \in Requests, NEW n \in 0 .. Len(r.parts) - 1
    PROVE  LET part == r.parts[n + 1]
               from == Start(r.parts, n) + HeaderLen(part)
           IN  Piece(Body(r), from, from + DataLen(part)) = part.data
<1>. DEFINE part == r.parts[n + 1]
            b == Body(r)
            s == Start(r.parts, n)
            h == HeaderLen(part)
            l == DataLen(part)
            T == TokensIn(r.parts)
<1>1. /\ s \in Nat /\ h \in {3, 4} /\ l \in Nat /\ Len(b) \in Nat
      /\ s + h + l + 2 <= Len(b)
      /\ \A j \in 1 .. l : b[s + h + j] = part.data[j]
  <2>1. /\ s \in Nat /\ h \in {3, 4} /\ l \in Nat /\ Len(b) \in Nat
        /\ Start(r.parts, n + 1) = s + h + l + 1 /\ Start(r.parts, n + 1) + 1 <= Len(b)
        /\ \A j \in 1 .. l : b[s + h + j] = part.data[j]
    BY PartInBody
  <2>. HIDE DEF s, h, l, b
  <2>. QED  BY <2>1
<1>2. b \in Seq(T)
  BY Layout
<1>3. part.data \in Seq(T) /\ l = Len(part.data)
  <2>1. WellFormed(r.parts)
    BY RequestsAreWellFormed
  <2>2. n + 1 \in DOMAIN r.parts
    BY <2>1, PartsAreNumbered
  <2>3. part.data \in Seq(Content)
    BY <2>1, <2>2 DEF WellFormed
  <2>4. Content \subseteq T
    BY DEF TokensIn
  <2>. HIDE DEF part, T
  <2>. QED  BY <2>3, <2>4, SeqMonotonic DEF DataLen
<1>. HIDE DEF part, b, s, h, l, T
<1>4. s + h + l \in 0 .. Len(b) /\ s + h \in 0 .. s + h + l /\ (s + h + l) - (s + h) = l
  BY <1>1
<1>5. /\ Piece(b, s + h, s + h + l) \in Seq(T) /\ Len(Piece(b, s + h, s + h + l)) = l
      /\ \A i \in 1 .. l : Piece(b, s + h, s + h + l)[i] = b[s + h + i]
  BY <1>2, <1>4, Pieces
<1>6. Piece(b, s + h, s + h + l) = part.data
  BY <1>1, <1>3, <1>5, SeqEqual
<1>. QED  BY <1>6 DEF part, b, s, h, l

LEMMA PrefixIs ==
    ASSUME NEW T, NEW s \in Seq(T), NEW t \in Seq(T), Len(s) <= Len(t),
           \A i \in 1 .. Len(s) : s[i] = t[i]
    PROVE  IsPrefix(s, t)
<1>. DEFINE n == Len(s)
<1>1. n \in Nat /\ Len(t) \in Nat /\ n <= Len(t)
  BY LenProperties
<1>2. SubSeq(s, 1, n) = s
  BY SubSeqFull
<1>. HIDE DEF n
<1>3. /\ SubSeq(t, 1, n) \in Seq(T) /\ Len(SubSeq(t, 1, n)) = n
      /\ \A i \in 1 .. n : SubSeq(t, 1, n)[i] = t[i]
  <2>1. n \in 0 .. Len(t) /\ 0 \in 0 .. n
    BY <1>1
  <2>2. /\ Piece(t, 0, n) \in Seq(T) /\ Len(Piece(t, 0, n)) = n - 0
        /\ \A i \in 1 .. n - 0 : Piece(t, 0, n)[i] = t[0 + i]
    BY <2>1, Pieces
  <2>3. n - 0 = n /\ 0 + 1 = 1 /\ \A i \in 1 .. n : 0 + i = i
    BY <1>1
  <2>. QED  BY <2>2, <2>3 DEF Piece
<1>4. \A i \in 1 .. n : s[i] = t[i]
  BY DEF n
<1>5. SubSeq(t, 1, n) = s
  <2>1. n = Len(s)
    BY DEF n
  <2>. QED  BY <1>3, <1>4, <2>1, SeqEqual
<1>. QED  BY <1>1, <1>2, <1>5 DEF IsPrefix, n

LEMMA PartOfRest ==
    ASSUME NEW r \in Requests, NEW n \in 0 .. Len(r.parts) - 1,
           NEW to \in Nat,
           Start(r.parts, n) + HeaderLen(r.parts[n + 1]) <= to, to <= Len(Body(r)),
           n + 1 # Len(r.parts) => to <= Start(r.parts, n + 1)
    PROVE  LET part == r.parts[n + 1]
               rest == Piece(Body(r), Start(r.parts, n) + HeaderLen(part), to)
           IN  /\ IsPrefix(rest, Rests(part))
               /\ n + 1 = Len(r.parts) /\ to = Len(Body(r)) => rest = Rests(part)
<1>. DEFINE part == r.parts[n + 1]
            b == Body(r)
            s == Start(r.parts, n)
            e == Start(r.parts, n + 1)
            h == HeaderLen(part)
            l == DataLen(part)
            d == part.data
            T == TokensIn(r.parts)
            u == Piece(b, s + h, to)
            v == Rests(part)
            isLast == n + 1 = Len(r.parts)
<1>1. /\ s \in Nat /\ e \in Nat /\ h \in {3, 4} /\ l \in Nat /\ Len(b) \in Nat
      /\ e = s + h + l + 1 /\ e + 1 <= Len(b)
      /\ \A j \in 1 .. l : b[s + h + j] = d[j]
      /\ b[e] = Crlf
  BY PartInBody
<1>2. b \in Seq(T) /\ (isLast => Len(b) = e + 1 /\ b[e + 1] = Closing)
  BY Layout
<1>3. d \in Seq(T) /\ l = Len(d)
  <2>1. WellFormed(r.parts)
    BY RequestsAreWellFormed
  <2>2. n + 1 \in DOMAIN r.parts
    BY <2>1, PartsAreNumbered
  <2>3. d \in Seq(Content)
    BY <2>1, <2>2 DEF WellFormed
  <2>4. Content \subseteq T
    BY DEF TokensIn
  <2>. HIDE DEF d, T
  <2>5. d \in Seq(T)
    BY <2>3, <2>4, SeqMonotonic
  <2>. QED  BY <2>5 DEF DataLen, d
<1>4. <<Crlf, Closing>> \in Seq(T)
  <2>1. Crlf \in T /\ Closing \in T
    BY DEF TokensIn
  <2>. HIDE DEF T
  <2>. QED  BY <2>1
<1>5. v = d \o <<Crlf, Closing>>
  BY DEF Rests
<1>6. s + h <= to /\ to <= Len(b) /\ (~ isLast => to <= e)
  OBVIOUS
<1>. HIDE DEF part, b, s, e, h, l, d, T, v, isLast
<1>7. /\ v \in Seq(T) /\ Len(v) = l + 2
      /\ \A j \in 1 .. l : v[j] = d[j]
      /\ v[l + 1] = Crlf /\ v[l + 2] = Closing
  BY <1>1, <1>3, <1>4, <1>5
<1>8. to \in 0 .. Len(b) /\ s + h \in 0 .. to
  BY <1>1, <1>6
<1>9. /\ u \in Seq(T) /\ Len(u) = to - (s + h)
      /\ \A i \in 1 .. to - (s + h) : u[i] = b[s + h + i]
  BY <1>2, <1>8, Pieces
<1>. HIDE DEF u
<1>10. Len(u) <= Len(v) /\ Len(u) \in Nat /\ (~ isLast => Len(u) <= l + 1)
  BY <1>1, <1>2, <1>6, <1>7, <1>9
<1>11. ASSUME NEW i \in 1 .. Len(u)  PROVE u[i] = v[i]
  <2>1. u[i] = b[s + h + i]
    BY <1>9
  <2>2. CASE i \in 1 .. l
    BY <1>1, <1>7, <2>1, <2>2
  <2>3. CASE i = l + 1
    <3>1. s + h + i = e
      BY <1>1, <2>3
    <3>. QED  BY <1>1, <1>7, <2>1, <2>3, <3>1
  <2>4. CASE i = l + 2
    <3>1. s + h + i = e + 1 /\ isLast
      BY <1>1, <1>10, <2>4
    <3>. QED  BY <1>2, <1>7, <2>1, <2>4, <3>1
  <2>5. i \in 1 .. l \/ i = l + 1 \/ i = l + 2
    BY <1>1, <1>7, <1>10
  <2>. QED  BY <2>2, <2>3, <2>4, <2>5
<1>12. IsPrefix(u, v)
  BY <1>7, <1>9, <1>10, <1>11, PrefixIs
<1>13. ASSUME isLast, to = Len(b)  PROVE u = v
  <2>1. Len(u) = Len(v)
    BY <1>1, <1>2, <1>7, <1>9, <1>13
  <2>. QED  BY <1>7, <1>9, <1>11, <2>1, SeqEqual
<1>. QED  BY <1>12, <1>13 DEF u, v, b, s, h, part, isLast

-------------------------------------------------------------------------------
(* The inductive invariant *)

Sent == Body(request)
Parts == request.parts
N == Len(Parts)

(* The tokens received behind the place p. *)
Left(p) == Piece(Sent, p, received)

(* Behind p, part k + 1 is the first whose boundary was received. *)
NoneBefore(k, p) ==
    /\ \A q \in p + 1 .. Start(Parts, k) : Sent[q].kind # "boundary" \/ q > received
    /\ p <= Start(Parts, k) \/ k = N

(* The files of the first k parts are saved; the last of them may have run on
   to the end when nothing is left behind p, if it is part k's and no boundary
   was received behind it. *)
RunsOn(k) == 0 < k /\ IsFile(Parts[k]) /\ (k = N \/ received <= Start(Parts, k))

SavedFirst(k, p) ==
    LET files == FilesOf(Parts)[k]
    IN  /\ Len(saved) = Len(files)
        /\ \A j \in 1 .. Len(files) :
              /\ saved[j].filename = files[j].filename
              /\ \/ saved[j].content = files[j].data
                 \/ /\ j = Len(files) /\ p = received /\ RunsOn(k)
                    /\ IsPrefix(saved[j].content, Rests(files[j]))
        /\ k = N /\ N > 0 /\ received = Len(Sent) /\ IsFile(Parts[N]) =>
              Last(saved).content = Rests(Parts[N])

File == [filename : {Parts[i].filename : i \in DOMAIN Parts},
         content : Seq(TokensIn(Parts)), written : BOOLEAN]

TypeOK ==
    /\ request \in Requests
    /\ received \in 0 .. Len(Sent)
    /\ boundary \in {"unknown", "X", "Y"}
    /\ saved \in Seq(File)
    /\ phase \in {"first", "reading", "saving", "done", "endless", "aborted"}

BoundaryIsKnown == phase # "first" => boundary # "unknown"

NothingSaved ==
    phase \in {"first", "reading", "endless", "aborted"} \/ boundary = "Y" => saved = <<>>

AllIsLeft == phase = "reading" => buffer_str = Left(0)

EnoughIsRead == phase \in {"saving", "done"} => content_length # None /\ ~ Incomplete

SavingAPart ==
    phase = "saving" /\ boundary = "X" =>
       \E k \in 0 .. N : \E p \in 0 .. received :
          buffer_str = Left(p) /\ NoneBefore(k, p) /\ SavedFirst(k, p)

AllAreSaved ==
    phase = "done" /\ boundary = "X" =>
       \E k \in 0 .. N :
          /\ SavedFirst(k, received)
          /\ received = Len(Sent) => k = N
          /\ k + 1 < N => received <= Start(Parts, k + 1)

UploadInv ==
    /\ TypeOK
    /\ BoundaryIsKnown
    /\ NothingSaved
    /\ AllIsLeft
    /\ EnoughIsRead
    /\ SavingAPart
    /\ AllAreSaved

LEMMA BodyIsASequence ==
    ASSUME request \in Requests
    PROVE  /\ Sent \in Seq(TokensIn(Parts)) /\ Len(Sent) \in Nat
           /\ WellFormed(Parts) /\ N \in Nat /\ DOMAIN Parts = 1 .. N
<1>1. Sent \in Seq(TokensIn(Parts))
  BY Layout DEF Sent, Parts
<1>2. WellFormed(Parts)
  BY RequestsAreWellFormed DEF Parts
<1>. QED  BY <1>1, <1>2, LenProperties, PartsAreNumbered DEF N

LEMMA FirstLeft ==
    ASSUME request \in Requests, received \in 0 .. Len(Sent), NEW p \in 0 .. received,
           NEW kind, NEW q \in p + 1 .. received, Sent[q].kind = kind,
           \A i \in p + 1 .. q - 1 : Sent[i].kind # kind
    PROVE  Find(Piece(Sent, p, received), kind) = q - p
<1>1. Sent \in Seq(TokensIn(Parts))
  BY BodyIsASequence
<1>. QED  BY <1>1, FirstInPiece

(* The boundary found in what is left is the one of the next part. *)
LEMMA BoundaryAhead ==
    ASSUME request \in Requests, received \in 0 .. Len(Sent), boundary = "X",
           NEW k \in 0 .. N, NEW p \in 0 .. received, NoneBefore(k, p)
    PROVE  /\ k # N /\ Start(Parts, k) + 1 <= received =>
                 /\ p <= Start(Parts, k)
                 /\ FindBoundary(Left(p)) = Start(Parts, k) + 1 - p
           /\ k = N \/ ~ (Start(Parts, k) + 1 <= received) => FindBoundary(Left(p)) = 0
<1>. DEFINE s == Start(Parts, k)
            T == TokensIn(Parts)
<1>0. /\ Sent \in Seq(T) /\ Len(Sent) \in Nat /\ WellFormed(Parts) /\ N \in Nat
      /\ received \in Nat /\ p \in Nat
  BY BodyIsASequence
<1>1. FindBoundary(Left(p)) = Find(Piece(Sent, p, received), "boundary")
  BY DEF FindBoundary, Left
<1>2. s \in Nat
  BY <1>0, Places DEF N
<1>. HIDE DEF T, s
<1>3. ASSUME k # N, s + 1 <= received
      PROVE  p <= s /\ Find(Piece(Sent, p, received), "boundary") = s + 1 - p
  <2>1. p <= s
    BY <1>3 DEF NoneBefore, s
  <2>2. k \in 0 .. N - 1
    BY <1>0, <1>3
  <2>3. Sent[s + 1].kind = "boundary"
    BY <2>2, PartInBody DEF s, Sent, N, Parts
  <2>4. \A q \in p + 1 .. s : Sent[q].kind # "boundary"
    <3>1. \A q \in p + 1 .. s : ~ (q > received)
      BY <1>0, <1>2, <1>3
    <3>. QED  BY <3>1 DEF NoneBefore, s
  <2>5. s + 1 \in p + 1 .. received /\ (s + 1) - 1 = s
    BY <1>0, <1>2, <1>3, <2>1
  <2>6. Find(Piece(Sent, p, received), "boundary") = (s + 1) - p
    <3>1. \A i \in p + 1 .. (s + 1) - 1 : Sent[i].kind # "boundary"
      BY <2>4, <2>5
    <3>. DEFINE q == s + 1
    <3>2. q \in p + 1 .. received /\ Sent[q].kind = "boundary"
          /\ \A i \in p + 1 .. q - 1 : Sent[i].kind # "boundary"
      BY <2>3, <2>5, <3>1
    <3>. HIDE DEF q
    <3>3. Find(Piece(Sent, p, received), "boundary") = q - p
      BY <3>2, FirstLeft
    <3>. QED  BY <3>3 DEF q
  <2>7. (s + 1) - p = s + 1 - p
    BY <1>0, <1>2
  <2>. QED  BY <2>1, <2>6, <2>7
<1>4. ASSUME k = N \/ ~ (s + 1 <= received)
      PROVE  Find(Piece(Sent, p, received), "boundary") = 0
  <2>1. ASSUME NEW q \in p + 1 .. received  PROVE Sent[q].kind # "boundary"
    <3>1. CASE q <= s
      <4>1. q \in p + 1 .. s /\ ~ (q > received)
        BY <1>0, <1>2, <3>1
      <4>. QED  BY <4>1 DEF NoneBefore, s
    <3>2. CASE ~ (q <= s)
      <4>1. k = N
        BY <1>0, <1>2, <1>4, <3>2
      <4>2. Len(Sent) = s + 1 /\ Sent[s + 1] = Closing
        BY <4>1, Layout DEF s, Sent, N, Parts
      <4>3. q = s + 1
        BY <1>0, <1>2, <3>2, <4>2
      <4>. QED  BY <4>2, <4>3, KindsDiffer
    <3>. QED  BY <3>1, <3>2
  <2>. QED  BY <1>0, <2>1, NoneInPiece
<1>. QED  BY <1>1, <1>3, <1>4 DEF s

(* What SavePart makes of a part whose boundary is at hand. *)
LEMMA HeaderAhead ==
    ASSUME request \in Requests, received \in 0 .. Len(Sent),
           NEW k \in 0 .. N - 1, Start(Parts, k) + 1 <= received
    PROVE  LET s    == Start(Parts, k)
               h    == HeaderLen(Parts[k + 1])
               rest == Left(s + 1)
           IN  /\ s + h <= received =>
                     /\ Find(rest, "blank") = h - 1
                     /\ FilenameIn(SubSeq(rest, 1, h - 1 - 1)) = Parts[k + 1].filename
                     /\ Behind(rest, h - 1) = Left(s + h)
               /\ ~ (s + h <= received) => Find(rest, "blank") = 0
<1>. DEFINE s == Start(Parts, k)
            h == HeaderLen(Parts[k + 1])
            T == TokensIn(Parts)
            rest == Piece(Sent, s + 1, received)
<1>0. Sent \in Seq(T) /\ Len(Sent) \in Nat /\ received \in Nat /\ s + 1 <= received
  BY BodyIsASequence
<1>1. /\ s \in Nat /\ h \in {3, 4} /\ Sent[s + h].kind = "blank"
      /\ \A q \in s + 2 .. s + h - 1 : Sent[q].kind # "blank"
      /\ Sent[s + 2].kind = "part" /\ Sent[s + 2].arg = Parts[k + 1].filename
  <2>1. k \in 0 .. Len(request.parts) - 1
    BY DEF N, Parts
  <2>. QED  BY <2>1, PartInBody DEF Sent, Parts
<1>. HIDE DEF s, h, T
<1>2. s + 1 \in 0 .. received
  BY <1>0, <1>1
<1>3. ASSUME s + h <= received
      PROVE  /\ Find(rest, "blank") = h - 1
             /\ FilenameIn(SubSeq(rest, 1, h - 1 - 1)) = Parts[k + 1].filename
             /\ Behind(rest, h - 1) = Piece(Sent, s + h, received)
  <2>1. s + h \in (s + 1) + 1 .. received
    BY <1>0, <1>1, <1>3
  <2>2. \A q \in (s + 1) + 1 .. (s + h) - 1 : Sent[q].kind # "blank"
    BY <1>1
  <2>3. Find(rest, "blank") = (s + h) - (s + 1)
    <3>. DEFINE q == s + h
                p == s + 1
    <3>1. p \in 0 .. received /\ q \in p + 1 .. received /\ Sent[q].kind = "blank"
          /\ \A i \in p + 1 .. q - 1 : Sent[i].kind # "blank"
      BY <1>1, <1>2, <2>1, <2>2
    <3>. HIDE DEF p, q
    <3>2. Find(Piece(Sent, p, received), "blank") = q - p
      BY <3>1, FirstLeft
    <3>. QED  BY <3>2 DEF p, q
  <2>4. Behind(rest, h - 1) = Piece(Sent, (s + 1) + (h - 1), received)
    <3>1. h - 1 \in 0 .. received - (s + 1)
      BY <1>0, <1>1, <1>3
    <3>. QED  BY <1>0, <1>2, <3>1, BehindPiece
  <2>5. SubSeq(rest, 1, h - 1 - 1) = Piece(Sent, s + 1, (s + 1) + (h - 2))
    <3>1. 0 \in 0 .. received - (s + 1) /\ h - 2 \in 0 .. received - (s + 1)
          /\ 0 + 1 = 1 /\ h - 1 - 1 = h - 2 /\ (s + 1) + 0 = s + 1
      BY <1>0, <1>1, <1>3
    <3>2. SubSeq(rest, 0 + 1, h - 2) = Piece(Sent, (s + 1) + 0, (s + 1) + (h - 2))
      BY <1>0, <1>2, <3>1, PieceOfPiece
    <3>. QED  BY <3>1, <3>2
  <2>. DEFINE lines == Piece(Sent, s + 1, (s + 1) + (h - 2))
  <2>6. /\ (s + 1) + (h - 2) \in 0 .. Len(Sent)
        /\ s + 1 \in 0 .. (s + 1) + (h - 2)
        /\ s + 2 \in (s + 1) + 1 .. (s + 1) + (h - 2)
        /\ (s + 2) - (s + 1) = 1
        /\ ((s + 1) + (h - 2)) - (s + 1) = h - 2 /\ 1 \in 1 .. h - 2
    BY <1>0, <1>1, <1>3
  <2>7. Find(lines, "part") = 1
    <3>1. \A i \in (s + 1) + 1 .. (s + 2) - 1 : Sent[i].kind # "part"
      BY <1>1
    <3>2. Find(lines, "part") = (s + 2) - (s + 1)
      BY <1>0, <1>1, <2>6, <3>1, FirstInPiece
    <3>. QED  BY <2>6, <3>2
  <2>8. lines[1] = Sent[s + 2]
    <3>1. \A i \in 1 .. ((s + 1) + (h - 2)) - (s + 1) : lines[i] = Sent[(s + 1) + i]
      BY <1>0, <2>6, Pieces
    <3>2. (s + 1) + 1 = s + 2
      BY <1>1
    <3>. QED  BY <2>6, <3>1, <3>2
  <2>9. FilenameIn(lines) = Parts[k + 1].filename
    BY <1>1, <2>7, <2>8 DEF FilenameIn
  <2>10. (s + h) - (s + 1) = h - 1 /\ (s + 1) + (h - 1) = s + h
    BY <1>1
  <2>. HIDE DEF rest, lines
  <2>. QED  BY <2>3, <2>4, <2>5, <2>9, <2>10 DEF lines
<1>4. ASSUME ~ (s + h <= received)  PROVE Find(rest, "blank") = 0
  <2>1. \A q \in (s + 1) + 1 .. received : Sent[q].kind # "blank"
    <3>1. \A q \in (s + 1) + 1 .. received : q \in s + 2 .. s + h - 1
      BY <1>0, <1>1, <1>4
    <3>. QED  BY <1>1, <3>1
  <2>. QED  BY <1>0, <1>2, <2>1, NoneInPiece
<1>. QED  BY <1>3, <1>4 DEF Left, s, h

LEMMA LeftIs ==
    ASSUME request \in Requests, received \in 0 .. Len(Sent), NEW p \in 0 .. received
    PROVE  /\ Left(p) \in Seq(TokensIn(Parts)) /\ Len(Left(p)) = received - p
           /\ \A i \in 0 .. received - p : Behind(Left(p), i) = Left(p + i)
           /\ Left(received) = <<>>
<1>1. Sent \in Seq(TokensIn(Parts))
  BY BodyIsASequence
<1>2. Left(p) \in Seq(TokensIn(Parts)) /\ Len(Left(p)) = received - p
  BY <1>1, Pieces DEF Left
<1>3. \A i \in 0 .. received - p : Behind(Left(p), i) = Left(p + i)
  BY <1>1, BehindPiece DEF Left
<1>4. Left(received) = <<>>
  <2>1. received + 1 \in Int /\ received \in Int /\ received < received + 1
    BY BodyIsASequence
  <2>. QED  BY <2>1, SubSeqEmpty DEF Left, Piece
<1>. QED  BY <1>2, <1>3, <1>4

(* Behind the header of part k + 1 the next boundary is the one of the part
   after it. *)
LEMMA NoneInPart ==
    ASSUME request \in Requests, NEW k \in 0 .. N - 1,
           NEW p, p = Start(Parts, k) + HeaderLen(Parts[k + 1])
    PROVE  NoneBefore(k + 1, p)
<1>. DEFINE s == Start(Parts, k)  h == HeaderLen(Parts[k + 1])  e == Start(Parts, k + 1)
<1>1. /\ s \in Nat /\ h \in {3, 4} /\ DataLen(Parts[k + 1]) \in Nat
      /\ e = s + h + DataLen(Parts[k + 1]) + 1
      /\ \A q \in s + 2 .. e : Sent[q].kind # "boundary"
  <2>1. k \in 0 .. Len(request.parts) - 1
    BY DEF N, Parts
  <2>. QED  BY <2>1, PartInBody DEF Sent, Parts
<1>2. p = s + h
  OBVIOUS
<1>. HIDE DEF s, h, e
<1>3. ASSUME NEW q \in p + 1 .. e  PROVE Sent[q].kind # "boundary"
  <2>1. q \in s + 2 .. e
    BY <1>1, <1>2
  <2>. QED  BY <1>1, <2>1
<1>4. p <= e
  BY <1>1, <1>2
<1>. QED  BY <1>3, <1>4 DEF NoneBefore, e

(* What SavePart finds. *)
LEMMA AtAPart ==
    ASSUME request \in Requests, received \in 0 .. Len(Sent), boundary = "X",
           NEW k \in 0 .. N, NEW p \in 0 .. received, NoneBefore(k, p),
           buffer_str = Left(p)
    PROVE  LET s == Start(Parts, k)
               h == HeaderLen(Parts[k + 1])
           IN  /\ FindBoundary(buffer_str) # 0 /\ HeadersEnd # 0 =>
                     /\ k # N /\ p <= s /\ s + h <= received
                     /\ FilenameIn(SubSeq(Rest, 1, HeadersEnd - 1)) = Parts[k + 1].filename
                     /\ Behind(Rest, HeadersEnd) = Left(s + h)
               /\ FindBoundary(buffer_str) = 0 \/ HeadersEnd = 0 =>
                     k = N \/ ~ (s + h <= received)
<1>. DEFINE s == Start(Parts, k)
            h == HeaderLen(Parts[k + 1])
<1>0. /\ Len(Sent) \in Nat /\ WellFormed(Parts) /\ N \in Nat
      /\ received \in Nat /\ p \in Nat
  BY BodyIsASequence
<1>1. s \in Nat /\ (k # N => h \in {3, 4})
  <2>1. s \in Nat
    BY <1>0, Places DEF N
  <2>2. k # N => k + 1 \in 1 .. Len(Parts)
    BY <1>0 DEF N
  <2>. QED  BY <1>0, <2>1, <2>2, Places
<1>2. /\ k # N /\ s + 1 <= received =>
            p <= s /\ FindBoundary(buffer_str) = s + 1 - p
      /\ k = N \/ ~ (s + 1 <= received) => FindBoundary(buffer_str) = 0
  BY BoundaryAhead
<1>3. ASSUME k # N, s + 1 <= received
      PROVE  /\ s + h <= received =>
                   /\ HeadersEnd = h - 1
                   /\ FilenameIn(SubSeq(Rest, 1, HeadersEnd - 1)) = Parts[k + 1].filename
                   /\ Behind(Rest, HeadersEnd) = Left(s + h)
             /\ ~ (s + h <= received) => HeadersEnd = 0
  <2>1. Rest = Left(s + 1)
    <3>1. FindBoundary(buffer_str) = s + 1 - p /\ p <= s
      BY <1>2, <1>3
    <3>. HIDE DEF s
    <3>2. s + 1 - p \in 0 .. received - p /\ p + (s + 1 - p) = s + 1
      BY <1>0, <1>1, <1>3, <3>1
    <3>. QED  BY <3>1, <3>2, LeftIs DEF Rest
  <2>2. k \in 0 .. N - 1
    BY <1>0, <1>3
  <2>3. /\ s + h <= received =>
              /\ Find(Rest, "blank") = h - 1
              /\ FilenameIn(SubSeq(Rest, 1, h - 1 - 1)) = Parts[k + 1].filename
              /\ Behind(Rest, h - 1) = Left(s + h)
        /\ ~ (s + h <= received) => Find(Rest, "blank") = 0
    BY <1>3, <2>1, <2>2, HeaderAhead
  <2>. QED  BY <2>3 DEF HeadersEnd
<1>. HIDE DEF s, h
<1>4. ASSUME FindBoundary(buffer_str) # 0, HeadersEnd # 0
      PROVE  /\ k # N /\ p <= s /\ s + h <= received
             /\ FilenameIn(SubSeq(Rest, 1, HeadersEnd - 1)) = Parts[k + 1].filename
             /\ Behind(Rest, HeadersEnd) = Left(s + h)
  BY <1>2, <1>3, <1>4
<1>5. ASSUME FindBoundary(buffer_str) = 0 \/ HeadersEnd = 0, k # N, s + h <= received
      PROVE  FALSE
  <2>1. s + 1 <= received
    BY <1>0, <1>1, <1>5
  <2>2. HeadersEnd = h - 1 /\ h - 1 # 0
    BY <1>1, <1>3, <1>5, <2>1
  <2>3. FindBoundary(buffer_str) = s + 1 - p /\ s + 1 - p # 0
    BY <1>0, <1>1, <1>2, <1>5, <2>1
  <2>. QED  BY <1>5, <2>2, <2>3
<1>. QED  BY <1>4, <1>5 DEF s, h

(* What a file saved from behind its header holds, and what is left. *)
LEMMA ContentSaved ==
    ASSUME request \in Requests, received \in 0 .. Len(Sent), boundary = "X",
           NEW k \in 0 .. N - 1,
           Start(Parts, k) + HeaderLen(Parts[k + 1]) <= received
    PROVE  LET data == Left(Start(Parts, k) + HeaderLen(Parts[k + 1]))
               e    == Start(Parts, k + 1)
               left == IF FindBoundary(data) = 0 THEN <<>>
                       ELSE Behind(data, FindBoundary(data) - 1)
           IN  /\ FileContent(data) \in Seq(TokensIn(Parts))
               /\ \/ /\ FileContent(data) = Parts[k + 1].data
                     /\ k + 1 # N /\ e \in 0 .. received /\ left = Left(e)
                  \/ /\ IsPrefix(FileContent(data), Rests(Parts[k + 1]))
                     /\ k + 1 = N /\ received = Len(Sent) =>
                           FileContent(data) = Rests(Parts[k + 1])
                     /\ left = Left(received)
                     /\ received <= e \/ k + 1 = N
<1>. DEFINE s == Start(Parts, k)
            h == HeaderLen(Parts[k + 1])
            l == DataLen(Parts[k + 1])
            e == Start(Parts, k + 1)
            p == s + h
            data == Left(p)
            T == TokensIn(Parts)
<1>0. /\ Sent \in Seq(T) /\ Len(Sent) \in Nat /\ WellFormed(Parts) /\ N \in Nat
      /\ received \in Nat /\ k + 1 \in 0 .. N
  BY BodyIsASequence
<1>1. /\ s \in Nat /\ h \in {3, 4} /\ l \in Nat /\ e = s + h + l + 1 /\ e \in Nat
      /\ Piece(Sent, s + h, s + h + l) = Parts[k + 1].data
  <2>1. k \in 0 .. Len(request.parts) - 1
    BY DEF N, Parts
  <2>. QED  BY <2>1, PartInBody, WholeData DEF Sent, Parts
<1>2. p \in 0 .. received /\ p <= received
  BY <1>0, <1>1
<1>3. NoneBefore(k + 1, p)
  BY NoneInPart
<1>4. /\ k + 1 # N /\ e + 1 <= received => FindBoundary(data) = e + 1 - p
      /\ k + 1 = N \/ ~ (e + 1 <= received) => FindBoundary(data) = 0
  BY <1>0, <1>2, <1>3, BoundaryAhead
<1>5. data \in Seq(T) /\ \A i \in 0 .. received - p : Behind(data, i) = Left(p + i)
  BY <1>2, LeftIs
<1>6. data = Piece(Sent, p, received)
  BY DEF Left
<1>7. ASSUME k + 1 = N \/ ~ (e + 1 <= received)
      PROVE  /\ IsPrefix(data, Rests(Parts[k + 1]))
             /\ k + 1 = N /\ received = Len(Sent) => data = Rests(Parts[k + 1])
  <2>1. k + 1 # N => received <= e
    BY <1>0, <1>1, <1>7
  <2>2. k \in 0 .. Len(request.parts) - 1 /\ received <= Len(Sent)
    BY <1>0 DEF N, Parts
  <2>. QED  BY <1>0, <1>2, <1>6, <2>1, <2>2, PartOfRest DEF Sent, N, Parts
<1>. HIDE DEF s, h, l, e, p, data, T
<1>8. p = s + h
  BY DEF p
<1>9. CASE k + 1 # N /\ e + 1 <= received
  <2>1. FindBoundary(data) = l + 2 /\ l + 2 # 0 /\ (l + 2) - 2 = l /\ (l + 2) - 1 = l + 1
    BY <1>1, <1>4, <1>8, <1>9
  <2>2. FileContent(data) = SubSeq(data, 1, l)
    BY <2>1 DEF FileContent
  <2>3. SubSeq(data, 1, l) = Parts[k + 1].data
    <3>1. 0 \in 0 .. received - p /\ l \in 0 .. received - p /\ p + 0 = p /\ 0 + 1 = 1
      BY <1>0, <1>1, <1>8, <1>9
    <3>2. SubSeq(Piece(Sent, p, received), 0 + 1, l) = Piece(Sent, p + 0, p + l)
      BY <1>0, <1>2, <3>1, PieceOfPiece
    <3>. QED  BY <1>1, <1>6, <1>8, <3>1, <3>2
  <2>4. Behind(data, FindBoundary(data) - 1) = Left(e) /\ e \in 0 .. received
    <3>1. l + 1 \in 0 .. received - p /\ p + (l + 1) = e /\ e \in 0 .. received
      BY <1>0, <1>1, <1>8, <1>9
    <3>. QED  BY <1>5, <2>1, <3>1
  <2>5. Parts[k + 1].data \in Seq(T)
    <3>1. 0 \in 0 .. received - p /\ l \in 0 .. received - p /\ p + l \in 0 .. Len(Sent)
          /\ p \in 0 .. p + l
      BY <1>0, <1>1, <1>8, <1>9
    <3>2. Piece(Sent, p, p + l) \in Seq(T)
      BY <1>0, <3>1, Pieces
    <3>. QED  BY <1>1, <1>8, <3>2
  <2>6. FindBoundary(data) # 0
    BY <2>1
  <2>. QED  BY <1>9, <2>2, <2>3, <2>4, <2>5, <2>6 DEF data, p, s, h, e, T
<1>10. CASE k + 1 = N \/ ~ (e + 1 <= received)
  <2>1. FindBoundary(data) = 0
    BY <1>4, <1>10
  <2>2. FileContent(data) = data
    BY <2>1 DEF FileContent
  <2>3. Left(received) = <<>>
    BY <1>2, LeftIs
  <2>4. received <= e \/ k + 1 = N
    BY <1>0, <1>1, <1>10
  <2>. QED  BY <1>5, <1>7, <1>10, <2>1, <2>2, <2>3, <2>4 DEF data, p, s, h, e, T
<1>. QED  BY <1>9, <1>10

(* The files saved before part k + 1 is done with. *)
LEMMA SavedBefore ==
    ASSUME TypeOK, NEW k \in 0 .. N - 1, NEW p \in 0 .. received, p # received,
           SavedFirst(k, p)
    PROVE  LET files == FilesOf(Parts)[k]
           IN  /\ files \in Seq(Range(Parts)) /\ Parts[k + 1] \in Range(Parts)
               /\ Len(files) \in Nat /\ Len(saved) = Len(files)
               /\ FilesOf(Parts)[k + 1] = IF IsFile(Parts[k + 1])
                                          THEN Append(files, Parts[k + 1]) ELSE files
               /\ \A j \in 1 .. Len(files) :
                     /\ saved[j].filename = files[j].filename
                     /\ saved[j].content = files[j].data
<1>. DEFINE files == FilesOf(Parts)[k]
<1>0. /\ WellFormed(Parts) /\ N \in Nat /\ DOMAIN Parts = 1 .. N
      /\ k \in 0 .. Len(Parts) - 1 /\ k \in 0 .. Len(Parts)
  <2>1. WellFormed(Parts) /\ N \in Nat /\ DOMAIN Parts = 1 .. N
    BY BodyIsASequence DEF TypeOK
  <2>2. k \in 0 .. N - 1 /\ k \in 0 .. N
    BY <2>1
  <2>. QED  BY <2>1, <2>2 DEF N
<1>1. Parts[k + 1] \in Range(Parts)
  BY <1>0 DEF Range
<1>2. /\ files \in Seq(Range(Parts))
      /\ FilesOf(Parts)[k + 1] = IF IsFile(Parts[k + 1])
                                 THEN Append(files, Parts[k + 1]) ELSE files
  BY <1>0, FilesSteps
<1>3. Len(files) \in Nat
  BY <1>2, LenProperties
<1>. QED  BY <1>1, <1>2, <1>3 DEF SavedFirst

LEMMA FieldSkipped ==
    ASSUME TypeOK, NEW k \in 0 .. N - 1, NEW p \in 0 .. received, p # received,
           SavedFirst(k, p), request' = request, received' = received,
           ~ IsFile(Parts[k + 1]), saved' = saved, NEW q \in 0 .. received
    PROVE  SavedFirst(k + 1, q)'
<1>1. Parts' = Parts /\ N' = N /\ Sent' = Sent
  BY DEF Parts, N, Sent
<1>2. FilesOf(Parts)[k + 1] = FilesOf(Parts)[k]
  BY SavedBefore
<1>3. ~ (k + 1 = N /\ N > 0 /\ received = Len(Sent) /\ IsFile(Parts[N]))
  OBVIOUS
<1>. QED  BY <1>1, <1>2, <1>3, SavedBefore DEF SavedFirst

LEMMA FileSaved ==
    ASSUME TypeOK, NEW k \in 0 .. N - 1, NEW p \in 0 .. received, p # received,
           SavedFirst(k, p), request' = request, received' = received,
           IsFile(Parts[k + 1]), NEW q \in 0 .. received, NEW file \in File,
           saved' = Append(saved, file),
           file.filename = Parts[k + 1].filename,
           \/ file.content = Parts[k + 1].data /\ k + 1 # N
           \/ /\ q = received /\ (received <= Start(Parts, k + 1) \/ k + 1 = N)
              /\ IsPrefix(file.content, Rests(Parts[k + 1]))
              /\ k + 1 = N /\ received = Len(Sent) =>
                    file.content = Rests(Parts[k + 1])
    PROVE  SavedFirst(k + 1, q)'
<1>. DEFINE files == FilesOf(Parts)[k]
            more == FilesOf(Parts)[k + 1]
            part == Parts[k + 1]
            n == Len(files)
<1>0. Parts' = Parts /\ N' = N /\ Sent' = Sent
  BY DEF Parts, N, Sent
<1>1. /\ files \in Seq(Range(Parts)) /\ part \in Range(Parts)
      /\ more = Append(files, part)
      /\ Len(saved) = n /\ n \in Nat /\ saved \in Seq(File)
      /\ \A j \in 1 .. n :
            saved[j].filename = files[j].filename /\ saved[j].content = files[j].data
  BY SavedBefore DEF TypeOK
<1>2. /\ Len(more) = n + 1 /\ more[n + 1] = part
      /\ \A j \in 1 .. n : more[j] = files[j]
  BY <1>1, AppendProperties
<1>3. /\ Len(saved') = n + 1 /\ saved'[n + 1] = file
      /\ \A j \in 1 .. n : saved'[j] = saved[j]
  BY <1>1, AppendProperties
<1>. HIDE DEF n
<1>6. received <= Start(Parts, k + 1) \/ k + 1 = N => RunsOn(k + 1)'
  <2>1. N \in Nat
    BY BodyIsASequence DEF TypeOK
  <2>2. 0 < k + 1
    BY <2>1
  <2>. QED  BY <1>0, <2>2 DEF RunsOn
<1>4. ASSUME NEW j \in 1 .. n + 1
      PROVE  /\ saved'[j].filename = more[j].filename
             /\ \/ saved'[j].content = more[j].data
                \/ /\ j = n + 1 /\ q = received /\ RunsOn(k + 1)'
                   /\ IsPrefix(saved'[j].content, Rests(more[j]))
  <2>1. CASE j \in 1 .. n
    BY <1>1, <1>2, <1>3, <2>1
  <2>2. CASE j = n + 1
    <3>1. saved'[j] = file /\ more[j] = part
      BY <1>2, <1>3, <2>2
    <3>. QED  BY <1>6, <2>2, <3>1
  <2>3. j \in 1 .. n \/ j = n + 1
    BY <1>1
  <2>. QED  BY <2>1, <2>2, <2>3
<1>5. k + 1 = N /\ received = Len(Sent) => Last(saved').content = Rests(Parts[N])
  BY <1>3 DEF Last
<1>. HIDE DEF files, more
<1>. QED  BY <1>0, <1>2, <1>3, <1>4, <1>5 DEF SavedFirst, more

LEMMA UploadInit == Init => UploadInv
<1>. SUFFICES ASSUME Init  PROVE UploadInv
  OBVIOUS
<1>1. Len(Sent) \in Nat
  BY BodyIsASequence DEF Init
<1>2. saved = <<>> /\ saved \in Seq(File)
  <2>. HIDE DEF File
  <2>. QED  BY EmptySeq DEF Init
<1>3. received = 0 /\ received \in 0 .. Len(Sent)
  BY <1>1 DEF Init
<1>4. request \in Requests /\ boundary = "unknown" /\ phase = "first"
  BY DEF Init
<1>. QED
  BY <1>2, <1>3, <1>4 DEF UploadInv, TypeOK, BoundaryIsKnown, NothingSaved, AllIsLeft,
     EnoughIsRead, SavingAPart, AllAreSaved

LEMMA PieceFromTheStart == ASSUME NEW b, NEW n  PROVE Piece(b, 0, n) = SubSeq(b, 1, n)
<1>1. 0 + 1 = 1
  OBVIOUS
<1>. QED  BY <1>1 DEF Piece

LEMMA UploadFirstRead == ASSUME UploadInv, FirstRead  PROVE UploadInv'
<1>. USE DEF UploadInv, TypeOK, FirstRead
<1>1. PICK n \in 0 .. Len(Body(request)) :
          received' = n /\ buffer_str' = SubSeq(Body(request), 1, n)
  OBVIOUS
<1>2. boundary' \in {"X", "Y"}
  BY DEF parse
<1>3. Sent' = Sent /\ Parts' = Parts /\ N' = N /\ File' = File
  BY DEF Sent, Parts, N, File
<1>4. TypeOK'
  BY <1>1, <1>2, <1>3 DEF Sent
<1>5. AllIsLeft'
  <2>1. Left(0)' = SubSeq(Sent', 1, received')
    BY PieceFromTheStart DEF Left
  <2>2. Left(0)' = buffer_str'
    BY <1>1, <1>3, <2>1 DEF Sent
  <2>. QED  BY <2>2 DEF AllIsLeft
<1>6. NothingSaved' /\ BoundaryIsKnown'
  BY <1>2 DEF NothingSaved, BoundaryIsKnown
<1>7. EnoughIsRead' /\ SavingAPart' /\ AllAreSaved'
  BY DEF EnoughIsRead, SavingAPart, AllAreSaved
<1>. QED  BY <1>4, <1>5, <1>6, <1>7

LEMMA UploadReadMore == ASSUME UploadInv, ReadMore  PROVE UploadInv'
<1>. USE DEF UploadInv, TypeOK, ReadMore
<1>1. PICK n \in received + 1 .. Len(Body(request)) :
          received' = n /\ buffer_str' = SubSeq(Body(request), 1, n)
  OBVIOUS
<1>2. Sent' = Sent /\ Parts' = Parts /\ N' = N /\ File' = File
  BY DEF Sent, Parts, N, File
<1>3. boundary' = boundary /\ content_length' = content_length
  BY DEF headers
<1>4. TypeOK'
  <2>1. received' \in 0 .. Len(Sent)
    <3>1. Len(Sent) \in Nat
      BY BodyIsASequence
    <3>. QED  BY <1>1, <3>1 DEF Sent
  <2>. QED  BY <1>2, <1>3, <2>1
<1>5. AllIsLeft'
  <2>1. Left(0)' = SubSeq(Sent', 1, received')
    BY PieceFromTheStart DEF Left
  <2>2. Left(0)' = buffer_str'
    BY <1>1, <1>2, <2>1 DEF Sent
  <2>. QED  BY <2>2 DEF AllIsLeft
<1>6. NothingSaved' /\ BoundaryIsKnown'
  BY <1>3 DEF NothingSaved, BoundaryIsKnown
<1>7. EnoughIsRead' /\ SavingAPart' /\ AllAreSaved'
  BY DEF EnoughIsRead, SavingAPart, AllAreSaved
<1>. QED  BY <1>4, <1>5, <1>6, <1>7

LEMMA UploadGivenUp ==
    ASSUME UploadInv, phase' \in {"endless", "aborted"}, phase = "reading",
           UNCHANGED <<request, received, headers, buffer_str, saved>>
    PROVE  UploadInv'
<1>1. Sent' = Sent /\ File' = File
  BY DEF Sent, Parts, File
<1>. QED
  BY <1>1 DEF UploadInv, TypeOK, headers, AllIsLeft, NothingSaved, BoundaryIsKnown,
     EnoughIsRead, SavingAPart, AllAreSaved

LEMMA UploadReadingEnds == ASSUME UploadInv, ReadingEnds  PROVE UploadInv'
<1>. USE DEF UploadInv, TypeOK, ReadingEnds
<1>1. Sent' = Sent /\ Parts' = Parts /\ N' = N /\ File' = File
  BY DEF Sent, Parts, N, File
<1>2. boundary' = boundary /\ content_length' = content_length
  BY DEF headers
<1>3. TypeOK'
  BY <1>1, <1>2
<1>4. NothingSaved' /\ BoundaryIsKnown' /\ AllIsLeft' /\ AllAreSaved'
  BY <1>2 DEF NothingSaved, BoundaryIsKnown, AllIsLeft, AllAreSaved
<1>5. EnoughIsRead'
  BY <1>2 DEF EnoughIsRead, Incomplete
<1>6. SavingAPart'
  <2>0. /\ WellFormed(Parts) /\ N \in Nat /\ 0 \in 0 .. N
        /\ received \in Nat /\ 0 \in 0 .. received
    <3>1. WellFormed(Parts) /\ N \in Nat /\ Len(Sent) \in Nat
      BY BodyIsASequence
    <3>. QED  BY <3>1
  <2>1. FilesOf(Parts)[0] = <<>> /\ Start(Parts, 0) = 0
    BY <2>0, FilesSteps, Places
  <2>2. Len(<<>>) = 0
    OBVIOUS
  <2>3. saved' = <<>> /\ buffer_str' = Left(0)
    BY DEF NothingSaved, AllIsLeft
  <2>4. NoneBefore(0, 0)'
    <3>1. ~ (\E q \in 0 + 1 .. 0 : TRUE) /\ 0 <= 0
      OBVIOUS
    <3>2. Start(Parts', 0) = 0
      BY <1>1, <2>1
    <3>. QED  BY <3>1, <3>2 DEF NoneBefore
  <2>5. SavedFirst(0, 0)'
    <3>1. Len(saved') = Len(FilesOf(Parts)[0]) /\ Len(FilesOf(Parts)[0]) = 0
      BY <2>1, <2>2, <2>3
    <3>2. ~ (0 = N /\ N > 0)
      BY <2>0
    <3>3. \A j \in 1 .. Len(FilesOf(Parts)[0]) : FALSE
      BY <3>1
    <3>. QED  BY <1>1, <3>1, <3>2, <3>3 DEF SavedFirst
  <2>6. Left(0)' = Left(0)
    BY <1>1 DEF Left
  <2>7. 0 \in 0 .. N' /\ 0 \in 0 .. received'
    BY <1>1, <2>0
  <2>. QED  BY <2>3, <2>4, <2>5, <2>6, <2>7 DEF SavingAPart
<1>. QED  BY <1>3, <1>4, <1>5, <1>6

LEMMA UploadSavePart == ASSUME UploadInv, SavePart  PROVE UploadInv'
<1>. DEFINE data == Behind(Rest, HeadersEnd)
            filename == FilenameIn(SubSeq(Rest, 1, HeadersEnd - 1))
<1>0. TypeOK /\ phase = "saving" /\ phase' = "saving"
      /\ request' = request /\ received' = received /\ boundary' = boundary
      /\ content_length' = content_length
      /\ FindBoundary(buffer_str) # 0 /\ HeadersEnd # 0
  BY DEF UploadInv, SavePart, headers
<1>1. boundary = "X"
  <2>1. boundary \in {"X", "Y"}
    BY <1>0 DEF UploadInv, TypeOK, BoundaryIsKnown
  <2>. QED  BY <1>0, <2>1 DEF FindBoundary
<1>2. PICK k \in 0 .. N : \E p \in 0 .. received :
         buffer_str = Left(p) /\ NoneBefore(k, p) /\ SavedFirst(k, p)
  BY <1>0, <1>1 DEF UploadInv, SavingAPart
<1>3. PICK p \in 0 .. received :
         buffer_str = Left(p) /\ NoneBefore(k, p) /\ SavedFirst(k, p)
  BY <1>2
<1>. DEFINE s == Start(Parts, k)
            e == Start(Parts, k + 1)
            part == Parts[k + 1]
            to == s + HeaderLen(part)
<1>4. k # N /\ p <= s /\ to <= received /\ filename = part.filename /\ data = Left(to)
  BY <1>0, <1>1, <1>3, AtAPart DEF TypeOK
<1>5. /\ k \in 0 .. N - 1 /\ k + 1 \in 0 .. N /\ received \in Nat /\ p # received
      /\ to \in 0 .. received
  <2>1. N \in Nat /\ Len(Sent) \in Nat /\ WellFormed(Parts)
    BY <1>0, BodyIsASequence DEF TypeOK
  <2>2. k \in 0 .. N - 1 /\ k + 1 \in 0 .. N /\ received \in Nat /\ p \in Nat
    BY <1>0, <1>4, <2>1 DEF TypeOK
  <2>3. s \in Nat /\ HeaderLen(part) \in {3, 4}
    <3>1. k \in 0 .. Len(Parts) /\ k + 1 \in 1 .. Len(Parts)
      BY <2>1, <2>2 DEF N
    <3>. QED  BY <2>1, <3>1, Places
  <2>. HIDE DEF s, part
  <2>. QED  BY <1>4, <2>2, <2>3
<1>6. Parts' = Parts /\ N' = N /\ Sent' = Sent /\ File' = File
  BY <1>0 DEF Parts, N, Sent, File
<1>7. SUFFICES ASSUME TRUE
               PROVE  /\ saved' \in Seq(File)
                      /\ \E j \in 0 .. N : \E q \in 0 .. received :
                            buffer_str' = Left(q) /\ NoneBefore(j, q) /\ SavedFirst(j, q)'
  <2>1. ASSUME saved' \in Seq(File),
               NEW j \in 0 .. N, NEW q \in 0 .. received,
               buffer_str' = Left(q), NoneBefore(j, q), SavedFirst(j, q)'
        PROVE  UploadInv'
    <3>1. Left(q)' = Left(q)
      BY <1>0, <1>6 DEF Left
    <3>2. NoneBefore(j, q)'
      BY <1>0, <1>6, <2>1 DEF NoneBefore
    <3>3. SavingAPart'
      BY <1>0, <1>6, <2>1, <3>1, <3>2 DEF SavingAPart
    <3>4. TypeOK'
      BY <1>0, <1>6, <2>1 DEF TypeOK
    <3>5. EnoughIsRead'
      BY <1>0 DEF UploadInv, EnoughIsRead, Incomplete
    <3>6. BoundaryIsKnown' /\ NothingSaved' /\ AllIsLeft' /\ AllAreSaved'
      BY <1>0, <1>1 DEF BoundaryIsKnown, NothingSaved, AllIsLeft, AllAreSaved
    <3>. QED  BY <3>3, <3>4, <3>5, <3>6 DEF UploadInv
  <2>. QED  BY <2>1
<1>8. \/ filename = None /\ buffer_str' = data /\ saved' = saved
      \/ /\ filename # None
         /\ buffer_str' = IF FindBoundary(data) = 0 THEN <<>>
                          ELSE Behind(data, FindBoundary(data) - 1)
         /\ \E written \in BOOLEAN :
               saved' = Append(saved, [filename |-> filename, content |-> FileContent(data),
                                       written |-> written])
  BY DEF SavePart
<1>. HIDE DEF data, filename, s, e, to
<1>9. CASE filename = None /\ buffer_str' = data /\ saved' = saved
  <2>1. ~ IsFile(part)
    BY <1>4, <1>9 DEF IsFile
  <2>0. PICK q \in 0 .. received : q = to
    BY <1>5
  <2>2. SavedFirst(k + 1, q)'
    BY <1>0, <1>3, <1>5, <1>9, <2>1, FieldSkipped
  <2>3. NoneBefore(k + 1, q)
    BY <1>0, <1>5, <2>0, NoneInPart DEF to, s, TypeOK
  <2>4. saved' \in Seq(File)
    BY <1>0, <1>9 DEF TypeOK
  <2>. QED  BY <1>4, <1>5, <1>9, <2>0, <2>2, <2>3, <2>4
<1>10. CASE /\ filename # None
            /\ buffer_str' = IF FindBoundary(data) = 0 THEN <<>>
                             ELSE Behind(data, FindBoundary(data) - 1)
            /\ \E written \in BOOLEAN :
                  saved' = Append(saved, [filename |-> filename,
                                          content |-> FileContent(data),
                                          written |-> written])
  <2>1. PICK written \in BOOLEAN :
           saved' = Append(saved, [filename |-> filename, content |-> FileContent(data),
                                   written |-> written])
    BY <1>10
  <2>. DEFINE file == [filename |-> filename, content |-> FileContent(data),
                       written |-> written]
              c == FileContent(data)
  <2>2. IsFile(part)
    BY <1>4, <1>10 DEF IsFile
  <2>3. /\ c \in Seq(TokensIn(Parts))
        /\ \/ /\ c = part.data /\ k + 1 # N /\ e \in 0 .. received
              /\ buffer_str' = Left(e)
           \/ /\ IsPrefix(c, Rests(part))
              /\ k + 1 = N /\ received = Len(Sent) => c = Rests(part)
              /\ buffer_str' = Left(received)
              /\ received <= e \/ k + 1 = N
    BY <1>0, <1>1, <1>4, <1>5, <1>10, ContentSaved DEF to, s, e, TypeOK
  <2>4. file \in File
    <3>1. part.filename \in {Parts[i].filename : i \in DOMAIN Parts}
      <4>1. k + 1 \in DOMAIN Parts
        <5>1. N \in Nat /\ DOMAIN Parts = 1 .. N
          BY <1>0, BodyIsASequence DEF TypeOK
        <5>. QED  BY <1>5, <5>1
      <4>. QED  BY <4>1
    <3>. HIDE DEF c
    <3>. QED  BY <1>4, <2>3, <3>1 DEF File, c
  <2>5. saved' = Append(saved, file) /\ file.filename = part.filename /\ file.content = c
    BY <1>4, <2>1
  <2>6. saved' \in Seq(File)
    <3>1. saved \in Seq(File)
      BY <1>0 DEF TypeOK
    <3>. HIDE DEF file, File
    <3>. QED  BY <2>4, <2>5, <3>1, AppendProperties
  <2>. HIDE DEF file, c
  <2>7. CASE c = part.data /\ k + 1 # N /\ e \in 0 .. received /\ buffer_str' = Left(e)
    <3>0. PICK q \in 0 .. received : q = e
      BY <2>7
    <3>1. SavedFirst(k + 1, q)'
      BY <1>0, <1>3, <1>5, <2>2, <2>4, <2>5, <2>7, FileSaved
    <3>2. NoneBefore(k + 1, q)
      <4>1. q \in Nat /\ q = Start(Parts, k + 1)
        BY <1>5, <3>0 DEF e
      <4>. QED  BY <4>1 DEF NoneBefore
    <3>. QED  BY <1>5, <2>6, <2>7, <3>0, <3>1, <3>2
  <2>8. CASE /\ IsPrefix(c, Rests(part))
             /\ k + 1 = N /\ received = Len(Sent) => c = Rests(part)
             /\ buffer_str' = Left(received)
             /\ received <= e \/ k + 1 = N
    <3>0. PICK q \in 0 .. received : q = received
      BY <1>5
    <3>1. SavedFirst(k + 1, q)'
      BY <1>0, <1>3, <1>5, <2>2, <2>4, <2>5, <2>8, <3>0, FileSaved DEF e
    <3>2. NoneBefore(k + 1, q)
      <4>1. \A i \in received + 1 .. Start(Parts, k + 1) : i > received
        BY <1>5
      <4>. QED  BY <2>8, <3>0, <4>1 DEF NoneBefore, e
    <3>. QED  BY <1>5, <2>6, <2>8, <3>0, <3>1, <3>2
  <2>. QED  BY <2>3, <2>7, <2>8
<1>. QED  BY <1>8, <1>9, <1>10

LEMMA UploadSavingEnds == ASSUME UploadInv, SavingEnds  PROVE UploadInv'
<1>0. TypeOK /\ phase = "saving" /\ phase' = "done" /\ saved' = saved
      /\ request' = request /\ received' = received /\ boundary' = boundary
      /\ content_length' = content_length
      /\ (FindBoundary(buffer_str) = 0 \/ HeadersEnd = 0)
  BY DEF UploadInv, SavingEnds, headers
<1>1. Parts' = Parts /\ N' = N /\ Sent' = Sent /\ File' = File
  BY <1>0 DEF Parts, N, Sent, File
<1>2. AllAreSaved'
  <2>. SUFFICES ASSUME boundary = "X"
                PROVE  \E k \in 0 .. N :
                          /\ SavedFirst(k, received)
                          /\ received = Len(Sent) => k = N
                          /\ k + 1 < N => received <= Start(Parts, k + 1)
    BY <1>0, <1>1 DEF AllAreSaved, SavedFirst, RunsOn
  <2>1. PICK k \in 0 .. N : \E p \in 0 .. received :
           buffer_str = Left(p) /\ NoneBefore(k, p) /\ SavedFirst(k, p)
    BY <1>0 DEF UploadInv, SavingAPart
  <2>2. PICK p \in 0 .. received :
           buffer_str = Left(p) /\ NoneBefore(k, p) /\ SavedFirst(k, p)
    BY <2>1
  <2>3. SavedFirst(k, received)
    BY <2>2 DEF SavedFirst
  <2>4. ASSUME k # N
        PROVE  received < Start(Parts, k + 1) /\ received # Len(Sent)
    <3>1. ~ (Start(Parts, k) + HeaderLen(Parts[k + 1]) <= received)
      BY <1>0, <2>2, <2>4, AtAPart DEF TypeOK
    <3>2. k \in 0 .. Len(request.parts) - 1
      BY <1>0, <2>4, BodyIsASequence DEF TypeOK, N, Parts
    <3>3. /\ Start(Parts, k) \in Nat /\ HeaderLen(Parts[k + 1]) \in {3, 4}
          /\ DataLen(Parts[k + 1]) \in Nat /\ Len(Sent) \in Nat
          /\ Start(Parts, k + 1) = Start(Parts, k) + HeaderLen(Parts[k + 1])
                                   + DataLen(Parts[k + 1]) + 1
          /\ Start(Parts, k + 1) + 1 <= Len(Sent)
      BY <1>0, <3>2, PartInBody DEF TypeOK, Parts, Sent
    <3>4. received \in Nat
      BY <1>0, <3>3 DEF TypeOK
    <3>. QED  BY <3>1, <3>3, <3>4
  <2>5. k + 1 < N => received <= Start(Parts, k + 1)
    <3>. SUFFICES ASSUME k + 1 < N  PROVE received <= Start(Parts, k + 1)
      OBVIOUS
    <3>1. /\ WellFormed(Parts) /\ N \in Nat /\ Len(Sent) \in Nat
          /\ k + 1 \in 0 .. Len(Parts) /\ k # N
      <4>1. WellFormed(Parts) /\ N \in Nat /\ Len(Sent) \in Nat
        BY <1>0, BodyIsASequence DEF TypeOK
      <4>. QED  BY <4>1 DEF N
    <3>2. Start(Parts, k + 1) \in Nat /\ received \in Nat
      BY <1>0, <3>1, Places DEF TypeOK
    <3>. QED  BY <2>4, <3>1, <3>2
  <2>. QED  BY <2>3, <2>4, <2>5
<1>3. TypeOK'
  BY <1>0, <1>1 DEF TypeOK
<1>4. EnoughIsRead'
  BY <1>0 DEF UploadInv, EnoughIsRead, Incomplete
<1>5. BoundaryIsKnown' /\ NothingSaved' /\ AllIsLeft' /\ SavingAPart'
  BY <1>0 DEF UploadInv, BoundaryIsKnown, NothingSaved, AllIsLeft, SavingAPart
<1>. QED  BY <1>2, <1>3, <1>4, <1>5 DEF UploadInv

LEMMA UploadStutter == ASSUME UploadInv, UNCHANGED vars  PROVE UploadInv'
<1>0. request' = request /\ received' = received /\ boundary' = boundary
      /\ content_length' = content_length /\ buffer_str' = buffer_str /\ saved' = saved
      /\ phase' = phase
  BY DEF vars, headers
<1>1. Parts' = Parts /\ N' = N /\ Sent' = Sent /\ File' = File
  BY <1>0 DEF Parts, N, Sent, File
<1>2. \A p : Left(p)' = Left(p)
  BY <1>0, <1>1 DEF Left
<1>3. \A k, p : NoneBefore(k, p)' <=> NoneBefore(k, p)
  BY <1>0, <1>1 DEF NoneBefore
<1>4. \A k, p : SavedFirst(k, p)' <=> SavedFirst(k, p)
  BY <1>0, <1>1 DEF SavedFirst, RunsOn
<1>5. TypeOK'
  BY <1>0, <1>1 DEF UploadInv, TypeOK
<1>6. BoundaryIsKnown' /\ NothingSaved' /\ AllIsLeft' /\ EnoughIsRead'
  BY <1>0, <1>2 DEF UploadInv, BoundaryIsKnown, NothingSaved, AllIsLeft, EnoughIsRead,
     Incomplete
<1>7. SavingAPart' /\ AllAreSaved'
  BY <1>0, <1>1, <1>2, <1>3, <1>4 DEF UploadInv, SavingAPart, AllAreSaved
<1>. QED  BY <1>5, <1>6, <1>7 DEF UploadInv

LEMMA UploadStep == UploadInv /\ [Next]_vars => UploadInv'
<1>. SUFFICES ASSUME UploadInv, [Next]_vars  PROVE UploadInv'
  OBVIOUS
<1>1. CASE FirstRead
  BY <1>1, UploadFirstRead
<1>2. CASE ReadMore
  BY <1>2, UploadReadMore
<1>3. CASE ClientCloses \/ NoLength
  BY <1>3, UploadGivenUp DEF ClientCloses, NoLength
<1>4. CASE ReadingEnds
  BY <1>4, UploadReadingEnds
<1>5. CASE SavePart
  BY <1>5, UploadSavePart
<1>6. CASE SavingEnds
  BY <1>6, UploadSavingEnds
<1>7. CASE UNCHANGED vars
  BY <1>7, UploadStutter
<1>. QED  BY <1>1, <1>2, <1>3, <1>4, <1>5, <1>6, <1>7 DEF Next

-------------------------------------------------------------------------------
(* The theorems *)

LEMMA SentBySaved == UploadInv => SavedIsSent
<1>. SUFFICES ASSUME UploadInv  PROVE SavedIsSent
  OBVIOUS
<1>0. /\ TypeOK /\ WellFormed(Parts) /\ N \in Nat /\ Len(Sent) \in Nat /\ received \in Nat
  <2>1. TypeOK
    BY DEF UploadInv
  <2>2. WellFormed(Parts) /\ N \in Nat /\ Len(Sent) \in Nat
    BY <2>1, BodyIsASequence DEF TypeOK
  <2>. QED  BY <2>1, <2>2 DEF TypeOK
<1>. DEFINE F == FilesOf(Parts)
<1>1. Files = F[N]
  BY DEF Files, Parts, N
<1>2. Len(Files) \in Nat
  <2>1. N \in 0 .. Len(Parts) /\ 0 \in 0 .. N
    BY <1>0 DEF N
  <2>. QED  BY <1>0, <1>1, <2>1, FilesFollow DEF N
<1>3. boundary = "Y" => saved = <<>>
  BY DEF UploadInv, NothingSaved
<1>4. CASE saved = <<>> /\ ~ (phase = "done" /\ boundary = "X")
  <2>1. Len(saved) = 0 /\ DOMAIN saved = {}
    BY <1>4
  <2>. QED  BY <1>2, <1>3, <1>4, <2>1 DEF SavedIsSent
<1>5. CASE (phase = "saving" \/ phase = "done") /\ boundary = "X"
  <2>1. PICK k \in 0 .. N : \E p \in 0 .. received :
           /\ SavedFirst(k, p)
           /\ phase = "done" /\ received = Len(Sent) => k = N
    <3>1. CASE phase = "saving"
      BY <1>5, <3>1 DEF UploadInv, SavingAPart
    <3>2. CASE phase = "done"
      <4>1. received \in 0 .. received
        BY <1>0
      <4>. QED  BY <1>5, <3>2, <4>1 DEF UploadInv, AllAreSaved
    <3>. QED  BY <1>5, <3>1, <3>2
  <2>2. PICK p \in 0 .. received : SavedFirst(k, p)
    BY <2>1
  <2>. DEFINE files == F[k]
  <2>3. /\ Len(files) \in Nat /\ Len(files) <= Len(Files)
        /\ \A j \in 1 .. Len(files) : Files[j] = files[j]
    <3>1. N \in 0 .. Len(Parts)
      BY <1>0 DEF N
    <3>. QED  BY <1>0, <1>1, <3>1, FilesFollow DEF N
  <2>4. /\ Len(saved) = Len(files)
        /\ \A j \in 1 .. Len(files) :
              /\ saved[j].filename = files[j].filename
              /\ \/ saved[j].content = files[j].data
                 \/ j = Len(files) /\ IsPrefix(saved[j].content, Rests(files[j]))
        /\ k = N /\ N > 0 /\ received = Len(Sent) /\ IsFile(Parts[N]) =>
              Last(saved).content = Rests(Parts[N])
    BY <2>2 DEF SavedFirst
  <2>5. DOMAIN saved = 1 .. Len(saved)
    BY <1>0, LenProperties DEF TypeOK
  <2>. HIDE DEF files, F
  <2>6. Len(saved) <= Len(Files)
    BY <2>3, <2>4
  <2>7. ASSUME NEW i \in DOMAIN saved
        PROVE  /\ saved[i].filename = Files[i].filename
               /\ \/ saved[i].content = Files[i].data
                  \/ /\ i = Len(saved)
                     /\ IsPrefix(saved[i].content, Files[i].data \o <<Crlf, Closing>>)
    <3>1. i \in 1 .. Len(files) /\ Files[i] = files[i]
      BY <2>3, <2>4, <2>5
    <3>. QED  BY <2>4, <3>1 DEF Rests
  <2>8. ASSUME phase = "done", received = Len(Body(request))
        PROVE  /\ Len(saved) = Len(Files)
               /\ Len(request.parts) > 0 /\ IsFile(Last(request.parts)) =>
                     Last(saved).content = Last(Files).data \o <<Crlf, Closing>>
    <3>1. k = N /\ received = Len(Sent)
      BY <2>1, <2>8 DEF Sent
    <3>2. Len(saved) = Len(Files)
      BY <1>1, <2>4, <3>1 DEF files
    <3>3. ASSUME N > 0, IsFile(Parts[N])
          PROVE  Last(saved).content = Last(Files).data \o <<Crlf, Closing>>
      <4>1. Last(saved).content = Rests(Parts[N])
        BY <2>4, <3>1, <3>3
      <4>2. N - 1 \in 0 .. Len(Parts) - 1 /\ (N - 1) + 1 = N /\ N - 1 \in 0 .. Len(Parts)
            /\ N \in DOMAIN Parts
        BY <1>0, <3>3, PartsAreNumbered DEF N
      <4>3. /\ F[N] = Append(F[N - 1], Parts[N])
            /\ F[N - 1] \in Seq(Range(Parts)) /\ Parts[N] \in Range(Parts)
        <5>1. Parts[N] \in Range(Parts)
          BY <4>2 DEF Range
        <5>2. /\ F[(N - 1) + 1] = IF IsFile(Parts[(N - 1) + 1])
                                 THEN Append(F[N - 1], Parts[(N - 1) + 1]) ELSE F[N - 1]
              /\ F[N - 1] \in Seq(Range(Parts))
          BY <1>0, <4>2, FilesSteps DEF F
        <5>. QED  BY <3>3, <4>2, <5>1, <5>2
      <4>4. Last(Files) = Parts[N]
        BY <1>1, <4>3, AppendProperties DEF Last
      <4>. QED  BY <4>1, <4>4 DEF Rests
    <3>. QED  BY <3>2, <3>3 DEF Last, Parts, N
  <2>. QED  BY <1>3, <2>6, <2>7, <2>8 DEF SavedIsSent
<1>6. \/ saved = <<>> /\ ~ (phase = "done" /\ boundary = "X")
      \/ (phase = "saving" \/ phase = "done") /\ boundary = "X"
  BY DEF UploadInv, TypeOK, NothingSaved, BoundaryIsKnown
<1>. QED  BY <1>4, <1>5, <1>6

(* A file that is not in the tail the reading loop may miss is saved whole. *)
LEMMA EarlyFilesBySaved == UploadInv => EarlyFilesAreWhole
<1>. SUFFICES ASSUME UploadInv, Believed, boundary = "X", phase = "done",
                     NEW n \in 1 .. N - 1, IsFile(Parts[n]),
                     HeaderSize + Start(Parts, n) < Len(Sent)
              PROVE  LET i == Len(FilesOf(Parts)[n])
                     IN  /\ i \in DOMAIN saved
                         /\ saved[i].filename = Parts[n].filename
                         /\ saved[i].content = Parts[n].data
  BY DEF EarlyFilesAreWhole, Parts, N, Sent
<1>. DEFINE F == FilesOf(Parts)
            i == Len(F[n])
<1>1. /\ TypeOK /\ WellFormed(Parts) /\ N \in Nat /\ Len(Sent) \in Nat
      /\ received \in Nat /\ HeaderSize \in Nat
  <2>1. TypeOK
    BY DEF UploadInv
  <2>2. WellFormed(Parts) /\ N \in Nat /\ Len(Sent) \in Nat
    BY <2>1, BodyIsASequence DEF TypeOK
  <2>. QED  BY <2>1, <2>2, RequestsAssumption DEF TypeOK
<1>2. /\ n \in 1 .. Len(Parts) /\ n \in 0 .. Len(Parts) /\ n - 1 \in 0 .. Len(Parts) - 1
      /\ n - 1 \in 0 .. Len(Parts) /\ (n - 1) + 1 = n /\ n \in Nat /\ N = Len(Parts)
  BY <1>1 DEF N
<1>3. Start(Parts, n) \in Nat /\ Start(Parts, n) < received
  <2>1. Start(Parts, n) \in Nat
    BY <1>1, <1>2, Places
  <2>2. ~ (HeaderSize + received < Len(Sent))
    BY <1>1 DEF UploadInv, EnoughIsRead, Incomplete, Believed, Sent
  <2>. QED  BY <1>1, <2>1, <2>2
<1>4. PICK k \in 0 .. N :
         SavedFirst(k, received) /\ (k + 1 < N => received <= Start(Parts, k + 1))
  BY DEF UploadInv, AllAreSaved
<1>5. n <= k
  <2>. SUFFICES ASSUME k < n  PROVE FALSE
    BY <1>1, <1>2
  <2>1. k + 1 < N /\ k + 1 \in 0 .. n
    BY <1>1, <1>2
  <2>2. Start(Parts, k + 1) <= Start(Parts, n)
    BY <1>1, <1>2, <2>1, PartsFollow
  <2>3. Start(Parts, k + 1) \in Nat
    BY <1>1, <1>2, <2>1, Places
  <2>. QED  BY <1>1, <1>3, <1>4, <2>1, <2>2, <2>3
<1>6. /\ F[n] = Append(F[n - 1], Parts[n]) /\ F[n - 1] \in Seq(Range(Parts))
      /\ Parts[n] \in Range(Parts)
  <2>1. Parts[n] \in Range(Parts)
    BY <1>1, <1>2, PartsAreNumbered DEF Range
  <2>2. /\ F[(n - 1) + 1] = IF IsFile(Parts[(n - 1) + 1])
                             THEN Append(F[n - 1], Parts[(n - 1) + 1]) ELSE F[n - 1]
        /\ F[n - 1] \in Seq(Range(Parts))
    BY <1>1, <1>2, FilesSteps
  <2>. QED  BY <1>2, <2>1, <2>2
<1>7. i \in Nat \ {0} /\ F[n][i] = Parts[n]
  BY <1>6, AppendProperties, LenProperties
<1>8. /\ Len(F[k]) \in Nat /\ i <= Len(F[k]) /\ F[k][i] = Parts[n]
  <2>1. k \in 0 .. Len(Parts) /\ n \in 0 .. k
    BY <1>1, <1>2, <1>5
  <2>2. /\ Len(F[k]) \in Nat /\ Len(F[n]) <= Len(F[k])
        /\ \A j \in 1 .. Len(F[n]) : F[k][j] = F[n][j]
    BY <1>1, <2>1, FilesFollow
  <2>. HIDE DEF F
  <2>. QED  BY <1>7, <2>2
<1>9. ASSUME i = Len(F[k]), RunsOn(k)  PROVE FALSE
  <2>1. CASE k = n
    BY <1>1, <1>2, <1>3, <1>9, <2>1 DEF RunsOn
  <2>2. CASE k # n
    <3>1. /\ k - 1 \in 0 .. Len(Parts) - 1 /\ (k - 1) + 1 = k /\ n \in 0 .. k - 1
          /\ k - 1 \in 0 .. Len(Parts)
      BY <1>1, <1>2, <1>5, <2>2
    <3>2. F[(k - 1) + 1] = IF IsFile(Parts[(k - 1) + 1])
                           THEN Append(F[k - 1], Parts[(k - 1) + 1]) ELSE F[k - 1]
      BY <1>1, <3>1, FilesSteps
    <3>3. F[k] = Append(F[k - 1], Parts[k])
      BY <1>9, <3>1, <3>2 DEF RunsOn
    <3>4. F[k - 1] \in Seq(Range(Parts)) /\ Len(F[n]) <= Len(F[k - 1])
      BY <1>1, <3>1, FilesSteps, FilesFollow
    <3>5. Len(F[k]) = Len(F[k - 1]) + 1 /\ Len(F[k - 1]) \in Nat
      <4>. HIDE DEF F
      <4>1. Parts[k] \in Range(Parts)
        BY <1>1, <1>2, <3>1, PartsAreNumbered DEF Range
      <4>. QED  BY <3>3, <3>4, <4>1, AppendProperties, LenProperties
    <3>. HIDE DEF F
    <3>. QED  BY <1>9, <3>4, <3>5
  <2>. QED  BY <2>1, <2>2
<1>10. /\ Len(saved) = Len(F[k])
       /\ \A j \in 1 .. Len(F[k]) :
             /\ saved[j].filename = F[k][j].filename
             /\ saved[j].content = F[k][j].data \/ (j = Len(F[k]) /\ RunsOn(k))
  BY <1>4 DEF SavedFirst
<1>11. DOMAIN saved = 1 .. Len(saved)
  BY <1>1, LenProperties DEF TypeOK
<1>12. i \in 1 .. Len(F[k]) /\ i \in DOMAIN saved
  BY <1>7, <1>8, <1>10, <1>11
<1>. HIDE DEF F
<1>13. saved[i].filename = Parts[n].filename /\ saved[i].content = Parts[n].data
  BY <1>8, <1>9, <1>10, <1>12
<1>. QED  BY <1>12, <1>13 DEF F

LEMMA UploadIsInvariant == Spec => []UploadInv
BY UploadInit, UploadStep, PTL DEF Spec

(* The files handle_client writes are the first files of the form, in its
   order and under their names, with the content that was sent; only the last
   of them can be cut where the reading stopped, or run on into the closing
   boundary. *)
THEOREM SavedAreSent == Spec => []SavedIsSent
BY UploadIsInvariant, SentBySaved, PTL

(* The reading loop of handle_client may leave as much of the body unread as
   the header is long, and a record may end anywhere; unless a line of the data
   was taken for the header's, a file is nevertheless written with exactly its
   content if the boundary behind it begins before this tail. *)
THEOREM EarlyFilesAreAlwaysWhole == Spec => []EarlyFilesAreWhole
BY UploadIsInvariant, EarlyFilesBySaved, PTL

===============================================================================
