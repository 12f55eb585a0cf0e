--------------------------- MODULE RequestsProofs ---------------------------
(***************************************************************************)
(* What a client's message is cut into, what its executors compare and     *)
(* what it is answered, for any message, any tables and any number of      *)
(* databases.                                                              *)
(***************************************************************************)
EXTENDS Requests, DataLemmas

-----------------------------------------------------------------------------
(* Cutting a message.                                                      *)

\* A part of a text.
LEMMA PartOfText ==
  ASSUME NEW S, NEW s \in Seq(S), NEW b \in Int, NEW e \in Int, 1 <= b, e <= Len(s)
  PROVE  /\ SubSeq(s, b, e) \in Seq(S)
         /\ b <= e + 1 => Len(SubSeq(s, b, e)) = e - b + 1
         /\ \A i \in 1 .. e - b + 1 : SubSeq(s, b, e)[i] = s[b + i - 1]
<1>1. Len(s) \in Nat
  BY LenProperties
<1>2. \A i \in b .. e : s[i] \in S
  <2>1. \A i \in b .. e : i \in 1 .. Len(s)
    BY <1>1
  <2> QED BY <2>1, ElementOfSeq
<1> QED BY <1>2, SubSeqProperties

LEMMA LettersBounds ==
  ASSUME NEW S, NEW s \in Seq(S), NEW c, Letters(s, c) # {}
  PROVE  /\ Min(Letters(s, c)) \in 1 .. Len(s) /\ Max(Letters(s, c)) \in 1 .. Len(s)
         /\ Min(Letters(s, c)) \in Letters(s, c) /\ Max(Letters(s, c)) \in Letters(s, c)
         /\ \A i \in Letters(s, c) : Min(Letters(s, c)) <= i /\ i <= Max(Letters(s, c))
<1>1. Len(s) \in Nat /\ DOMAIN s = 1 .. Len(s)
  BY LenProperties
<1>2. Letters(s, c) \subseteq 1 .. Len(s)
  BY <1>1 DEF Letters
<1>3. Letters(s, c) \subseteq Nat /\ Letters(s, c) \subseteq 0 .. Len(s)
  BY <1>1, <1>2
<1>4. Min(Letters(s, c)) \in Letters(s, c) /\ \A i \in Letters(s, c) : Min(Letters(s, c)) <= i
  BY <1>3, MinExists
<1>5. Max(Letters(s, c)) \in Letters(s, c) /\ \A i \in Letters(s, c) : i <= Max(Letters(s, c))
  BY <1>1, <1>3, MaxExists
<1> QED BY <1>2, <1>4, <1>5

LEMMA TrimText ==
  ASSUME NEW S, NEW s \in Seq(S), NEW c
  PROVE  LTrim(s, c) \in Seq(S) /\ RTrim(s, c) \in Seq(S) /\ Trim(s, c) \in Seq(S)
<1>1. ASSUME NEW t \in Seq(S)
      PROVE  LTrim(t, c) \in Seq(S) /\ RTrim(t, c) \in Seq(S)
  <2>1. CASE Letters(t, c) = {}
    BY <2>1, EmptySeq DEF LTrim, RTrim
  <2>2. CASE Letters(t, c) # {}
    <3>1. /\ Min(Letters(t, c)) \in Int /\ 1 <= Min(Letters(t, c))
          /\ Max(Letters(t, c)) \in Int /\ Max(Letters(t, c)) <= Len(t) /\ Len(t) \in Int
      BY <2>2, LettersBounds, LenProperties
    <3> QED BY <2>2, <3>1, PartOfText DEF LTrim, RTrim
  <2> QED BY <2>1, <2>2
<1> QED BY <1>1 DEF Trim

\* ltrim and rtrim leave what is between the first letter and the last.
LEMMA TrimmedPart ==
  ASSUME NEW S, NEW m \in Seq(S), NEW b \in Nat, NEW e \in Nat, 1 <= b, b <= e + 1, e <= Len(m)
  PROVE  Trim(SubSeq(m, b, e), Blank) = Between(m, b, e)
<1> DEFINE body == {k \in b .. e : m[k] # Blank}
           s == SubSeq(m, b, e)
<1>1. Len(m) \in Nat
  BY LenProperties
<1>2. s \in Seq(S) /\ Len(s) = e - b + 1 /\ \A i \in 1 .. e - b + 1 : s[i] = m[b + i - 1]
  BY PartOfText
<1>3. Letters(s, Blank) = {i \in 1 .. e - b + 1 : m[b + i - 1] # Blank}
  BY <1>2, LenProperties DEF Letters
<1>4. CASE body = {}
  <2>1. \A i \in 1 .. e - b + 1 : b + i - 1 \in b .. e
    OBVIOUS
  <2>2. Letters(s, Blank) = {}
    BY <1>3, <1>4, <2>1
  <2>3. Letters(<<>>, Blank) = {}
    BY DEF Letters
  <2> QED BY <1>4, <2>2, <2>3 DEF Trim, LTrim, RTrim, Between
<1> HIDE DEF s
<1>5. CASE body # {}
  <2>1. body \subseteq Nat /\ body \subseteq 0 .. e
    OBVIOUS
  <2>2. PICK lo \in Int :
          /\ lo = Min(body) /\ b <= lo /\ lo <= e /\ m[lo] # Blank
          /\ \A k \in b .. e : m[k] # Blank => lo <= k
    <3>1. Min(body) \in body /\ \A k \in body : Min(body) <= k
      BY <1>5, <2>1, MinExists
    <3>2. Min(body) \in b .. e /\ m[Min(body)] # Blank
      BY <3>1
    <3>3. \A k \in b .. e : m[k] # Blank => Min(body) <= k
      BY <3>1
    <3> HIDE DEF body
    <3> QED BY <3>2, <3>3
  <2>3. PICK hi \in Int :
          /\ hi = Max(body) /\ b <= hi /\ hi <= e /\ m[hi] # Blank
          /\ \A k \in b .. e : m[k] # Blank => k <= hi
    <3>1. Max(body) \in body /\ \A k \in body : k <= Max(body)
      BY <1>5, <2>1, MaxExists
    <3>2. Max(body) \in b .. e /\ m[Max(body)] # Blank
      BY <3>1
    <3>3. \A k \in b .. e : m[k] # Blank => k <= Max(body)
      BY <3>1
    <3> HIDE DEF body
    <3> QED BY <3>2, <3>3
  <2>4. Between(m, b, e) = SubSeq(m, lo, hi)
    BY <1>5, <2>2, <2>3 DEF Between
  <2> HIDE DEF body
  <2>5. lo <= hi
    BY <2>2, <2>3
  <2>6. Letters(s, Blank) # {} /\ Min(Letters(s, Blank)) = lo - b + 1
    <3>1. lo - b + 1 \in 1 .. e - b + 1 /\ b + (lo - b + 1) - 1 = lo
      BY <2>2
    <3>2. lo - b + 1 \in Letters(s, Blank)
      BY <1>3, <2>2, <3>1
    <3>3. Min(Letters(s, Blank)) \in Letters(s, Blank) /\ Min(Letters(s, Blank)) <= lo - b + 1
      BY <1>2, <3>2, LettersBounds
    <3>4. PICK i \in 1 .. e - b + 1 : i = Min(Letters(s, Blank)) /\ m[b + i - 1] # Blank
      BY <1>3, <3>3
    <3>5. b + i - 1 \in b .. e
      OBVIOUS
    <3>6. lo <= b + i - 1
      BY <2>2, <3>4, <3>5
    <3>7. i <= lo - b + 1
      BY <3>3, <3>4
    <3>8. i = lo - b + 1
      BY <2>2, <3>6, <3>7
    <3> QED BY <3>2, <3>4, <3>8
  <2> DEFINE t == SubSeq(m, lo, e)
  <2>7. LTrim(s, Blank) = t
    <3>1. b \in 1 .. Len(m) /\ e \in 1 .. Len(m)
      BY <1>1, <2>2
    <3>2. lo - b + 1 \in 1 .. e - b + 1 /\ e - b + 1 \in 1 .. e - b + 1
      BY <2>2
    <3>3. b + (lo - b + 1) - 1 = lo /\ b + (e - b + 1) - 1 = e
      BY <2>2
    <3>4. SubSeq(s, lo - b + 1, e - b + 1) = t
      BY <3>1, <3>2, <3>3, SubSeqOfSubSeq DEF s
    <3> QED BY <1>2, <2>6, <3>4 DEF LTrim
  <2>8. t \in Seq(S) /\ Len(t) = e - lo + 1 /\ \A i \in 1 .. e - lo + 1 : t[i] = m[lo + i - 1]
    <3>1. 1 <= lo /\ lo <= e + 1
      BY <2>2
    <3> QED BY <2>2, <3>1, PartOfText
  <2>9. Letters(t, Blank) = {i \in 1 .. e - lo + 1 : m[lo + i - 1] # Blank}
    BY <2>8, LenProperties DEF Letters
  <2> HIDE DEF t
  <2>10. Letters(t, Blank) # {} /\ Max(Letters(t, Blank)) = hi - lo + 1
    <3>1. hi - lo + 1 \in 1 .. e - lo + 1 /\ lo + (hi - lo + 1) - 1 = hi
      BY <2>2, <2>3, <2>5
    <3>2. hi - lo + 1 \in Letters(t, Blank)
      BY <2>3, <2>9, <3>1
    <3>3. Max(Letters(t, Blank)) \in Letters(t, Blank) /\ hi - lo + 1 <= Max(Letters(t, Blank))
      BY <2>8, <3>2, LettersBounds
    <3>4. PICK i \in 1 .. e - lo + 1 : i = Max(Letters(t, Blank)) /\ m[lo + i - 1] # Blank
      BY <2>9, <3>3
    <3>5. lo + i - 1 \in b .. e
      BY <2>2
    <3>6. lo + i - 1 <= hi
      BY <2>3, <3>4, <3>5
    <3>7. hi - lo + 1 <= i
      BY <3>3, <3>4
    <3>8. i = hi - lo + 1
      BY <3>6, <3>7
    <3> QED BY <3>2, <3>4, <3>8
  <2>11. SubSeq(t, 1, hi - lo + 1) = SubSeq(m, lo, hi)
    <3>1. lo \in 1 .. Len(m) /\ e \in 1 .. Len(m)
      BY <1>1, <2>2
    <3>2. hi - lo + 1 \in 1 .. e - lo + 1 /\ 1 \in 1 .. e - lo + 1
      BY <2>2, <2>3, <2>5
    <3>3. lo + (hi - lo + 1) - 1 = hi /\ lo + 1 - 1 = lo
      BY <2>2, <2>3
    <3> QED BY <3>1, <3>2, <3>3, SubSeqOfSubSeq DEF t
  <2>12. RTrim(t, Blank) = SubSeq(m, lo, hi)
    BY <2>10, <2>11 DEF RTrim
  <2> QED BY <2>4, <2>7, <2>12 DEF Trim, s
<1> QED BY <1>4, <1>5

\* The loop of create_request, turn by turn.
SplitTurns(m, n, f) ==
  f = [i \in 0 .. n |-> IF i = 0 THEN NoStatements ELSE NextStatement(m, f[i - 1])]

LEMMA SplitIs ==
  ASSUME NEW m, StatementCnt(m) \in Nat
  PROVE  \E f : SplitTurns(m, StatementCnt(m), f) /\ Split(m) = f[StatementCnt(m)]
<1> DEFINE P == {n \in Nat : \E f : SplitTurns(m, n, f)}
<1>1. 0 \in P
  <2>1. SplitTurns(m, 0, [i \in 0 .. 0 |-> NoStatements])
    BY DEF SplitTurns
  <2> QED BY <2>1
<1>2. ASSUME NEW n \in Nat, n \in P
      PROVE  n + 1 \in P
  <2>1. PICK f : SplitTurns(m, n, f)
    BY <1>2
  <2> DEFINE g == [i \in 0 .. n + 1 |-> IF i = n + 1 THEN NextStatement(m, f[n]) ELSE f[i]]
  <2>2. \A i \in 0 .. n : f[i] = IF i = 0 THEN NoStatements ELSE NextStatement(m, f[i - 1])
    BY <2>1 DEF SplitTurns
  <2>3. \A i \in 0 .. n + 1 : g[i] = IF i = n + 1 THEN NextStatement(m, f[n]) ELSE f[i]
    OBVIOUS
  <2> HIDE DEF g
  <2>4. ASSUME NEW i \in 0 .. n + 1
        PROVE  g[i] = IF i = 0 THEN NoStatements ELSE NextStatement(m, g[i - 1])
    <3>1. CASE i = n + 1
      <4>1. i # 0 /\ i - 1 = n /\ n \in 0 .. n + 1 /\ n # n + 1
        BY <3>1
      <4> QED BY <2>3, <3>1, <4>1
    <3>2. CASE i # n + 1
      <4>1. i \in 0 .. n
        BY <3>2
      <4>2. i # 0 => i - 1 \in 0 .. n + 1 /\ i - 1 # n + 1
        BY <4>1
      <4> QED BY <2>2, <2>3, <3>2, <4>1, <4>2
    <3> QED BY <3>1, <3>2
  <2>5. SplitTurns(m, n + 1, g)
    BY <2>4 DEF g, SplitTurns
  <2>6. \E h : SplitTurns(m, n + 1, h)
    BY <2>5
  <2> QED BY <2>6
<1>3. StatementCnt(m) \in P
  <2> HIDE DEF P
  <2>1. Nat \subseteq P
    BY <1>1, <1>2, SetInduction
  <2> QED BY <2>1
<1> DEFINE split[i \in 0 .. StatementCnt(m)] ==
             IF i = 0 THEN NoStatements ELSE NextStatement(m, split[i - 1])
<1>4. SplitTurns(m, StatementCnt(m), split)
  <2>1. split = CHOOSE f : SplitTurns(m, StatementCnt(m), f)
    BY DEF SplitTurns
  <2> HIDE DEF split
  <2> QED BY <1>3, <2>1
<1>5. Split(m) = split[StatementCnt(m)]
  BY DEF Split
<1> HIDE DEF split
<1> QED BY <1>4, <1>5

LEMMA SemicolonsCounted ==
  ASSUME NEW m \in Text
  PROVE  /\ Len(m) \in Nat /\ DOMAIN m = 1 .. Len(m)
         /\ Semicolons(m) \subseteq 1 .. Len(m) /\ IsFiniteSet(Semicolons(m))
         /\ Cardinality(Semicolons(m)) \in Nat
         /\ StatementCnt(m) \in Nat
         /\ Cardinality(Semicolons(m)) < W => StatementCnt(m) = Cardinality(Semicolons(m))
<1>1. Len(m) \in Nat /\ DOMAIN m = 1 .. Len(m)
  BY LenProperties DEF Text
<1>2. Semicolons(m) \subseteq 1 .. Len(m)
  BY <1>1 DEF Semicolons
<1>3. IsFiniteSet(Semicolons(m))
  <2>1. IsFiniteSet(1 .. Len(m))
    BY <1>1, FS_Interval
  <2> QED BY <1>2, <2>1, FS_Subset
<1>4. Cardinality(Semicolons(m)) \in Nat
  BY <1>3, FS_CardinalityType
<1> QED BY <1>1, <1>2, <1>3, <1>4, Wrapped, RequestsAssumption DEF StatementCnt

\* find: a position from start on whose semicolon it is, or npos; it fits.
LEMMA FoundSemicolon ==
  ASSUME NEW m \in Text, NEW start \in Nat
  PROVE  /\ FindSemicolon(m, start) \in Nat
         /\ NextStart(FindSemicolon(m, start)) \in 0 .. Len(m)
<1> DEFINE found == {i - 1 : i \in Semicolons(m)} \cap (start .. Len(m))
<1>1. Len(m) \in Nat /\ Semicolons(m) \subseteq 1 .. Len(m) /\ W \in Nat \ {0}
  BY SemicolonsCounted, RequestsAssumption
<1>2. CASE found = {}
  <2>1. FindSemicolon(m, start) = W - 1
    BY <1>2 DEF FindSemicolon
  <2>2. NextStart(W - 1) = 0
    <3>1. W - 1 + 1 = W /\ W % W = 0
      BY <1>1, Wrapped
    <3> QED BY <3>1 DEF NextStart
  <2> QED BY <1>1, <2>1, <2>2
<1>3. CASE found # {}
  <2>1. found \subseteq Nat
    OBVIOUS
  <2>2. Min(found) \in found
    BY <1>3, <2>1, MinExists
  <2>3. PICK p \in Nat : p = Min(found) /\ p + 1 <= Len(m)
    BY <1>1, <2>2
  <2>4. FindSemicolon(m, start) = p % W
    BY <1>3, <2>3 DEF FindSemicolon
  <2>5. p % W \in Nat /\ p % W <= p
    BY <1>1, Wrapped
  <2> DEFINE pos == p % W
  <2>6. pos \in Nat /\ pos <= p
    BY <2>5
  <2> HIDE DEF pos, found
  <2>7. (pos + 1) % W \in Nat /\ (pos + 1) % W <= pos + 1
    BY <1>1, <2>6, Wrapped
  <2>8. NextStart(pos) \in Nat /\ NextStart(pos) <= pos + 1
    BY <2>7 DEF NextStart
  <2>9. pos + 1 <= Len(m)
    BY <1>1, <2>3, <2>6
  <2>10. NextStart(pos) <= Len(m)
    BY <1>1, <2>6, <2>8, <2>9
  <2>11. NextStart(pos) \in 0 .. Len(m)
    BY <1>1, <2>8, <2>10
  <2> QED BY <2>4, <2>6, <2>11 DEF pos
<1> QED BY <1>2, <1>3

\* Wherever the positions have wrapped to, substr is given one in the message.
LEMMA SplitTurn ==
  ASSUME NEW m \in Text, NEW n, NEW f, n = StatementCnt(m), SplitTurns(m, n, f)
  PROVE  \A i \in 0 .. n :
           /\ f[i].start \in 0 .. Len(m) /\ ~f[i].threw
           /\ f[i].sqls \in Seq(Text) /\ Len(f[i].sqls) = i
<1> DEFINE Good(i) == /\ f[i].start \in 0 .. Len(m) /\ ~f[i].threw
                      /\ f[i].sqls \in Seq(Text) /\ Len(f[i].sqls) = i
           P == {i \in Nat : i \in 0 .. n => Good(i)}
<1>1. Len(m) \in Nat /\ n \in Nat
  BY SemicolonsCounted
<1>2. 0 \in P
  <2>1. f[0] = NoStatements
    BY <1>1 DEF SplitTurns
  <2>2. f[0].start = 0 /\ ~f[0].threw /\ f[0].sqls = <<>>
    BY <2>1 DEF NoStatements
  <2>3. <<>> \in Seq(Text) /\ Len(<<>>) = 0
    BY EmptySeq
  <2>4. f[0].start \in 0 .. Len(m)
    BY <1>1, <2>2
  <2>5. f[0].sqls \in Seq(Text) /\ Len(f[0].sqls) = 0
    BY <2>2, <2>3
  <2> QED BY <2>2, <2>4, <2>5
<1>3. ASSUME NEW i \in Nat, i \in P
      PROVE  i + 1 \in P
  <2> HIDE DEF Good
  <2> SUFFICES ASSUME i + 1 \in 0 .. n PROVE Good(i + 1)
    OBVIOUS
  <2> USE DEF Good
  <2>1. Good(i)
    BY <1>1, <1>3
  <2> DEFINE s == f[i]
             pos == FindSemicolon(m, s.start)
             sql == Trim(Substr(m, s.start, pos - s.start), Blank)
  <2>2. f[i + 1] = NextStatement(m, s)
    <3>1. i + 1 # 0 /\ (i + 1) - 1 = i
      OBVIOUS
    <3> QED BY <1>1, <3>1 DEF SplitTurns
  <2>3. pos \in Nat /\ NextStart(pos) \in 0 .. Len(m)
    <3>1. s.start \in Nat
      BY <1>1, <2>1
    <3> HIDE DEF s
    <3> QED BY <3>1, FoundSemicolon
  <2>4. sql \in Text
    <3> DEFINE from == s.start
               e == IF pos - from < 0 \/ from + (pos - from) > Len(m) THEN Len(m)
                    ELSE from + (pos - from)
    <3>1. from \in Nat
      BY <1>1, <2>1
    <3> HIDE DEF from, pos, s
    <3>2. from + 1 \in Int /\ 1 <= from + 1 /\ e \in Int /\ e <= Len(m)
      BY <1>1, <2>3, <3>1
    <3>3. SubSeq(m, from + 1, e) \in Text
      BY <3>2, PartOfText DEF Text
    <3>4. Substr(m, from, pos - from) \in Text
      BY <3>3 DEF Substr
    <3> QED BY <3>4, TrimText DEF Text, from
  <2>5. /\ f[i + 1].start = NextStart(pos)
        /\ f[i + 1].sqls = Append(s.sqls, sql)
        /\ f[i + 1].threw = (s.threw \/ s.start > Len(m))
    BY <2>2 DEF NextStatement
  <2>6. ~f[i + 1].threw
    <3>1. s.start \in Nat /\ s.start <= Len(m)
      BY <1>1, <2>1
    <3>2. ~(s.start > Len(m))
      BY <1>1, <3>1
    <3> QED BY <2>1, <2>5, <3>2
  <2>7. Append(s.sqls, sql) \in Seq(Text) /\ Len(Append(s.sqls, sql)) = i + 1
    BY <2>1, <2>4, AppendProperties
  <2> QED BY <2>3, <2>5, <2>6, <2>7
<1>4. Nat \subseteq P
  <2> HIDE DEF P
  <2> QED BY <1>2, <1>3, SetInduction
<1> QED BY <1>1, <1>4

-----------------------------------------------------------------------------
(* The statements of a message that fits.                                  *)

Upto(m, p) == {q \in Semicolons(m) : q <= p}

LEMMA UptoCounted ==
  ASSUME NEW m \in Text, NEW p \in Nat
  PROVE  /\ IsFiniteSet(Upto(m, p)) /\ Upto(m, p) \subseteq Semicolons(m)
         /\ Cardinality(Upto(m, p)) \in Nat
         /\ Cardinality(Upto(m, p)) # Cardinality(Semicolons(m)) <=>
              \E q \in Semicolons(m) : p < q
<1>1. Semicolons(m) \subseteq Nat /\ IsFiniteSet(Semicolons(m))
  BY SemicolonsCounted
<1>2. Upto(m, p) \subseteq Semicolons(m)
  BY DEF Upto
<1>3. /\ IsFiniteSet(Upto(m, p)) /\ Cardinality(Upto(m, p)) \in Nat
      /\ Cardinality(Upto(m, p)) = Cardinality(Semicolons(m)) => Upto(m, p) = Semicolons(m)
  BY <1>1, <1>2, FS_Subset, FS_CardinalityType
<1>4. Upto(m, p) = Semicolons(m) <=> ~\E q \in Semicolons(m) : p < q
  <2>1. \A q \in Semicolons(m) : q <= p <=> ~(p < q)
    BY <1>1
  <2> QED BY <2>1 DEF Upto
<1> QED BY <1>2, <1>3, <1>4

\* The number of semicolons up to one tells which one it is.
LEMMA EndOfIs ==
  ASSUME NEW m \in Text, NEW p \in Semicolons(m)
  PROVE  EndOf(m, Cardinality(Upto(m, p))) = p
<1>1. Semicolons(m) \subseteq Nat
  BY SemicolonsCounted
<1>2. ASSUME NEW q \in Semicolons(m), NEW r \in Semicolons(m), q < r
      PROVE  Cardinality(Upto(m, q)) # Cardinality(Upto(m, r))
  <2>1. Upto(m, q) \subseteq Upto(m, r) /\ r \in Upto(m, r) /\ r \notin Upto(m, q)
    <3>1. q \in Nat /\ r \in Nat /\ \A x \in Semicolons(m) : x \in Nat
      BY <1>1
    <3>2. \A x \in Semicolons(m) : x <= q => x <= r
      BY <1>2, <3>1
    <3>3. r <= r /\ ~(r <= q)
      BY <1>2, <3>1
    <3> QED BY <3>2, <3>3 DEF Upto
  <2>2. IsFiniteSet(Upto(m, r))
    BY <1>1, UptoCounted
  <2> QED BY <2>1, <2>2, FS_Subset
<1>3. ASSUME NEW q \in Semicolons(m), Cardinality(Upto(m, q)) = Cardinality(Upto(m, p))
      PROVE  q = p
  <2>1. ~(q < p) /\ ~(p < q)
    BY <1>2, <1>3
  <2>2. q \in Nat /\ p \in Nat
    BY <1>1
  <2> QED BY <2>1, <2>2
<1>4. EndOf(m, Cardinality(Upto(m, p))) =
        CHOOSE q \in Semicolons(m) : Cardinality(Upto(m, q)) = Cardinality(Upto(m, p))
  BY DEF EndOf, Upto
<1> QED BY <1>3, <1>4

\* The semicolon that find returns from just behind the i-th one.
LEMMA NextSemicolon ==
  ASSUME NEW m \in Text, Fits(m), NEW b \in Nat, b <= Len(m), NEW i \in Nat,
         Cardinality(Upto(m, b)) = i, i # Cardinality(Semicolons(m))
  PROVE  \E p \in Semicolons(m) :
           /\ b < p /\ p <= Len(m) /\ p = EndOf(m, i + 1)
           /\ Cardinality(Upto(m, p)) = i + 1
           /\ FindSemicolon(m, b) = p - 1
           /\ i + 1 # Cardinality(Semicolons(m)) => NextStart(p - 1) = p
<1>1. /\ Len(m) \in Nat /\ Semicolons(m) \subseteq 1 .. Len(m)
      /\ W \in Nat \ {0} /\ Len(m) <= W
  BY SemicolonsCounted, RequestsAssumption DEF Fits
<1> DEFINE rest == {q \in Semicolons(m) : b < q}
<1>2. rest # {} /\ rest \subseteq Nat
  <2>1. \E q \in Semicolons(m) : b < q
    BY UptoCounted
  <2>2. Semicolons(m) \subseteq Nat
    BY <1>1
  <2> QED BY <2>1, <2>2
<1>3. PICK p \in Nat : p = Min(rest) /\ p \in rest
  BY <1>2, MinExists
<1>4. \A q \in rest : p <= q
  BY <1>2, <1>3, MinExists
<1>5. p \in Semicolons(m) /\ b < p /\ p <= Len(m) /\ 1 <= p
  BY <1>1, <1>3
<1>6. Cardinality(Upto(m, p)) = i + 1
  <2>1. Upto(m, p) = Upto(m, b) \cup {p}
    <3>1. \A q \in Semicolons(m) : q \in Nat
      BY <1>1
    <3>2. \A q \in Semicolons(m) : q <= p <=> q <= b \/ q = p
      BY <1>4, <1>5, <3>1
    <3> QED BY <1>5, <3>2 DEF Upto
  <2>2. p \notin Upto(m, b)
    BY <1>5 DEF Upto
  <2>3. IsFiniteSet(Upto(m, b))
    BY UptoCounted
  <2> QED BY <2>1, <2>2, <2>3, FS_AddElement
<1>7. EndOf(m, i + 1) = p
  BY <1>5, <1>6, EndOfIs
<1>8. FindSemicolon(m, b) = p - 1
  <2> DEFINE found == {q - 1 : q \in Semicolons(m)} \cap (b .. Len(m))
  <2>1. p - 1 \in found
    <3>1. p - 1 \in b .. Len(m)
      BY <1>1, <1>5
    <3> QED BY <1>5, <3>1
  <2>2. Min(found) \in found /\ Min(found) <= p - 1
    <3>1. found \subseteq Nat
      OBVIOUS
    <3> HIDE DEF found
    <3> QED BY <2>1, <3>1, MinExists
  <2>3. PICK q \in Semicolons(m) : Min(found) = q - 1 /\ q - 1 \in b .. Len(m)
    BY <2>2
  <2>4. q \in Nat
    BY <1>1
  <2>5. p <= q
    <3>1. b < q
      BY <2>3, <2>4
    <3> QED BY <1>4, <3>1
  <2>6. q <= p
    BY <2>2, <2>3, <2>4
  <2>7. Min(found) = p - 1
    BY <2>3, <2>4, <2>5, <2>6
  <2>8. (p - 1) % W = p - 1
    <3>1. p - 1 \in Nat /\ p - 1 < W
      BY <1>1, <1>5
    <3> QED BY <1>1, <3>1, Wrapped
  <2>9. found # {}
    BY <2>1
  <2>10. FindSemicolon(m, b) = Min(found) % W
    BY <2>9 DEF FindSemicolon
  <2> QED BY <2>7, <2>8, <2>10
<1>9. ASSUME i + 1 # Cardinality(Semicolons(m))
      PROVE  NextStart(p - 1) = p
  <2>1. PICK q \in Semicolons(m) : p < q
    BY <1>6, <1>9, UptoCounted
  <2>2. p < W
    BY <1>1, <2>1
  <2>3. p % W = p
    BY <1>1, <2>2, Wrapped
  <2>4. (p - 1) + 1 = p
    OBVIOUS
  <2> QED BY <2>3, <2>4 DEF NextStart
<1> QED BY <1>5, <1>6, <1>7, <1>8, <1>9

\* create_request's statements are the texts between the semicolons.
LEMMA SplitRight ==
  ASSUME NEW m \in Text, Fits(m)
  PROVE  Split(m).sqls = Statements(m)
<1> DEFINE n == Cardinality(Semicolons(m))
           Bound(i) == IF i = 0 THEN 0 ELSE EndOf(m, i)
<1>1. Len(m) \in Nat /\ n \in Nat /\ n = StatementCnt(m) /\ Semicolons(m) \subseteq 1 .. Len(m)
  BY SemicolonsCounted DEF Fits
<1>2. PICK f : SplitTurns(m, n, f) /\ Split(m) = f[n]
  BY <1>1, SplitIs
<1>3. \A i \in 0 .. n : f[i].sqls \in Seq(Text) /\ Len(f[i].sqls) = i
  BY <1>1, <1>2, SplitTurn
<1> HIDE DEF n
<1> DEFINE Good(i) ==
      /\ Bound(i) \in 0 .. Len(m) /\ Cardinality(Upto(m, Bound(i))) = i
      /\ i # n => f[i].start = Bound(i)
      /\ \A j \in 1 .. i : f[i].sqls[j] = Between(m, BeginOf(m, j), EndOf(m, j) - 1)
    P == {i \in Nat : i \in 0 .. n => Good(i)}
<1>4. 0 \in P
  <2>1. f[0] = NoStatements
    BY <1>1, <1>2 DEF SplitTurns
  <2>2. Bound(0) \in 0 .. Len(m) /\ f[0].start = Bound(0)
    BY <1>1, <2>1 DEF NoStatements
  <2>3. Upto(m, Bound(0)) = {}
    BY <1>1 DEF Upto
  <2>4. Cardinality(Upto(m, Bound(0))) = 0
    BY <2>3, FS_EmptySet
  <2>5. Good(0)
    BY <2>2, <2>4
  <2> HIDE DEF Good
  <2> QED BY <2>5
<1>5. ASSUME NEW i \in Nat, i \in P
      PROVE  i + 1 \in P
  <2> HIDE DEF Good
  <2> SUFFICES ASSUME i + 1 \in 0 .. n PROVE Good(i + 1)
    OBVIOUS
  <2>1. Good(i) /\ i \in 0 .. n /\ i # n
    BY <1>1, <1>5
  <2>2. PICK b \in Nat : b = Bound(i) /\ b <= Len(m) /\ Cardinality(Upto(m, b)) = i
    BY <1>1, <2>1 DEF Good
  <2>3. f[i].start = b
    BY <2>1, <2>2 DEF Good
  <2>4. PICK p \in Semicolons(m) :
          /\ b < p /\ p <= Len(m) /\ p = EndOf(m, i + 1)
          /\ Cardinality(Upto(m, p)) = i + 1
          /\ FindSemicolon(m, b) = p - 1
          /\ i + 1 # n => NextStart(p - 1) = p
    BY <2>1, <2>2, NextSemicolon DEF n
  <2>5. p \in Nat
    BY <1>1
  <2>6. Bound(i + 1) = p
    BY <2>4
  <2>7. BeginOf(m, i + 1) = b + 1
    <3>1. CASE i = 0
      BY <2>2, <3>1 DEF BeginOf
    <3>2. CASE i # 0
      <4>1. i + 1 # 1 /\ (i + 1) - 1 = i
        BY <3>2
      <4> QED BY <2>2, <3>2, <4>1 DEF BeginOf
    <3> QED BY <3>1, <3>2
  <2> DEFINE s == f[i]
             sql == Trim(Substr(m, b, (p - 1) - b), Blank)
  <2>8. sql = Between(m, BeginOf(m, i + 1), EndOf(m, i + 1) - 1)
    <3>1. ~((p - 1) - b < 0) /\ ~(b + ((p - 1) - b) > Len(m)) /\ b + ((p - 1) - b) = p - 1
      BY <1>1, <2>4, <2>5
    <3>2. Substr(m, b, (p - 1) - b) = SubSeq(m, b + 1, p - 1)
      BY <3>1 DEF Substr
    <3>3. b + 1 \in Nat /\ p - 1 \in Nat /\ 1 <= b + 1 /\ b + 1 <= (p - 1) + 1 /\ p - 1 <= Len(m)
      BY <1>1, <2>4, <2>5
    <3>4. Trim(SubSeq(m, b + 1, p - 1), Blank) = Between(m, b + 1, p - 1)
      BY <3>3, TrimmedPart DEF Text
    <3> QED BY <2>4, <2>7, <3>2, <3>4
  <2>9. /\ f[i + 1].start = NextStart(p - 1)
        /\ f[i + 1].sqls = Append(s.sqls, sql)
    <3>1. i + 1 # 0 /\ (i + 1) - 1 = i
      OBVIOUS
    <3>2. f[i + 1] = NextStatement(m, s)
      BY <1>2, <3>1 DEF SplitTurns
    <3> QED BY <2>3, <2>4, <3>2 DEF NextStatement
  <2>10. ASSUME NEW j \in 1 .. i + 1
         PROVE  f[i + 1].sqls[j] = Between(m, BeginOf(m, j), EndOf(m, j) - 1)
    <3>1. s.sqls \in Seq(Text) /\ Len(s.sqls) = i
      BY <1>3, <2>1
    <3> HIDE DEF s, sql
    <3>2. CASE j = i + 1
      <4>1. Append(s.sqls, sql)[i + 1] = sql
        BY <3>1
      <4> QED BY <2>8, <2>9, <3>2, <4>1
    <3>3. CASE j # i + 1
      <4>1. j \in 1 .. i
        BY <3>3
      <4>2. Append(s.sqls, sql)[j] = s.sqls[j]
        BY <3>1, <4>1
      <4> QED BY <2>1, <2>9, <4>1, <4>2 DEF Good, s
    <3> QED BY <3>2, <3>3
  <2>11. p \in 0 .. Len(m) /\ Cardinality(Upto(m, p)) = i + 1 /\ (i + 1 # n => f[i + 1].start = p)
    BY <1>1, <2>4, <2>5, <2>9
  <2> HIDE DEF Bound
  <2> QED BY <2>6, <2>10, <2>11 DEF Good
<1>6. Good(n)
  <2> HIDE DEF Good
  <2>1. n \in P
    <3> HIDE DEF P
    <3>1. Nat \subseteq P
      BY <1>4, <1>5, SetInduction
    <3> QED BY <1>1, <3>1
  <2> QED BY <1>1, <2>1
<1>7. /\ DOMAIN f[n].sqls = 1 .. n
      /\ \A j \in 1 .. n : f[n].sqls[j] = Between(m, BeginOf(m, j), EndOf(m, j) - 1)
      /\ f[n].sqls \in Seq(Text) /\ Len(f[n].sqls) = n
  <2>1. f[n].sqls \in Seq(Text) /\ Len(f[n].sqls) = n
    BY <1>1, <1>3
  <2> QED BY <1>6, <2>1, LenProperties DEF Good
<1>8. Statements(m) = [j \in 1 .. n |-> Between(m, BeginOf(m, j), EndOf(m, j) - 1)]
  BY DEF Statements, n
<1>9. f[n].sqls = [j \in 1 .. n |-> Between(m, BeginOf(m, j), EndOf(m, j) - 1)]
  <2>1. f[n].sqls = [j \in DOMAIN f[n].sqls |-> f[n].sqls[j]]
    BY <1>7
  <2> QED BY <1>7, <2>1
<1> QED BY <1>2, <1>8, <1>9

-----------------------------------------------------------------------------
(* The invariant.                                                          *)

TaskState == {"none", "running", "done", "failed"}

ExecutorState == {"idle", "running", "selecting", "hashing", "unwinding", "done", "failed"}

Found == Tables \cup {NoTable}

Hashes == {NoHash} \cup {Hash(d, t) : d \in Dbs, t \in Found}

GrainRecord == [sql : Text, is_select : BOOLEAN, rows : Nat, sql_hash : Hashes]

AnswerText == Text \cup {<<ToString(n)>> : n \in Nat}

AnswerLine == [kind : {"M", "S"}, text : AnswerText]

Shape ==
  /\ msg \in Messages
  /\ phase \in {"received", "executing", "unwinding", "failed", "verified"}
  /\ grain \in [Dbs -> Seq(GrainRecord)]
  /\ at \in [Dbs -> Nat]
  /\ executor \in [Dbs -> ExecutorState]
  /\ task \in [Dbs -> [select : TaskState, hash : TaskState]]
  /\ table \in [Dbs -> Seq(Found)]
  /\ cursor \in [Dbs -> Seq(Seq(Values))]
  /\ asked \in 0 .. NDb
  /\ first \in 0 .. NDb
  /\ results \in Seq(AnswerLine)
  /\ pass \in BOOLEAN

\* Before create_request nothing has begun.
Received ==
  phase = "received" =>
    /\ first = NDb
    /\ \A d \in Dbs :
         /\ at[d] = 1 /\ task[d] = Idle /\ executor[d] = "idle"
         /\ grain[d] = <<>> /\ table[d] = <<>>

\* Every executor has the statements that the message was cut into.
Cut ==
  phase # "received" =>
    \A d \in Dbs :
      /\ Len(grain[d]) = Len(Split(msg).sqls) /\ Len(table[d]) = Len(Split(msg).sqls)
      /\ \A i \in 1 .. Len(grain[d]) :
           /\ grain[d][i].sql = Split(msg).sqls[i]
           /\ grain[d][i].is_select = (FirstWord(Split(msg).sqls[i]) = <<"select">>)

\* Tasks run for the select that the executor is at, the hash never alone.
Tasks ==
  \A d \in Dbs :
    /\ at[d] \in 1 .. Len(grain[d]) + 1
    /\ task[d] # Idle =>
         /\ at[d] \in 1 .. Len(grain[d]) /\ grain[d][at[d]].is_select
         /\ task[d].select # "none"
    /\ task[d].select = "done" \/ (task[d].select = "running" /\ d \in Asynch) =>
         task[d].hash # "none"

\* What each place of execute_sql_grains knows of the two tasks: outside of a
\* select there are none, and a failed executor has waited for both.
Waiting ==
  \A d \in Dbs :
    /\ executor[d] \in {"idle", "running", "done"} => task[d] = Idle
    /\ executor[d] = "selecting" => task[d] # Idle
    /\ executor[d] = "hashing" => task[d].select = "done"
    /\ executor[d] = "unwinding" => task[d].select = "failed"
    /\ executor[d] = "failed" => task[d].select # "running" /\ task[d].hash # "running"

\* Where execute_sql_grains and process_request have come to.
Ended ==
  /\ \A d \in Dbs : executor[d] = "done" => at[d] = Len(grain[d]) + 1
  /\ \A d \in Dbs : d < asked => executor[d] = "done"
  /\ phase = "failed" => \A d \in Dbs : executor[d] \in {"done", "failed"}
  /\ phase = "verified" => \A d \in Dbs : executor[d] = "done"
  /\ phase # "received" => \A d \in Dbs : executor[d] # "idle"
  /\ first # NDb => first \in Dbs /\ executor[first] = "done"

\* Every select that has ended has the hash of what it found.
Hashed ==
  \A d \in Dbs : \A i \in 1 .. Len(grain[d]) :
    /\ ~grain[d][i].is_select => table[d][i] = NoTable /\ grain[d][i].sql_hash = NoHash
    /\ grain[d][i].is_select => grain[d][i].rows = 0
    /\ grain[d][i].is_select /\ (i < at[d] \/ (i = at[d] /\ task[d].select # "none")) =>
         table[d][i] \in Tables
    /\ grain[d][i].is_select /\ (i < at[d] \/ (i = at[d] /\ task[d].hash = "done")) =>
         grain[d][i].sql_hash = Hash(d, table[d][i])

OneSelect(d) ==
  \A i, j \in 1 .. Len(grain[d]) : grain[d][i].is_select /\ grain[d][j].is_select => i = j

\* cmd_sel has the rows of the only select until they are fetched.
Fetchable ==
  \A d \in Dbs : \A i \in 1 .. Len(grain[d]) :
    /\ OneSelect(d) /\ grain[d][i].is_select /\ executor[d] # "done"
    /\ i < at[d] \/ (i = at[d] /\ task[d].select = "done")
    => cursor[d] = table[d][i].rows

\* The verdict that was stored.
Judged == phase = "verified" => pass = Comparison

RequestsInv ==
  /\ Shape /\ Received /\ Cut /\ Tasks /\ Waiting /\ Ended /\ Hashed /\ Fetchable /\ Judged
  /\ ResultsDelivered

-----------------------------------------------------------------------------
(* Types of the data.                                                      *)

LEMMA SplitSafe ==
  ASSUME NEW m \in Text
  PROVE  ~Split(m).threw /\ Split(m).sqls \in Seq(Text)
<1>1. StatementCnt(m) \in Nat
  BY SemicolonsCounted
<1>2. PICK f : SplitTurns(m, StatementCnt(m), f) /\ Split(m) = f[StatementCnt(m)]
  BY <1>1, SplitIs
<1> QED BY <1>1, <1>2, SplitTurn

LEMMA FlattenType ==
  ASSUME NEW S, NEW seqs \in Seq(Seq(S))
  PROVE  FlattenSeq(seqs) \in Seq(S)
<1>1. CASE seqs = <<>>
  <2>1. FlattenSeq(seqs) = <<>>
    BY <1>1 DEF FlattenSeq
  <2> QED BY <2>1
<1>2. CASE seqs # <<>>
  <2>1. PICK f : Flattened(seqs, f) /\ FlattenSeq(seqs) = f[Len(seqs)]
    BY <1>2, FlattenSeqIs
  <2>2. Len(seqs) \in Nat \ {0} /\ \A i \in 1 .. Len(seqs) : seqs[i] \in Seq(S)
    BY <1>2, EmptySeq, ElementOfSeq
  <2> DEFINE P == {i \in Nat : i \in 1 .. Len(seqs) => f[i] \in Seq(S)}
  <2>3. 0 \in P
    OBVIOUS
  <2>4. ASSUME NEW i \in Nat, i \in P
        PROVE  i + 1 \in P
    <3> SUFFICES ASSUME i + 1 \in 1 .. Len(seqs) PROVE f[i + 1] \in Seq(S)
      OBVIOUS
    <3>1. f[i + 1] = IF i + 1 = 1 THEN seqs[i + 1] ELSE f[(i + 1) - 1] \o seqs[i + 1]
      BY <2>1 DEF Flattened
    <3>2. CASE i = 0
      BY <2>2, <3>1, <3>2
    <3>3. CASE i # 0
      <4>1. i + 1 # 1 /\ (i + 1) - 1 = i /\ i \in 1 .. Len(seqs)
        BY <2>2, <3>3
      <4>2. f[i] \in Seq(S) /\ seqs[i + 1] \in Seq(S)
        BY <2>2, <2>4, <4>1
      <4>3. f[i] \o seqs[i + 1] \in Seq(S)
        BY <4>2, ConcatProperties
      <4> QED BY <3>1, <4>1, <4>3
    <3> QED BY <3>2, <3>3
  <2>5. Nat \subseteq P
    <3> HIDE DEF P
    <3> QED BY <2>3, <2>4, SetInduction
  <2> QED BY <2>1, <2>2, <2>5
<1> QED BY <1>1, <1>2

LEMMA ShownText == \A value \in Values : Shown(value) \in Text
BY EmptySeq DEF Shown, Values, Text

LEMMA RowTextType ==
  ASSUME NEW row \in Seq(Values)
  PROVE  RowText(row) \in Text
<1> DEFINE columns == [i \in DOMAIN row |-> Append(Shown(row[i]), Comma)]
<1>1. /\ Len(row) \in Nat /\ DOMAIN row = 1 .. Len(row)
      /\ \A i \in 1 .. Len(row) : Shown(row[i]) \in Text
  BY LenProperties, ElementOfSeq, ShownText
<1>2. \A i \in 1 .. Len(row) : Append(Shown(row[i]), Comma) \in Text
  BY <1>1, AppendProperties, RequestsAssumption DEF Text
<1>3. columns \in Seq(Text)
  BY <1>1, <1>2
<1>4. FlattenSeq(columns) \in Text
  BY <1>3, FlattenType DEF Text
<1>5. RTrim(FlattenSeq(columns), Comma) \in Text
  BY <1>4, TrimText DEF Text
<1> QED BY <1>5 DEF RowText

LEMMA LinesType ==
  ASSUME NEW rows \in Seq(Seq(Values))
  PROVE  Lines(rows) \in Seq(AnswerLine)
<1>1. /\ Len(rows) \in Nat /\ DOMAIN rows = 1 .. Len(rows)
      /\ \A k \in 1 .. Len(rows) : RowText(rows[k]) \in Text
  BY LenProperties, ElementOfSeq, RowTextType
<1>2. \A k \in 1 .. Len(rows) : [kind |-> "S", text |-> RowText(rows[k])] \in AnswerLine
  BY <1>1 DEF AnswerLine, AnswerText
<1> QED BY <1>1, <1>2 DEF Lines

LEMMA ResultsType ==
  ASSUME NEW grains \in Seq(GrainRecord), NEW rows \in Seq(Seq(Values))
  PROVE  PrepareClientResults(grains, rows) \in Seq(AnswerLine)
<1> DEFINE select == SelectInSeq(grains, LAMBDA g : g.is_select)
           Of(i) == IF ~grains[i].is_select
                      THEN <<[kind |-> "M", text |-> <<ToString(RowsAffected(grains[i]))>>]>>
                    ELSE IF i = select THEN Lines(rows) ELSE <<>>
           parts == [i \in DOMAIN grains |-> Of(i)]
<1>1. /\ Len(grains) \in Nat /\ DOMAIN grains = 1 .. Len(grains)
      /\ \A i \in 1 .. Len(grains) : grains[i] \in GrainRecord
  BY LenProperties, ElementOfSeq
<1>2. Lines(rows) \in Seq(AnswerLine) /\ <<>> \in Seq(AnswerLine)
  BY LinesType, EmptySeq
<1>3. ASSUME NEW i \in 1 .. Len(grains)
      PROVE  <<[kind |-> "M", text |-> <<ToString(RowsAffected(grains[i]))>>]>> \in Seq(AnswerLine)
  <2>1. RowsAffected(grains[i]) \in Nat
    BY <1>1, Wrapped, RequestsAssumption DEF RowsAffected, GrainRecord
  <2>2. [kind |-> "M", text |-> <<ToString(RowsAffected(grains[i]))>>] \in AnswerLine
    BY <2>1 DEF AnswerLine, AnswerText
  <2> QED BY <2>2
<1> HIDE DEF select
<1>4. \A i \in 1 .. Len(grains) : Of(i) \in Seq(AnswerLine)
  BY <1>2, <1>3
<1>5. parts \in Seq(Seq(AnswerLine))
  <2> HIDE DEF Of
  <2> QED BY <1>1, <1>4
<1>6. PrepareClientResults(grains, rows) = FlattenSeq(parts)
  BY DEF PrepareClientResults, select
<1> HIDE DEF parts
<1> QED BY <1>5, <1>6, FlattenType

-----------------------------------------------------------------------------
(* Every step keeps the types.                                             *)

LEMMA MessageIsText == Shape => msg \in Text
BY RequestsAssumption DEF Shape, Text

\* Writing to one element of a function of sequences.
LEMMA ElementWritten ==
  ASSUME NEW D, NEW S, NEW f \in [D -> Seq(S)], NEW d \in D, NEW i \in 1 .. Len(f[d]), NEW v \in S
  PROVE  /\ [f EXCEPT ![d][i] = v] \in [D -> Seq(S)]
         /\ \A e \in D : e # d => [f EXCEPT ![d][i] = v][e] = f[e]
         /\ Len([f EXCEPT ![d][i] = v][d]) = Len(f[d])
         /\ \A j \in 1 .. Len(f[d]) : [f EXCEPT ![d][i] = v][d][j] = IF j = i THEN v ELSE f[d][j]
<1> DEFINE s == [f[d] EXCEPT ![i] = v]
<1>1. f[d] \in Seq(S)
  OBVIOUS
<1>2. /\ s \in Seq(S) /\ Len(s) = Len(f[d])
      /\ \A j \in 1 .. Len(f[d]) : s[j] = IF j = i THEN v ELSE f[d][j]
  BY <1>1, ExceptSeq
<1>3. [f EXCEPT ![d][i] = v] = [f EXCEPT ![d] = s]
  OBVIOUS
<1> HIDE DEF s
<1> QED BY <1>2, <1>3

LEMMA InitRequests == Init => RequestsInv
<1> SUFFICES ASSUME Init PROVE RequestsInv
  OBVIOUS
<1>1. /\ <<>> \in Seq(GrainRecord) /\ <<>> \in Seq(Found) /\ <<>> \in Seq(Seq(Values))
      /\ <<>> \in Seq(AnswerLine)
  OBVIOUS
<1>2. Shape
  <2>1. NDb \in Nat \ {0} /\ NDb \in 0 .. NDb
    BY RequestsAssumption
  <2>2. Idle \in [select : TaskState, hash : TaskState]
    BY DEF Idle, TaskState
  <2>3. task \in [Dbs -> [select : TaskState, hash : TaskState]]
    BY <2>2 DEF Init
  <2>4. results \in Seq(AnswerLine) /\ cursor \in [Dbs -> Seq(Seq(Values))]
    BY <1>1 DEF Init
  <2>5. grain \in [Dbs -> Seq(GrainRecord)] /\ table \in [Dbs -> Seq(Found)]
    BY <1>1 DEF Init
  <2>6. pass \in BOOLEAN
    BY DEF Init
  <2>7. at \in [Dbs -> Nat] /\ executor \in [Dbs -> ExecutorState] /\ asked \in 0 .. NDb
    BY RequestsAssumption DEF Init, ExecutorState
  <2> QED BY <2>1, <2>3, <2>4, <2>5, <2>6, <2>7 DEF Init, Shape
<1>3. Tasks /\ Waiting
  BY DEF Init, Tasks, Waiting, Idle
<1>4. Hashed /\ Fetchable
  BY DEF Init, Hashed, Fetchable
<1>5. Received /\ Cut
  BY DEF Init, Received, Cut
<1>6. Ended
  BY DEF Init, Ended, Dbs
<1>7. Judged /\ ResultsDelivered
  BY DEF Init, Judged, ResultsDelivered
<1> QED BY <1>2, <1>3, <1>4, <1>5, <1>6, <1>7 DEF RequestsInv

ExecutorStep(d) ==
  \/ StartSelect(d) \/ ExecuteSelect(d) \/ ExecuteHashSelect(d) \/ SelectFails(d)
  \/ GetSelect(d) \/ GetHash(d) \/ Unwind(d)
  \/ ExecuteDml(d) \/ DmlFails(d) \/ FirstDone(d) \/ LaterDone(d)

\* An executor is at work only before the request has its verdict, and a task
\* only while its executor waits for it.
LEMMA StepRuns ==
  ASSUME RequestsInv, NEW d \in Dbs, ExecutorStep(d)
  PROVE  /\ phase \in {"executing", "unwinding"}
         /\ executor[d] \in {"running", "selecting", "hashing", "unwinding"}
         /\ UNCHANGED <<msg, phase, asked, pass>>
<1>1. UNCHANGED <<msg, phase, asked, pass>>
  BY DEF ExecutorStep, StartSelect, ExecuteSelect, ExecuteHashSelect, SelectFails, GetSelect,
         GetHash, Unwind, ExecuteDml, DmlFails, FirstDone, LaterDone
<1>2. /\ executor[d] \in ExecutorState
      /\ phase \in {"received", "executing", "unwinding", "failed", "verified"}
      /\ executor[d] \in {"idle", "running", "done"} => task[d] = Idle
      /\ executor[d] = "failed" => task[d].select # "running" /\ task[d].hash # "running"
  BY DEF RequestsInv, Shape, Waiting
<1>3. executor[d] \in {"running", "selecting", "hashing", "unwinding"}
  <2>1. CASE ExecuteSelect(d) \/ ExecuteHashSelect(d) \/ SelectFails(d)
    <3>1. task[d].select = "running" \/ task[d].hash = "running"
      BY <2>1 DEF ExecuteSelect, ExecuteHashSelect, SelectFails
    <3>2. Idle.select = "none" /\ Idle.hash = "none"
      BY DEF Idle
    <3> QED BY <1>2, <3>1, <3>2 DEF ExecutorState
  <2>2. CASE ~(ExecuteSelect(d) \/ ExecuteHashSelect(d) \/ SelectFails(d))
    BY <2>2 DEF ExecutorStep, StartSelect, GetSelect, GetHash, Unwind, ExecuteDml, DmlFails,
                FirstDone, LaterDone, AllExecuted, AtStatement
  <2> QED BY <2>1, <2>2
<1>4. /\ phase = "received" => executor[d] = "idle"
      /\ phase \in {"failed", "verified"} => executor[d] \in {"done", "failed"}
  BY DEF RequestsInv, Received, Ended
<1> QED BY <1>1, <1>2, <1>3, <1>4

LEMMA ShapeStep == RequestsInv /\ [Next]_vars => Shape'
<1> SUFFICES ASSUME RequestsInv, [Next]_vars PROVE Shape'
  OBVIOUS
<1> USE DEF RequestsInv
<1>0. Shape
  OBVIOUS
<1>1. CASE UNCHANGED vars
  BY <1>1 DEF vars, runVars, Shape
<1>2. CASE CreateRequest
  <2> DEFINE sqls == Split(msg).sqls
  <2>1. sqls \in Seq(Text) /\ ~Split(msg).threw
    BY <1>0, SplitSafe, MessageIsText
  <2>2. Len(sqls) \in Nat /\ DOMAIN sqls = 1 .. Len(sqls) /\ \A i \in 1 .. Len(sqls) : sqls[i] \in Text
    BY <2>1, LenProperties, ElementOfSeq
  <2>3. phase' = "executing" /\ UNCHANGED <<msg, at, task, cursor, asked, first, results, pass>>
    BY <1>2, <2>1 DEF CreateRequest
  <2>4. executor' = [d \in Dbs |-> "running"]
    BY <1>2, <2>1 DEF CreateRequest
  <2>5. /\ grain' = [d \in Dbs |-> [i \in DOMAIN sqls |-> Grain(sqls[i])]]
        /\ table' = [d \in Dbs |-> [i \in DOMAIN sqls |-> NoTable]]
    BY <1>2 DEF CreateRequest, AddSqlGrains
  <2> HIDE DEF sqls
  <2>6. \A i \in 1 .. Len(sqls) : Grain(sqls[i]) \in GrainRecord
    BY <2>2 DEF Grain, GrainRecord, Hashes
  <2>7. [i \in DOMAIN sqls |-> Grain(sqls[i])] \in Seq(GrainRecord)
    BY <2>2, <2>6
  <2>8. [i \in DOMAIN sqls |-> NoTable] \in Seq(Found)
    BY <2>2 DEF Found
  <2>9. grain' \in [Dbs -> Seq(GrainRecord)] /\ table' \in [Dbs -> Seq(Found)]
    BY <2>5, <2>7, <2>8
  <2> QED BY <2>3, <2>4, <2>9 DEF Shape, ExecutorState
<1>3. CASE GetExecutor \/ VerifyRequest \/ RequestFails
  <2>1. UNCHANGED <<msg, grain, at, executor, task, table, cursor, first, results>>
    BY <1>3 DEF GetExecutor, VerifyRequest, RequestFails, runVars
  <2>2. phase' \in {"executing", "unwinding", "failed", "verified"}
    BY <1>3 DEF GetExecutor, VerifyRequest, RequestFails
  <2>3. pass' \in BOOLEAN
    BY <1>3 DEF GetExecutor, VerifyRequest, RequestFails, Comparison, Shape
  <2>4. asked' \in 0 .. NDb
    <3>1. CASE GetExecutor
      BY <3>1, RequestsAssumption DEF GetExecutor, Shape
    <3>2. CASE VerifyRequest \/ RequestFails
      BY <3>2 DEF VerifyRequest, RequestFails, Shape
    <3> QED BY <1>3, <3>1, <3>2
  <2> QED BY <2>1, <2>2, <2>3, <2>4 DEF Shape
<1>4. ASSUME NEW d \in Dbs
      PROVE  /\ StartSelect(d) => Shape'
             /\ ExecuteSelect(d) => Shape'
             /\ ExecuteHashSelect(d) => Shape'
             /\ SelectFails(d) => Shape'
             /\ GetSelect(d) => Shape'
             /\ GetHash(d) => Shape'
             /\ Unwind(d) => Shape'
             /\ ExecuteDml(d) => Shape'
             /\ DmlFails(d) => Shape'
             /\ FirstDone(d) => Shape'
             /\ LaterDone(d) => Shape'
  <2>0. /\ grain[d] \in Seq(GrainRecord) /\ DOMAIN grain[d] = 1 .. Len(grain[d])
        /\ table[d] \in Seq(Found) /\ DOMAIN table[d] = 1 .. Len(table[d])
        /\ task[d] \in [select : TaskState, hash : TaskState]
        /\ at[d] \in Nat
    BY LenProperties DEF Shape
  <2>00. ExecutorStep(d) => Len(table[d]) = Len(grain[d])
    BY StepRuns DEF Cut
  <2>1. ASSUME StartSelect(d) PROVE Shape'
    <3>1. at[d] \in 1 .. Len(table[d])
      BY <2>0, <2>00, <2>1 DEF ExecutorStep, StartSelect, AtStatement
    <3>2. PICK t \in Tables : table' = [table EXCEPT ![d][at[d]] = t]
      BY <2>1 DEF StartSelect
    <3>3. table' \in [Dbs -> Seq(Found)]
      BY <3>1, <3>2, ElementWritten DEF Shape, Found
    <3>4. task' \in [Dbs -> [select : TaskState, hash : TaskState]]
      BY <2>1 DEF StartSelect, Shape, TaskState
    <3>5. executor' \in [Dbs -> ExecutorState]
      BY <2>1 DEF StartSelect, Shape, ExecutorState
    <3> QED BY <2>1, <3>3, <3>4, <3>5 DEF StartSelect, Shape
  <2>2. ASSUME ExecuteSelect(d) PROVE Shape'
    <3>1. task' \in [Dbs -> [select : TaskState, hash : TaskState]]
      BY <2>0, <2>2 DEF ExecuteSelect, AfterSelect, Shape, TaskState
    <3>2. table[d][at[d]].rows \in Seq(Seq(Values))
      <4>1. task[d] # Idle
        BY <2>2 DEF ExecuteSelect, Idle
      <4>2. at[d] \in 1 .. Len(table[d])
        BY <2>00, <2>2, <4>1 DEF ExecutorStep, Tasks
      <4>3. table[d][at[d]] \in Found
        BY <2>0, <4>2, ElementOfSeq
      <4>4. NoTable.rows = <<>> /\ <<>> \in Seq(Seq(Values))
        BY DEF NoTable
      <4> QED BY <4>3, <4>4, TablesAssumption DEF Found
    <3>3. cursor' \in [Dbs -> Seq(Seq(Values))]
      BY <2>2, <3>2 DEF ExecuteSelect, Shape
    <3> QED BY <2>2, <3>1, <3>3 DEF ExecuteSelect, Shape
  <2>3. ASSUME ExecuteHashSelect(d) PROVE Shape'
    <3>1. task' \in [Dbs -> [select : TaskState, hash : TaskState]]
      BY <2>0, <2>3 DEF ExecuteHashSelect, Shape, TaskState
    <3>2. task[d] # Idle
      BY <2>3 DEF ExecuteHashSelect, Idle
    <3>3. at[d] \in 1 .. Len(grain[d]) /\ Len(table[d]) = Len(grain[d])
      BY <2>00, <2>3, <3>2 DEF ExecutorStep, Tasks
    <3>4. grain[d][at[d]] \in GrainRecord /\ table[d][at[d]] \in Found
      BY <2>0, <3>3, ElementOfSeq
    <3> DEFINE h == Hash(d, table[d][at[d]])
               g == [grain[d][at[d]] EXCEPT !.sql_hash = h]
    <3>5. h \in Hashes
      BY <3>4 DEF Hashes
    <3>6. grain' = [grain EXCEPT ![d][at[d]] = g]
      BY <2>3 DEF ExecuteHashSelect
    <3> HIDE DEF h
    <3>7. g \in GrainRecord
      BY <3>4, <3>5 DEF GrainRecord
    <3> HIDE DEF g
    <3>8. grain' \in [Dbs -> Seq(GrainRecord)]
      BY <3>3, <3>6, <3>7, ElementWritten DEF Shape
    <3> QED BY <2>3, <3>1, <3>8 DEF ExecuteHashSelect, Shape
  <2>4. ASSUME SelectFails(d) PROVE Shape'
    <3>1. PICK which \in {"select", "hash"} : task' = [task EXCEPT ![d][which] = "failed"]
      BY <2>4 DEF SelectFails
    <3>2. task' \in [Dbs -> [select : TaskState, hash : TaskState]]
      BY <2>0, <3>1 DEF Shape, TaskState
    <3> QED BY <2>4, <3>2 DEF SelectFails, Shape
  <2>5. ASSUME GetSelect(d) \/ GetHash(d) \/ Unwind(d) PROVE Shape'
    <3>1. /\ UNCHANGED <<msg, phase, grain, table, cursor, asked, first, results, pass>>
          /\ executor' \in {[executor EXCEPT ![d] = "hashing"], [executor EXCEPT ![d] = "unwinding"],
                            [executor EXCEPT ![d] = "running"], [executor EXCEPT ![d] = "failed"]}
          /\ at' \in {at, [at EXCEPT ![d] = @ + 1]}
          /\ task' \in {task, [task EXCEPT ![d] = Idle]}
      BY <2>5 DEF GetSelect, GetHash, Unwind
    <3>2. Idle \in [select : TaskState, hash : TaskState]
      BY DEF Idle, TaskState
    <3>3. task' \in [Dbs -> [select : TaskState, hash : TaskState]]
      BY <3>1, <3>2 DEF Shape
    <3>4. at' \in [Dbs -> Nat]
      <4>1. at[d] + 1 \in Nat
        BY <2>0
      <4> QED BY <3>1, <4>1 DEF Shape
    <3>5. executor' \in [Dbs -> ExecutorState]
      BY <3>1 DEF Shape, ExecutorState
    <3> QED BY <3>1, <3>3, <3>4, <3>5 DEF Shape
  <2>6. ASSUME ExecuteDml(d) PROVE Shape'
    <3>1. at[d] \in 1 .. Len(grain[d])
      BY <2>0, <2>6 DEF ExecuteDml, AtStatement
    <3>2. PICK n \in Nat : grain' = [grain EXCEPT ![d][at[d]].rows = n]
      BY <2>6, RequestsAssumption DEF ExecuteDml
    <3> DEFINE g == [grain[d][at[d]] EXCEPT !.rows = n]
    <3>3. grain[d][at[d]] \in GrainRecord
      BY <2>0, <3>1, ElementOfSeq
    <3>4. g \in GrainRecord
      BY <3>3 DEF GrainRecord
    <3>5. grain' = [grain EXCEPT ![d][at[d]] = g]
      BY <3>2
    <3> HIDE DEF g
    <3>6. grain' \in [Dbs -> Seq(GrainRecord)]
      BY <3>1, <3>4, <3>5, ElementWritten DEF Shape
    <3>7. at' \in [Dbs -> Nat]
      BY <2>0, <2>6 DEF ExecuteDml, Shape
    <3> QED BY <2>6, <3>6, <3>7 DEF ExecuteDml, Shape
  <2>7. ASSUME DmlFails(d) \/ LaterDone(d) PROVE Shape'
    BY <2>7 DEF DmlFails, LaterDone, Shape, ExecutorState
  <2>8. ASSUME FirstDone(d) PROVE Shape'
    <3>1. cursor[d] \in Seq(Seq(Values)) /\ <<>> \in Seq(Seq(Values))
      BY DEF Shape
    <3>2. results' \in Seq(AnswerLine)
      BY <2>0, <2>8, <3>1, ResultsType DEF FirstDone
    <3>3. cursor' \in [Dbs -> Seq(Seq(Values))]
      BY <2>8, <3>1 DEF FirstDone, Shape
    <3>4. d \in 0 .. NDb
      BY RequestsAssumption DEF Dbs
    <3> QED BY <2>8, <3>2, <3>3, <3>4 DEF FirstDone, Shape, ExecutorState
  <2> QED BY <2>1, <2>2, <2>3, <2>4, <2>5, <2>6, <2>7, <2>8
<1> QED BY <1>1, <1>2, <1>3, <1>4 DEF Next

-----------------------------------------------------------------------------
(* What the step of one executor leaves alone.                             *)

LEMMA OthersKept ==
  ASSUME RequestsInv, NEW d \in Dbs, ExecutorStep(d), NEW e \in Dbs, e # d
  PROVE  /\ grain'[e] = grain[e] /\ at'[e] = at[e] /\ executor'[e] = executor[e]
         /\ task'[e] = task[e] /\ table'[e] = table[e] /\ cursor'[e] = cursor[e]
<1>1. Shape
  BY DEF RequestsInv
<1>2. /\ ~(ExecuteHashSelect(d) \/ ExecuteDml(d)) => UNCHANGED grain
      /\ ~StartSelect(d) => UNCHANGED table
  BY DEF ExecutorStep, StartSelect, ExecuteSelect, ExecuteHashSelect, SelectFails, GetSelect,
         GetHash, Unwind, ExecuteDml, DmlFails, FirstDone, LaterDone
<1>3. grain'[e] = grain[e]
  <2>1. ExecuteHashSelect(d) => grain'[e] = grain[e]
    BY <1>1 DEF ExecuteHashSelect, Shape
  <2>2. ExecuteDml(d) => grain'[e] = grain[e]
    BY <1>1 DEF ExecuteDml, Shape
  <2> QED BY <1>2, <2>1, <2>2 DEF ExecutorStep
<1>4. table'[e] = table[e]
  <2>1. StartSelect(d) => table'[e] = table[e]
    BY <1>1 DEF StartSelect, Shape
  <2> QED BY <1>2, <2>1 DEF ExecutorStep
<1>5. at'[e] = at[e] /\ executor'[e] = executor[e]
  BY <1>1 DEF ExecutorStep, StartSelect, ExecuteSelect, ExecuteHashSelect, SelectFails, GetSelect,
              GetHash, Unwind, ExecuteDml, DmlFails, FirstDone, LaterDone, Shape
<1>6. task'[e] = task[e]
  <2>1. SelectFails(d) => task'[e] = task[e]
    BY <1>1 DEF SelectFails, Shape
  <2>2. GetHash(d) => task'[e] = task[e]
    BY <1>1 DEF GetHash, Shape
  <2>3. StartSelect(d) \/ ExecuteSelect(d) \/ ExecuteHashSelect(d) => task'[e] = task[e]
    BY <1>1 DEF StartSelect, ExecuteSelect, ExecuteHashSelect, Shape
  <2> QED BY <2>1, <2>2, <2>3 DEF ExecutorStep, GetSelect, Unwind, ExecuteDml, DmlFails,
                                  FirstDone, LaterDone
<1>7. cursor'[e] = cursor[e]
  BY <1>1 DEF ExecutorStep, StartSelect, ExecuteSelect, ExecuteHashSelect, SelectFails, GetSelect,
              GetHash, Unwind, ExecuteDml, DmlFails, FirstDone, LaterDone, Shape
<1> QED BY <1>3, <1>4, <1>5, <1>6, <1>7

\* A task runs for a statement that is there.
LEMMA TaskPlace ==
  ASSUME RequestsInv, NEW d \in Dbs, phase # "received"
  PROVE  /\ grain[d] \in Seq(GrainRecord) /\ table[d] \in Seq(Found)
         /\ Len(grain[d]) \in Nat /\ Len(table[d]) = Len(grain[d])
         /\ DOMAIN grain[d] = 1 .. Len(grain[d])
         /\ at[d] \in 1 .. Len(grain[d]) + 1
         /\ task[d] \in [select : TaskState, hash : TaskState]
         /\ task[d] # Idle =>
              /\ at[d] \in 1 .. Len(grain[d]) /\ grain[d][at[d]].is_select
              /\ grain[d][at[d]] \in GrainRecord /\ table[d][at[d]] \in Found
<1>1. /\ grain[d] \in Seq(GrainRecord) /\ table[d] \in Seq(Found)
      /\ task[d] \in [select : TaskState, hash : TaskState]
  BY DEF RequestsInv, Shape
<1>2. /\ Len(grain[d]) \in Nat /\ Len(table[d]) = Len(grain[d])
      /\ DOMAIN grain[d] = 1 .. Len(grain[d])
  BY <1>1, LenProperties DEF RequestsInv, Cut
<1>3. /\ at[d] \in 1 .. Len(grain[d]) + 1
      /\ task[d] # Idle => at[d] \in 1 .. Len(grain[d]) /\ grain[d][at[d]].is_select
  BY DEF RequestsInv, Tasks
<1>4. at[d] \in 1 .. Len(grain[d]) => grain[d][at[d]] \in GrainRecord /\ table[d][at[d]] \in Found
  BY <1>1, <1>2, ElementOfSeq
<1> QED BY <1>1, <1>2, <1>3, <1>4

\* The two actions that write into a statement's record.
LEMMA HashWritten ==
  ASSUME RequestsInv, NEW d \in Dbs, ExecuteHashSelect(d)
  PROVE  /\ Len(grain'[d]) = Len(grain[d])
         /\ \A j \in 1 .. Len(grain[d]) :
              grain'[d][j] = IF j = at[d]
                THEN [grain[d][j] EXCEPT !.sql_hash = Hash(d, table[d][at[d]])] ELSE grain[d][j]
         /\ at[d] \in 1 .. Len(grain[d]) /\ grain[d][at[d]].is_select /\ task[d] # Idle
<1>1. phase # "received" /\ task[d] # Idle
  <2>1. phase \in {"executing", "unwinding"}
    BY StepRuns DEF ExecutorStep
  <2>2. task[d] # Idle
    BY DEF ExecuteHashSelect, Idle
  <2> QED BY <2>1, <2>2
<1>2. /\ at[d] \in 1 .. Len(grain[d]) /\ grain[d][at[d]].is_select
      /\ grain[d][at[d]] \in GrainRecord /\ table[d][at[d]] \in Found
  BY <1>1, TaskPlace
<1> DEFINE h == Hash(d, table[d][at[d]])
           g == [grain[d][at[d]] EXCEPT !.sql_hash = h]
<1>3. h \in Hashes
  BY <1>2 DEF Hashes
<1>4. grain' = [grain EXCEPT ![d][at[d]] = g]
  BY DEF ExecuteHashSelect
<1>5. g \in GrainRecord
  <2> HIDE DEF h
  <2> QED BY <1>2, <1>3 DEF GrainRecord
<1> HIDE DEF g
<1>6. grain \in [Dbs -> Seq(GrainRecord)]
  BY DEF RequestsInv, Shape
<1>7. /\ Len(grain'[d]) = Len(grain[d])
      /\ \A j \in 1 .. Len(grain[d]) : grain'[d][j] = IF j = at[d] THEN g ELSE grain[d][j]
  BY <1>2, <1>4, <1>5, <1>6, ElementWritten
<1> QED BY <1>1, <1>2, <1>7 DEF g

LEMMA RowsWritten ==
  ASSUME RequestsInv, NEW d \in Dbs, ExecuteDml(d)
  PROVE  /\ Len(grain'[d]) = Len(grain[d])
         /\ \E n \in Nat : \A j \in 1 .. Len(grain[d]) :
              grain'[d][j] = IF j = at[d] THEN [grain[d][j] EXCEPT !.rows = n] ELSE grain[d][j]
         /\ at[d] \in 1 .. Len(grain[d]) /\ ~grain[d][at[d]].is_select
<1>1. phase # "received" /\ at[d] \in DOMAIN grain[d] /\ ~grain[d][at[d]].is_select
  BY StepRuns DEF ExecutorStep, ExecuteDml, AtStatement
<1>2. at[d] \in 1 .. Len(grain[d])
  BY <1>1, TaskPlace
<1>3. grain[d][at[d]] \in GrainRecord
  BY <1>1, <1>2, TaskPlace, ElementOfSeq
<1>4. PICK n \in Nat : grain' = [grain EXCEPT ![d][at[d]].rows = n]
  BY RequestsAssumption DEF ExecuteDml
<1> DEFINE g == [grain[d][at[d]] EXCEPT !.rows = n]
<1>5. grain' = [grain EXCEPT ![d][at[d]] = g]
  BY <1>4
<1>6. g \in GrainRecord
  BY <1>3 DEF GrainRecord
<1> HIDE DEF g
<1>7. grain \in [Dbs -> Seq(GrainRecord)]
  BY DEF RequestsInv, Shape
<1>8. /\ Len(grain'[d]) = Len(grain[d])
      /\ \A j \in 1 .. Len(grain[d]) : grain'[d][j] = IF j = at[d] THEN g ELSE grain[d][j]
  BY <1>2, <1>5, <1>6, <1>7, ElementWritten
<1> QED BY <1>1, <1>2, <1>8 DEF g

LEMMA TableWritten ==
  ASSUME RequestsInv, NEW d \in Dbs, StartSelect(d)
  PROVE  /\ Len(table'[d]) = Len(table[d])
         /\ \E t \in Tables : \A j \in 1 .. Len(table[d]) :
              table'[d][j] = IF j = at[d] THEN t ELSE table[d][j]
         /\ at[d] \in 1 .. Len(grain[d]) /\ Len(table[d]) = Len(grain[d])
<1>1. phase # "received" /\ at[d] \in DOMAIN grain[d]
  BY StepRuns DEF ExecutorStep, StartSelect, AtStatement
<1>2. at[d] \in 1 .. Len(grain[d]) /\ Len(table[d]) = Len(grain[d])
  BY <1>1, TaskPlace
<1>3. PICK t \in Tables : table' = [table EXCEPT ![d][at[d]] = t]
  BY DEF StartSelect
<1>4. table \in [Dbs -> Seq(Found)] /\ t \in Found
  BY DEF RequestsInv, Shape, Found
<1>5. /\ Len(table'[d]) = Len(table[d])
      /\ \A j \in 1 .. Len(table[d]) : table'[d][j] = IF j = at[d] THEN t ELSE table[d][j]
  BY <1>2, <1>3, <1>4, ElementWritten
<1> QED BY <1>2, <1>5

\* No step changes which statements there are.
LEMMA StatementsKept ==
  ASSUME RequestsInv, NEW d \in Dbs, ExecutorStep(d), NEW e \in Dbs
  PROVE  /\ Len(grain'[e]) = Len(grain[e]) /\ Len(table'[e]) = Len(table[e])
         /\ \A i \in 1 .. Len(grain[e]) :
              grain'[e][i].sql = grain[e][i].sql /\ grain'[e][i].is_select = grain[e][i].is_select
<1>1. CASE e # d
  BY <1>1, OthersKept
<1>2. CASE e = d
  <2>1. \A i \in 1 .. Len(grain[d]) : grain[d][i] \in GrainRecord
    BY StepRuns, TaskPlace, ElementOfSeq
  <2>2. CASE ExecuteHashSelect(d)
    <3>1. ASSUME NEW i \in 1 .. Len(grain[d])
          PROVE  grain'[d][i].sql = grain[d][i].sql /\ grain'[d][i].is_select = grain[d][i].is_select
      <4>1. CASE i = at[d]
        <5> DEFINE h == Hash(d, table[d][at[d]])
        <5>1. grain'[d][i] = [grain[d][i] EXCEPT !.sql_hash = h]
          BY <2>2, <4>1, HashWritten
        <5> HIDE DEF h
        <5> QED BY <2>1, <5>1 DEF GrainRecord
      <4>2. CASE i # at[d]
        BY <2>2, <4>2, HashWritten
      <4> QED BY <4>1, <4>2
    <3> QED BY <1>2, <2>2, <3>1, HashWritten DEF ExecuteHashSelect
  <2>3. CASE ExecuteDml(d)
    <3>1. ASSUME NEW i \in 1 .. Len(grain[d])
          PROVE  grain'[d][i].sql = grain[d][i].sql /\ grain'[d][i].is_select = grain[d][i].is_select
      <4>1. PICK n \in Nat :
              grain'[d][i] = IF i = at[d] THEN [grain[d][i] EXCEPT !.rows = n] ELSE grain[d][i]
        BY <2>3, RowsWritten
      <4> QED BY <2>1, <4>1 DEF GrainRecord
    <3> QED BY <1>2, <2>3, <3>1, RowsWritten DEF ExecuteDml
  <2>4. CASE StartSelect(d)
    BY <1>2, <2>4, TableWritten DEF StartSelect
  <2>5. CASE \/ ExecuteSelect(d) \/ SelectFails(d) \/ GetSelect(d) \/ GetHash(d) \/ Unwind(d)
             \/ DmlFails(d) \/ FirstDone(d) \/ LaterDone(d)
    BY <2>5 DEF ExecuteSelect, SelectFails, GetSelect, GetHash, Unwind, DmlFails, FirstDone,
                LaterDone
  <2> QED BY <2>2, <2>3, <2>4, <2>5 DEF ExecutorStep
<1> QED BY <1>1, <1>2

-----------------------------------------------------------------------------
(* Statements, tasks and ends.                                             *)

\* A step of the request: of one executor, or of process_request.
LEMMA StepOf ==
  ASSUME [Next]_vars
  PROVE  \/ UNCHANGED vars \/ CreateRequest \/ GetExecutor \/ VerifyRequest \/ RequestFails
         \/ \E d \in Dbs : ExecutorStep(d)
BY DEF Next, ExecutorStep

LEMMA RequestKept ==
  ASSUME UNCHANGED vars \/ GetExecutor \/ VerifyRequest \/ RequestFails
  PROVE  UNCHANGED <<msg, grain, at, executor, task, table, cursor, first, results>>
BY DEF vars, runVars, GetExecutor, VerifyRequest, RequestFails

\* create_request gives every executor the same statements.
LEMMA Created ==
  ASSUME RequestsInv, CreateRequest
  PROVE  /\ phase = "received" /\ phase' = "executing" /\ msg' = msg
         /\ UNCHANGED <<at, task, cursor, asked, first, results>>
         /\ \A d \in Dbs :
              /\ at[d] = 1 /\ task[d] = Idle /\ executor[d] = "idle" /\ executor'[d] = "running"
              /\ Len(grain'[d]) = Len(Split(msg).sqls) /\ Len(table'[d]) = Len(Split(msg).sqls)
              /\ \A i \in 1 .. Len(Split(msg).sqls) :
                   grain'[d][i] = Grain(Split(msg).sqls[i]) /\ table'[d][i] = NoTable
<1> DEFINE sqls == Split(msg).sqls
<1>1. sqls \in Seq(Text) /\ ~Split(msg).threw
  BY SplitSafe, MessageIsText DEF RequestsInv
<1>2. Len(sqls) \in Nat /\ DOMAIN sqls = 1 .. Len(sqls)
  BY <1>1, LenProperties
<1>3. phase = "received" /\ phase' = "executing" /\ msg' = msg
  BY <1>1 DEF CreateRequest
<1>4. /\ grain' = [d \in Dbs |-> [i \in DOMAIN sqls |-> Grain(sqls[i])]]
      /\ table' = [d \in Dbs |-> [i \in DOMAIN sqls |-> NoTable]]
      /\ executor' = [d \in Dbs |-> "running"]
      /\ UNCHANGED <<at, task, cursor, asked, first, results>>
  BY <1>1 DEF CreateRequest, AddSqlGrains
<1> HIDE DEF sqls
<1>5. ASSUME NEW d \in Dbs
      PROVE  /\ Len(grain'[d]) = Len(sqls) /\ Len(table'[d]) = Len(sqls)
             /\ \A i \in 1 .. Len(sqls) : grain'[d][i] = Grain(sqls[i]) /\ table'[d][i] = NoTable
  <2>1. /\ grain'[d] = [i \in 1 .. Len(sqls) |-> Grain(sqls[i])]
        /\ table'[d] = [i \in 1 .. Len(sqls) |-> NoTable]
    BY <1>2, <1>4
  <2> QED BY <1>2, <2>1
<1>6. \A d \in Dbs :
        at[d] = 1 /\ task[d] = Idle /\ executor[d] = "idle" /\ executor'[d] = "running"
  BY <1>3, <1>4 DEF RequestsInv, Received
<1> QED BY <1>3, <1>4, <1>5, <1>6 DEF sqls

LEMMA CutStep == RequestsInv /\ [Next]_vars => Received' /\ Cut'
<1> SUFFICES ASSUME RequestsInv, [Next]_vars PROVE Received' /\ Cut'
  OBVIOUS
<1>1. CASE UNCHANGED vars
  BY <1>1 DEF RequestsInv, vars, runVars, Received, Cut
<1>2. CASE GetExecutor \/ VerifyRequest \/ RequestFails
  BY <1>2, RequestKept DEF RequestsInv, GetExecutor, VerifyRequest, RequestFails, Received, Cut
<1>3. CASE CreateRequest
  <2>1. \A sql : Grain(sql).sql = sql /\ Grain(sql).is_select = (FirstWord(sql) = <<"select">>)
    BY DEF Grain
  <2> QED BY <1>3, <2>1, Created DEF Received, Cut
<1>4. ASSUME NEW d \in Dbs, ExecutorStep(d)
      PROVE  Received' /\ Cut'
  <2>1. phase # "received" /\ phase' = phase /\ msg' = msg
    BY <1>4, StepRuns
  <2>2. Cut'
    BY <1>4, <2>1, StatementsKept DEF RequestsInv, Cut
  <2> QED BY <2>1, <2>2 DEF Received
<1> QED BY <1>1, <1>2, <1>3, <1>4, StepOf

\* What each action of an executor does to its own place, tasks and end.
LEMMA Moves ==
  ASSUME RequestsInv, NEW d \in Dbs, ExecutorStep(d)
  PROVE  /\ StartSelect(d) =>
              /\ executor[d] = "running" /\ task[d] = Idle
              /\ at[d] \in 1 .. Len(grain[d]) /\ grain[d][at[d]].is_select
              /\ at'[d] = at[d] /\ executor'[d] = "selecting" /\ task'[d].select = "running"
              /\ task'[d].hash = IF d \in Asynch THEN "running" ELSE "none"
         /\ ExecuteSelect(d) =>
              /\ task[d].select = "running" /\ task[d] # Idle
              /\ at'[d] = at[d] /\ executor'[d] = executor[d] /\ task'[d].select = "done"
              /\ task'[d].hash = IF d \in Asynch THEN task[d].hash ELSE "running"
         /\ ExecuteHashSelect(d) =>
              /\ task[d].hash = "running" /\ task[d] # Idle
              /\ at'[d] = at[d] /\ executor'[d] = executor[d] /\ task'[d].select = task[d].select
              /\ task'[d].hash = "done"
         /\ SelectFails(d) =>
              /\ task[d] # Idle /\ at'[d] = at[d] /\ executor'[d] = executor[d]
              /\ \/ /\ task[d].select = "running" /\ task'[d].select = "failed"
                    /\ task'[d].hash = task[d].hash
                 \/ /\ task[d].hash = "running" /\ task'[d].hash = "failed"
                    /\ task'[d].select = task[d].select
         /\ GetSelect(d) =>
              /\ executor[d] = "selecting" /\ at'[d] = at[d] /\ task'[d] = task[d]
              /\ \/ task[d].select = "done" /\ executor'[d] = "hashing"
                 \/ task[d].select = "failed" /\ executor'[d] = "unwinding"
         /\ GetHash(d) =>
              /\ task[d].select = "done" /\ task[d] # Idle
              /\ \/ /\ executor'[d] = "failed" /\ at'[d] = at[d] /\ task'[d] = task[d]
                    /\ task[d].hash = "failed"
                 \/ /\ executor'[d] = "running" /\ at'[d] = at[d] + 1 /\ task'[d] = Idle
                    /\ at[d] \in 1 .. Len(grain[d]) /\ task[d].hash = "done"
         /\ Unwind(d) =>
              /\ executor'[d] = "failed" /\ at'[d] = at[d] /\ task'[d] = task[d]
              /\ task[d].select = "failed" /\ task[d].hash # "running"
         /\ ExecuteDml(d) =>
              /\ executor'[d] = "running" /\ at'[d] = at[d] + 1
              /\ at[d] \in 1 .. Len(grain[d]) /\ ~grain[d][at[d]].is_select
              /\ task[d] = Idle /\ task'[d] = Idle
         /\ DmlFails(d) =>
              /\ executor'[d] = "failed" /\ at'[d] = at[d]
              /\ task[d] = Idle /\ task'[d] = Idle
         /\ FirstDone(d) \/ LaterDone(d) =>
              /\ executor'[d] = "done" /\ at'[d] = at[d] /\ at[d] = Len(grain[d]) + 1
              /\ task[d] = Idle /\ task'[d] = Idle
<1>1. /\ task \in [Dbs -> [select : TaskState, hash : TaskState]]
      /\ executor \in [Dbs -> ExecutorState] /\ at \in [Dbs -> Nat]
  BY DEF RequestsInv, Shape
<1>2. /\ Len(grain[d]) \in Nat /\ DOMAIN grain[d] = 1 .. Len(grain[d])
      /\ at[d] \in 1 .. Len(grain[d]) + 1
      /\ task[d] \in [select : TaskState, hash : TaskState]
      /\ task[d] # Idle => at[d] \in 1 .. Len(grain[d]) /\ grain[d][at[d]].is_select
  BY StepRuns, TaskPlace
<1>3. /\ executor[d] = "running" => task[d] = Idle
      /\ executor[d] = "hashing" => task[d].select = "done"
      /\ executor[d] = "unwinding" => task[d].select = "failed"
  BY DEF RequestsInv, Waiting
<1>4. task[d] = Idle <=> task[d].select = "none" /\ task[d].hash = "none"
  BY <1>2 DEF Idle
<1>5. ASSUME StartSelect(d)
      PROVE  /\ executor[d] = "running" /\ task[d] = Idle
             /\ at[d] \in 1 .. Len(grain[d]) /\ grain[d][at[d]].is_select
             /\ at'[d] = at[d] /\ executor'[d] = "selecting" /\ task'[d].select = "running"
             /\ task'[d].hash = IF d \in Asynch THEN "running" ELSE "none"
  <2>1. task'[d] = [select |-> "running", hash |-> IF d \in Asynch THEN "running" ELSE "none"]
    BY <1>1, <1>5 DEF StartSelect
  <2> QED BY <1>1, <1>2, <1>3, <1>5, <2>1 DEF StartSelect, AtStatement
<1>6. ASSUME ExecuteSelect(d)
      PROVE  /\ task[d].select = "running" /\ task[d] # Idle
             /\ at'[d] = at[d] /\ executor'[d] = executor[d] /\ task'[d].select = "done"
             /\ task'[d].hash = IF d \in Asynch THEN task[d].hash ELSE "running"
  BY <1>1, <1>2, <1>4, <1>6 DEF ExecuteSelect, AfterSelect
<1>7. ASSUME ExecuteHashSelect(d)
      PROVE  /\ task[d].hash = "running" /\ task[d] # Idle
             /\ at'[d] = at[d] /\ executor'[d] = executor[d] /\ task'[d].select = task[d].select
             /\ task'[d].hash = "done"
  BY <1>1, <1>2, <1>4, <1>7 DEF ExecuteHashSelect
<1>8. ASSUME SelectFails(d)
      PROVE  /\ task[d] # Idle /\ at'[d] = at[d] /\ executor'[d] = executor[d]
             /\ \/ /\ task[d].select = "running" /\ task'[d].select = "failed"
                   /\ task'[d].hash = task[d].hash
                \/ /\ task[d].hash = "running" /\ task'[d].hash = "failed"
                   /\ task'[d].select = task[d].select
  <2>1. PICK which \in {"select", "hash"} :
          task[d][which] = "running" /\ task' = [task EXCEPT ![d][which] = "failed"]
    BY <1>8 DEF SelectFails
  <2>2. at'[d] = at[d] /\ executor'[d] = executor[d]
    BY <1>8 DEF SelectFails
  <2>3. CASE which = "select"
    BY <1>1, <1>2, <1>4, <2>1, <2>2, <2>3
  <2>4. CASE which = "hash"
    BY <1>1, <1>2, <1>4, <2>1, <2>2, <2>4
  <2> QED BY <2>1, <2>3, <2>4
<1>9. ASSUME GetSelect(d)
      PROVE  /\ executor[d] = "selecting" /\ at'[d] = at[d] /\ task'[d] = task[d]
             /\ \/ task[d].select = "done" /\ executor'[d] = "hashing"
                \/ task[d].select = "failed" /\ executor'[d] = "unwinding"
  BY <1>1, <1>9 DEF GetSelect
<1>10. ASSUME GetHash(d)
       PROVE  /\ task[d].select = "done" /\ task[d] # Idle
              /\ \/ /\ executor'[d] = "failed" /\ at'[d] = at[d] /\ task'[d] = task[d]
                    /\ task[d].hash = "failed"
                 \/ /\ executor'[d] = "running" /\ at'[d] = at[d] + 1 /\ task'[d] = Idle
                    /\ at[d] \in 1 .. Len(grain[d]) /\ task[d].hash = "done"
  <2>1. task[d].select = "done" /\ task[d] # Idle
    BY <1>3, <1>4, <1>10 DEF GetHash
  <2> QED BY <1>1, <1>2, <1>10, <2>1 DEF GetHash
<1>11. ASSUME Unwind(d)
       PROVE  /\ executor'[d] = "failed" /\ at'[d] = at[d] /\ task'[d] = task[d]
              /\ task[d].select = "failed" /\ task[d].hash # "running"
  BY <1>1, <1>3, <1>11 DEF Unwind, HashJoined
<1>12. ASSUME ExecuteDml(d)
       PROVE  /\ executor'[d] = "running" /\ at'[d] = at[d] + 1
              /\ at[d] \in 1 .. Len(grain[d]) /\ ~grain[d][at[d]].is_select
              /\ task[d] = Idle /\ task'[d] = Idle
  BY <1>1, <1>2, <1>3, <1>12 DEF ExecuteDml, AtStatement
<1>13. ASSUME DmlFails(d)
       PROVE  /\ executor'[d] = "failed" /\ at'[d] = at[d]
              /\ task[d] = Idle /\ task'[d] = Idle
  BY <1>1, <1>3, <1>13 DEF DmlFails, AtStatement
<1>14. ASSUME FirstDone(d) \/ LaterDone(d)
       PROVE  /\ executor'[d] = "done" /\ at'[d] = at[d] /\ at[d] = Len(grain[d]) + 1
              /\ task[d] = Idle /\ task'[d] = Idle
  <2>1. /\ executor'[d] = "done" /\ at'[d] = at[d] /\ task'[d] = task[d] /\ at[d] > Len(grain[d])
        /\ executor[d] = "running"
    BY <1>1, <1>14 DEF FirstDone, LaterDone, AllExecuted
  <2> QED BY <1>2, <1>3, <2>1
<1> QED BY <1>5, <1>6, <1>7, <1>8, <1>9, <1>10, <1>11, <1>12, <1>13, <1>14

LEMMA TasksStep == RequestsInv /\ [Next]_vars => Tasks'
<1> SUFFICES ASSUME RequestsInv, [Next]_vars PROVE Tasks'
  OBVIOUS
<1>1. CASE UNCHANGED vars \/ GetExecutor \/ VerifyRequest \/ RequestFails
  BY <1>1, RequestKept DEF RequestsInv, Tasks
<1>2. CASE CreateRequest
  <2>1. \A d \in Dbs : /\ at'[d] = 1 /\ task'[d] = Idle /\ Len(grain'[d]) \in Nat
    <3>1. Len(Split(msg).sqls) \in Nat
      BY SplitSafe, MessageIsText, LenProperties DEF RequestsInv
    <3> QED BY <1>2, <3>1, Created
  <2>2. Idle.select = "none"
    BY DEF Idle
  <2> QED BY <2>1, <2>2 DEF Tasks
<1>3. ASSUME NEW d \in Dbs, ExecutorStep(d)
      PROVE  Tasks'
  <2>1. ASSUME NEW e \in Dbs
        PROVE  /\ at'[e] \in 1 .. Len(grain'[e]) + 1
               /\ task'[e] # Idle =>
                    /\ at'[e] \in 1 .. Len(grain'[e]) /\ grain'[e][at'[e]].is_select
                    /\ task'[e].select # "none"
               /\ task'[e].select = "done" \/ (task'[e].select = "running" /\ e \in Asynch) =>
                    task'[e].hash # "none"
    <3>0. /\ at[e] \in 1 .. Len(grain[e]) + 1
          /\ task[e] # Idle =>
               /\ at[e] \in 1 .. Len(grain[e]) /\ grain[e][at[e]].is_select
               /\ task[e].select # "none"
          /\ task[e].select = "done" \/ (task[e].select = "running" /\ e \in Asynch) =>
               task[e].hash # "none"
      BY DEF RequestsInv, Tasks
    <3>1. CASE e # d
      BY <1>3, <3>0, <3>1, OthersKept
    <3>2. CASE e = d
      <4>1. /\ Len(grain'[d]) = Len(grain[d])
            /\ at[d] \in 1 .. Len(grain[d]) =>
                 grain'[d][at[d]].is_select = grain[d][at[d]].is_select
        BY <1>3, StatementsKept
      <4>2. Len(grain[d]) \in Nat /\ at[d] \in Nat
        BY <1>3, StepRuns, TaskPlace
      <4>3. Idle.select = "none" /\ Idle.hash = "none"
        BY DEF Idle
      <4>4. \/ at'[d] = at[d] /\ task'[d] = task[d]
            \/ /\ at'[d] = at[d] /\ at[d] \in 1 .. Len(grain[d]) /\ grain[d][at[d]].is_select
               /\ task'[d].select # "none"
               /\ task'[d].select = "done" \/ (task'[d].select = "running" /\ d \in Asynch) =>
                    task'[d].hash # "none"
            \/ at'[d] = at[d] + 1 /\ at[d] \in 1 .. Len(grain[d]) /\ task'[d] = Idle
        BY <1>3, <3>0, <3>2, Moves DEF ExecutorStep
      <4>5. CASE at'[d] = at[d] /\ task'[d] = task[d]
        BY <3>0, <3>2, <4>1, <4>5
      <4>6. CASE /\ at'[d] = at[d] /\ at[d] \in 1 .. Len(grain[d]) /\ grain[d][at[d]].is_select
                 /\ task'[d].select # "none"
                 /\ task'[d].select = "done" \/ (task'[d].select = "running" /\ d \in Asynch) =>
                      task'[d].hash # "none"
        BY <3>0, <3>2, <4>1, <4>6
      <4>7. CASE at'[d] = at[d] + 1 /\ at[d] \in 1 .. Len(grain[d]) /\ task'[d] = Idle
        BY <3>2, <4>1, <4>2, <4>3, <4>7
      <4> QED BY <4>4, <4>5, <4>6, <4>7
    <3> QED BY <3>1, <3>2
  <2> QED BY <2>1 DEF Tasks
<1> QED BY <1>1, <1>2, <1>3, StepOf

\* No executor goes on, fails or ends over a task that still runs.
LEMMA WaitingStep == RequestsInv /\ [Next]_vars => Waiting'
<1> SUFFICES ASSUME RequestsInv, [Next]_vars PROVE Waiting'
  OBVIOUS
<1>1. CASE UNCHANGED vars \/ GetExecutor \/ VerifyRequest \/ RequestFails
  BY <1>1, RequestKept DEF RequestsInv, Waiting
<1>2. CASE CreateRequest
  BY <1>2, Created DEF Waiting
<1>3. ASSUME NEW d \in Dbs, ExecutorStep(d)
      PROVE  Waiting'
  <2>1. ASSUME NEW e \in Dbs
        PROVE  /\ executor'[e] \in {"idle", "running", "done"} => task'[e] = Idle
               /\ executor'[e] = "selecting" => task'[e] # Idle
               /\ executor'[e] = "hashing" => task'[e].select = "done"
               /\ executor'[e] = "unwinding" => task'[e].select = "failed"
               /\ executor'[e] = "failed" => task'[e].select # "running" /\ task'[e].hash # "running"
    <3>1. /\ executor[e] \in {"idle", "running", "done"} => task[e] = Idle
          /\ executor[e] = "selecting" => task[e] # Idle
          /\ executor[e] = "hashing" => task[e].select = "done"
          /\ executor[e] = "unwinding" => task[e].select = "failed"
          /\ executor[e] = "failed" => task[e].select # "running" /\ task[e].hash # "running"
      BY DEF RequestsInv, Waiting
    <3>2. CASE e # d
      BY <1>3, <3>1, <3>2, OthersKept
    <3>3. CASE e = d
      <4>1. Idle.select = "none" /\ Idle.hash = "none"
        BY DEF Idle
      <4>2. executor[d] \in {"running", "selecting", "hashing", "unwinding"}
        BY <1>3, StepRuns
      <4>3. CASE ExecuteSelect(d) \/ ExecuteHashSelect(d) \/ SelectFails(d)
        BY <1>3, <3>1, <3>3, <4>1, <4>2, <4>3, Moves
      <4>4. CASE StartSelect(d) \/ GetSelect(d) \/ GetHash(d) \/ Unwind(d)
        BY <1>3, <3>1, <3>3, <4>1, <4>2, <4>4, Moves
      <4>5. CASE ExecuteDml(d) \/ DmlFails(d) \/ FirstDone(d) \/ LaterDone(d)
        BY <1>3, <3>3, <4>1, <4>5, Moves
      <4> QED BY <1>3, <4>3, <4>4, <4>5 DEF ExecutorStep
    <3> QED BY <3>2, <3>3
  <2> QED BY <2>1 DEF Waiting
<1> QED BY <1>1, <1>2, <1>3, StepOf

LEMMA EndedStep == RequestsInv /\ [Next]_vars => Ended'
<1> SUFFICES ASSUME RequestsInv, [Next]_vars PROVE Ended'
  OBVIOUS
<1>0. Ended /\ asked \in 0 .. NDb /\ NDb \in Nat \ {0}
  BY RequestsAssumption DEF RequestsInv, Shape
<1>1. CASE UNCHANGED vars
  BY <1>0, <1>1 DEF vars, runVars, Ended
<1>2. CASE VerifyRequest
  <2>1. asked = NDb /\ phase # "received" /\ asked' = asked /\ phase' = "verified"
    BY <1>2 DEF VerifyRequest
  <2>2. \A d \in Dbs : executor[d] = "done"
    BY <1>0, <2>1 DEF Ended, Dbs
  <2> QED BY <1>0, <1>2, <2>1, <2>2, RequestKept DEF Ended
<1>3. CASE RequestFails
  <2>1. \A d \in Dbs : executor[d] \in {"done", "failed"}
    BY <1>3 DEF RequestFails
  <2>2. phase # "received" /\ asked' = asked /\ phase' = "failed"
    BY <1>3 DEF RequestFails
  <2> QED BY <1>0, <1>3, <2>1, <2>2, RequestKept DEF Ended
<1>4. CASE CreateRequest
  <2>1. first = NDb /\ \A d \in Dbs : executor[d] = "idle"
    BY <1>4, Created DEF RequestsInv, Received
  <2>2. \A d \in Dbs : ~(d < asked)
    BY <1>0, <2>1 DEF Ended
  <2> QED BY <1>4, <2>1, <2>2, Created DEF Ended
<1>5. CASE GetExecutor
  <2>1. /\ phase = "executing" /\ phase' \in {"executing", "unwinding"}
        /\ \/ executor[asked] = "done" /\ asked' = asked + 1
           \/ asked' = asked
    BY <1>5 DEF GetExecutor
  <2>2. \A d \in Dbs : d < asked' => executor[d] = "done"
    <3>1. ASSUME NEW d \in Dbs, d < asked' PROVE executor[d] = "done"
      <4>1. d \in Int /\ asked \in Int
        BY <1>0 DEF Dbs
      <4>2. CASE d < asked
        BY <1>0, <4>2 DEF Ended
      <4>3. CASE ~(d < asked)
        <5>1. executor[asked] = "done" /\ d = asked
          BY <2>1, <3>1, <4>1, <4>3
        <5> QED BY <5>1
      <4> QED BY <4>2, <4>3
    <3> QED BY <3>1
  <2> QED BY <1>0, <1>5, <2>1, <2>2, RequestKept DEF Ended
<1>6. ASSUME NEW d \in Dbs, ExecutorStep(d)
      PROVE  Ended'
  <2>1. /\ phase \in {"executing", "unwinding"} /\ phase' = phase /\ asked' = asked
        /\ executor[d] \in {"running", "selecting", "hashing", "unwinding"}
    BY <1>6, StepRuns
  <2>2. ASSUME NEW e \in Dbs
        PROVE  /\ executor'[e] = "done" => at'[e] = Len(grain'[e]) + 1
               /\ executor'[e] # "idle"
               /\ executor[e] = "done" => executor'[e] = "done"
    <3>1. CASE e # d
      BY <1>0, <1>6, <2>1, <3>1, OthersKept DEF Ended
    <3>2. CASE e = d
      <4>1. Len(grain'[d]) = Len(grain[d])
        BY <1>6, StatementsKept
      <4> QED BY <1>6, <2>1, <3>2, <4>1, Moves DEF ExecutorStep
    <3> QED BY <3>1, <3>2
  <2>3. first' # NDb => first' \in Dbs /\ executor'[first'] = "done"
    <3>1. CASE FirstDone(d)
      <4>1. first' = d /\ executor'[d] = "done"
        BY <1>6, <3>1, Moves DEF FirstDone
      <4> QED BY <4>1
    <3>2. CASE ~FirstDone(d)
      <4>1. first' = first
        BY <1>6, <3>2 DEF ExecutorStep, StartSelect, ExecuteSelect, ExecuteHashSelect, SelectFails,
                      GetSelect, GetHash, Unwind, ExecuteDml, DmlFails, LaterDone
      <4> QED BY <1>0, <2>2, <4>1 DEF Ended
    <3> QED BY <3>1, <3>2
  <2> QED BY <1>0, <2>1, <2>2, <2>3 DEF Ended
<1> QED BY <1>1, <1>2, <1>3, <1>4, <1>5, <1>6, StepOf

-----------------------------------------------------------------------------
(* Hashes, fetched rows and the verdict.                                   *)

LEMMA HashedStep == RequestsInv /\ [Next]_vars => Hashed'
<1> SUFFICES ASSUME RequestsInv, [Next]_vars PROVE Hashed'
  OBVIOUS
<1>1. CASE UNCHANGED vars \/ GetExecutor \/ VerifyRequest \/ RequestFails
  BY <1>1, RequestKept DEF RequestsInv, Hashed
<1>2. CASE CreateRequest
  <2>1. \A sql : Grain(sql).rows = 0 /\ Grain(sql).sql_hash = NoHash
    BY DEF Grain
  <2>2. Idle.select = "none" /\ Idle.hash = "none"
    BY DEF Idle
  <2>3. ASSUME NEW d \in Dbs, NEW i \in 1 .. Len(grain'[d])
        PROVE  /\ grain'[d][i].rows = 0 /\ grain'[d][i].sql_hash = NoHash /\ table'[d][i] = NoTable
               /\ ~(i < at'[d]) /\ task'[d].select = "none" /\ task'[d].hash = "none"
    BY <1>2, <2>1, <2>2, <2>3, Created
  <2> QED BY <2>3 DEF Hashed
<1>3. ASSUME NEW d \in Dbs, ExecutorStep(d)
      PROVE  Hashed'
  <2>0. Len(grain'[d]) = Len(grain[d]) /\ Len(grain[d]) \in Nat /\ at[d] \in 1 .. Len(grain[d]) + 1
    BY <1>3, StatementsKept, StepRuns, TaskPlace
  <2>1. ASSUME NEW i \in 1 .. Len(grain[d])
        PROVE  /\ ~grain'[d][i].is_select => table'[d][i] = NoTable /\ grain'[d][i].sql_hash = NoHash
               /\ grain'[d][i].is_select => grain'[d][i].rows = 0
               /\ grain'[d][i].is_select
                  /\ (i < at'[d] \/ (i = at'[d] /\ task'[d].select # "none")) =>
                    table'[d][i] \in Tables
               /\ grain'[d][i].is_select
                  /\ (i < at'[d] \/ (i = at'[d] /\ task'[d].hash = "done")) =>
                    grain'[d][i].sql_hash = Hash(d, table'[d][i])
    <3> DEFINE h == Hash(d, table[d][i])
    <3>1. /\ ~grain[d][i].is_select => table[d][i] = NoTable /\ grain[d][i].sql_hash = NoHash
          /\ grain[d][i].is_select => grain[d][i].rows = 0
          /\ grain[d][i].is_select /\ (i < at[d] \/ (i = at[d] /\ task[d].select # "none")) =>
               table[d][i] \in Tables
          /\ grain[d][i].is_select /\ (i < at[d] \/ (i = at[d] /\ task[d].hash = "done")) =>
               grain[d][i].sql_hash = h
      BY DEF RequestsInv, Hashed
    <3>2. grain'[d][i].is_select = grain[d][i].is_select
      BY <1>3, StatementsKept
    <3>3. task[d] # Idle => task[d].select # "none"
      BY DEF RequestsInv, Tasks
    <3>4. grain[d][i] \in GrainRecord
      BY <1>3, StepRuns, TaskPlace, ElementOfSeq
    <3>5. i \in Nat /\ at[d] \in Nat
      BY <2>0
    <3>6. Idle.select = "none" /\ Idle.hash = "none"
      BY DEF Idle
    <3>7. CASE StartSelect(d)
      <4>1. /\ grain' = grain /\ at'[d] = at[d] /\ task'[d].select = "running"
            /\ task'[d].hash \in {"running", "none"} /\ grain[d][at[d]].is_select
        <5>1. at'[d] = at[d] /\ grain' = grain /\ grain[d][at[d]].is_select
          BY <1>3, <3>7, Moves DEF StartSelect
        <5>2. task'[d] = [select |-> "running", hash |-> IF d \in Asynch THEN "running" ELSE "none"]
          BY <3>7 DEF StartSelect, RequestsInv, Shape
        <5> QED BY <5>1, <5>2
      <4>2. PICK t \in Tables : \A j \in 1 .. Len(table[d]) :
              table'[d][j] = IF j = at[d] THEN t ELSE table[d][j]
        BY <3>7, TableWritten
      <4>3. table'[d][i] = IF i = at[d] THEN t ELSE table[d][i]
        BY <3>7, <4>2, TableWritten
      <4>4. CASE i = at[d]
        BY <3>1, <3>2, <3>5, <4>1, <4>3, <4>4
      <4>5. CASE i # at[d]
        BY <3>1, <3>2, <3>5, <4>1, <4>3, <4>5
      <4> QED BY <4>4, <4>5
    <3>8. CASE ExecuteHashSelect(d)
      <4>1. /\ table' = table /\ at'[d] = at[d]
            /\ task[d] # Idle /\ task'[d].select = task[d].select
        BY <1>3, <3>8, Moves DEF ExecuteHashSelect
      <4>2. CASE i = at[d]
        <5>1. grain'[d][i] = [grain[d][i] EXCEPT !.sql_hash = h] /\ grain[d][i].is_select
          BY <3>8, <4>2, HashWritten
        <5> HIDE DEF h
        <5>2. grain'[d][i].sql_hash = h /\ grain'[d][i].rows = grain[d][i].rows
          BY <3>4, <5>1 DEF GrainRecord
        <5>3. grain'[d][i].sql_hash = Hash(d, table'[d][i])
          BY <4>1, <5>2 DEF h
        <5> QED BY <3>1, <3>2, <3>3, <4>1, <4>2, <5>1, <5>2, <5>3
      <4>3. CASE i # at[d]
        <5>1. grain'[d][i] = grain[d][i]
          BY <3>8, <4>3, HashWritten
        <5> QED BY <3>1, <4>1, <4>3, <5>1
      <4> QED BY <4>2, <4>3
    <3>9. CASE ExecuteDml(d)
      <4>1. /\ table' = table /\ at'[d] = at[d] + 1
            /\ ~grain[d][at[d]].is_select /\ task'[d] = Idle
        BY <1>3, <3>9, Moves DEF ExecuteDml
      <4>2. PICK n \in Nat :
              grain'[d][i] = IF i = at[d] THEN [grain[d][i] EXCEPT !.rows = n] ELSE grain[d][i]
        BY <3>9, RowsWritten
      <4>3. grain'[d][i].sql_hash = grain[d][i].sql_hash
            /\ (i # at[d] => grain'[d][i].rows = grain[d][i].rows)
        BY <3>4, <4>2 DEF GrainRecord
      <4>4. grain[d][i].is_select => i # at[d]
        BY <4>1
      <4>5. i < at'[d] /\ i # at[d] => i < at[d]
        BY <3>5, <4>1
      <4>6. i = at'[d] => ~(task'[d].select # "none") /\ task'[d].hash # "done"
        BY <3>6, <4>1
      <4> QED BY <3>1, <3>2, <4>1, <4>3, <4>4, <4>5, <4>6
    <3>10. CASE GetHash(d)
      <4>1. /\ table' = table /\ grain' = grain
            /\ \/ at'[d] = at[d] /\ task'[d] = task[d]
               \/ /\ at'[d] = at[d] + 1 /\ task'[d] = Idle
                  /\ task[d].select = "done" /\ task[d].hash = "done"
        BY <1>3, <3>10, Moves DEF GetHash
      <4>2. CASE at'[d] = at[d] /\ task'[d] = task[d]
        BY <3>1, <4>1, <4>2
      <4>3. CASE /\ at'[d] = at[d] + 1 /\ task'[d] = Idle
                 /\ task[d].select = "done" /\ task[d].hash = "done"
        <5>1. i < at'[d] => i < at[d] \/ i = at[d]
          BY <3>5, <4>3
        <5> QED BY <3>1, <3>6, <4>1, <4>3, <5>1
      <4> QED BY <4>1, <4>2, <4>3
    <3>11. CASE \/ ExecuteSelect(d) \/ SelectFails(d) \/ GetSelect(d) \/ Unwind(d)
                \/ DmlFails(d) \/ FirstDone(d) \/ LaterDone(d)
      <4>1. /\ table' = table /\ grain' = grain /\ at'[d] = at[d]
            /\ task'[d].select # "none" => task[d].select # "none"
            /\ task'[d].hash = "done" => task[d].hash = "done"
        <5>1. table' = table /\ grain' = grain
          BY <3>11 DEF ExecuteSelect, SelectFails, GetSelect, Unwind, DmlFails, FirstDone, LaterDone
        <5>2. at'[d] = at[d]
          BY <1>3, <3>11, Moves
        <5>3. /\ task'[d].select # "none" => task[d].select # "none"
              /\ task'[d].hash = "done" => task[d].hash = "done"
          BY <1>3, <3>3, <3>6, <3>11, <5>2, Moves
        <5> QED BY <5>1, <5>2, <5>3
      <4> QED BY <3>1, <4>1
    <3> QED BY <1>3, <3>7, <3>8, <3>9, <3>10, <3>11 DEF ExecutorStep
  <2>2. ASSUME NEW e \in Dbs, e # d, NEW i \in 1 .. Len(grain'[e])
        PROVE  /\ ~grain'[e][i].is_select => table'[e][i] = NoTable /\ grain'[e][i].sql_hash = NoHash
               /\ grain'[e][i].is_select => grain'[e][i].rows = 0
               /\ grain'[e][i].is_select
                  /\ (i < at'[e] \/ (i = at'[e] /\ task'[e].select # "none")) =>
                    table'[e][i] \in Tables
               /\ grain'[e][i].is_select
                  /\ (i < at'[e] \/ (i = at'[e] /\ task'[e].hash = "done")) =>
                    grain'[e][i].sql_hash = Hash(e, table'[e][i])
    BY <1>3, <2>2, OthersKept DEF RequestsInv, Hashed
  <2> QED BY <2>0, <2>1, <2>2 DEF Hashed
<1> QED BY <1>1, <1>2, <1>3, StepOf

\* How far a select has come tells whether cmd_sel has its rows.
LEMMA FetchableStep == RequestsInv /\ [Next]_vars => Fetchable'
<1> SUFFICES ASSUME RequestsInv, [Next]_vars PROVE Fetchable'
  OBVIOUS
<1>1. CASE UNCHANGED vars \/ GetExecutor \/ VerifyRequest \/ RequestFails
  BY <1>1, RequestKept DEF RequestsInv, Fetchable, OneSelect
<1>2. CASE CreateRequest
  <2>1. Idle.select = "none"
    BY DEF Idle
  <2>2. ASSUME NEW d \in Dbs, NEW i \in 1 .. Len(grain'[d])
        PROVE  ~(i < at'[d]) /\ task'[d].select = "none"
    BY <1>2, <2>1, <2>2, Created
  <2> QED BY <2>2 DEF Fetchable
<1>3. ASSUME NEW d \in Dbs, ExecutorStep(d)
      PROVE  Fetchable'
  <2>1. Len(grain'[d]) = Len(grain[d]) /\ Len(grain[d]) \in Nat /\ at[d] \in Nat
    BY <1>3, StatementsKept, StepRuns, TaskPlace
  <2>2. \A e \in Dbs : OneSelect(e)' <=> OneSelect(e)
    <3>1. ASSUME NEW e \in Dbs PROVE OneSelect(e)' <=> OneSelect(e)
      <4>1. /\ Len(grain'[e]) = Len(grain[e])
            /\ \A i \in 1 .. Len(grain[e]) : grain'[e][i].is_select = grain[e][i].is_select
        BY <1>3, StatementsKept
      <4>2. OneSelect(e)' <=> \A i, j \in 1 .. Len(grain[e]) :
                                grain'[e][i].is_select /\ grain'[e][j].is_select => i = j
        BY <4>1 DEF OneSelect
      <4> QED BY <4>1, <4>2 DEF OneSelect
    <3> QED BY <3>1
  <2>3. ASSUME NEW i \in 1 .. Len(grain[d]), OneSelect(d), grain[d][i].is_select,
               executor'[d] # "done", i < at'[d] \/ (i = at'[d] /\ task'[d].select = "done")
        PROVE  cursor'[d] = table'[d][i].rows
    <3> DEFINE rows == table[d][i].rows
    <3>0. (i < at[d] \/ (i = at[d] /\ task[d].select = "done")) => cursor[d] = rows
      BY <1>3, <2>3, StepRuns DEF RequestsInv, Fetchable
    <3>1. i \in Nat /\ Idle.select = "none"
      BY <2>1 DEF Idle
    <3>2. CASE StartSelect(d)
      <4>1. at[d] \in 1 .. Len(grain[d]) /\ grain[d][at[d]].is_select
            /\ at'[d] = at[d] /\ task'[d].select = "running"
        BY <1>3, <3>2, Moves
      <4>2. i = at[d]
        BY <2>3, <4>1 DEF OneSelect
      <4> QED BY <2>1, <2>3, <4>1, <4>2
    <3>3. CASE ExecuteSelect(d)
      <4>1. /\ at[d] \in 1 .. Len(grain[d]) /\ grain[d][at[d]].is_select
            /\ table' = table
        BY <1>3, <3>3, Moves, TaskPlace, StepRuns DEF ExecuteSelect
      <4>2. i = at[d]
        BY <2>3, <4>1 DEF OneSelect
      <4>3. cursor'[d] = table[d][at[d]].rows
        BY <3>3 DEF ExecuteSelect, RequestsInv, Shape
      <4> QED BY <4>1, <4>2, <4>3
    <3>4. CASE \/ GetSelect(d) \/ GetHash(d) \/ Unwind(d) \/ ExecuteHashSelect(d) \/ SelectFails(d)
      <4>1. table' = table /\ cursor' = cursor
        BY <3>4 DEF GetSelect, GetHash, Unwind, ExecuteHashSelect, SelectFails
      <4>2. \/ at'[d] = at[d] /\ (task'[d].select = "done" => task[d].select = "done")
            \/ at'[d] = at[d] + 1 /\ task'[d] = Idle /\ task[d].select = "done"
        BY <1>3, <3>4, Moves
      <4>3. i < at[d] \/ (i = at[d] /\ task[d].select = "done")
        <5>1. CASE at'[d] = at[d] /\ (task'[d].select = "done" => task[d].select = "done")
          BY <2>3, <5>1
        <5>2. CASE at'[d] = at[d] + 1 /\ task'[d] = Idle /\ task[d].select = "done"
          <6>1. i < at'[d]
            BY <2>3, <3>1, <5>2
          <6> QED BY <2>1, <3>1, <5>2, <6>1
        <5> QED BY <4>2, <5>1, <5>2
      <4> QED BY <3>0, <4>1, <4>3
    <3>5. CASE ExecuteDml(d)
      <4>1. /\ table' = table /\ cursor' = cursor /\ at'[d] = at[d] + 1
            /\ ~grain[d][at[d]].is_select /\ task'[d] = Idle
        BY <1>3, <3>5, Moves DEF ExecuteDml
      <4>2. i < at'[d] /\ i # at[d]
        BY <2>3, <3>1, <4>1
      <4>3. i < at[d]
        BY <2>1, <3>1, <4>1, <4>2
      <4> QED BY <3>0, <4>1, <4>3
    <3>6. CASE DmlFails(d)
      <4>1. table' = table /\ cursor' = cursor /\ at'[d] = at[d] /\ task'[d] = Idle
        BY <1>3, <3>6, Moves DEF DmlFails
      <4> QED BY <2>3, <3>0, <3>1, <4>1
    <3>7. CASE FirstDone(d) \/ LaterDone(d)
      BY <1>3, <2>3, <3>7, Moves
    <3> QED BY <1>3, <3>2, <3>3, <3>4, <3>5, <3>6, <3>7 DEF ExecutorStep
  <2>4. \A i \in 1 .. Len(grain[d]) : grain'[d][i].is_select = grain[d][i].is_select
    BY <1>3, StatementsKept
  <2>5. ASSUME NEW e \in Dbs, e # d, NEW i \in 1 .. Len(grain'[e]), OneSelect(e), grain'[e][i].is_select,
               executor'[e] # "done", i < at'[e] \/ (i = at'[e] /\ task'[e].select = "done")
        PROVE  cursor'[e] = table'[e][i].rows
    BY <1>3, <2>5, OthersKept DEF RequestsInv, Fetchable
  <2> QED BY <2>1, <2>2, <2>3, <2>4, <2>5 DEF Fetchable
<1> QED BY <1>1, <1>2, <1>3, StepOf

LEMMA JudgedStep == RequestsInv /\ [Next]_vars => Judged'
<1> SUFFICES ASSUME RequestsInv, [Next]_vars PROVE Judged'
  OBVIOUS
<1>1. CASE UNCHANGED vars
  BY <1>1 DEF RequestsInv, vars, runVars, Judged, Comparison
<1>2. CASE VerifyRequest
  <2>1. Comparison' = Comparison
    BY <1>2 DEF VerifyRequest, Comparison
  <2> QED BY <1>2, <2>1 DEF VerifyRequest, Judged
<1>3. CASE GetExecutor \/ RequestFails
  BY <1>3 DEF GetExecutor, RequestFails, Judged
<1>4. CASE CreateRequest
  BY <1>4, Created DEF Judged
<1>5. ASSUME NEW d \in Dbs, ExecutorStep(d)
      PROVE  Judged'
  BY <1>5, StepRuns DEF Judged
<1> QED BY <1>1, <1>2, <1>3, <1>4, <1>5, StepOf

-----------------------------------------------------------------------------
(* The answer.                                                             *)

\* The end of a concatenation is the end of its second part.
LEMMA LastOfConcat ==
  ASSUME NEW S, NEW a \in Seq(S), NEW b \in Seq(S), b # <<>>
  PROVE  a \o b # <<>> /\ Last(a \o b) = Last(b)
<1>1. Len(a) \in Nat /\ Len(b) \in Nat /\ Len(b) # 0
  BY LenProperties, EmptySeq
<1>2. /\ a \o b \in Seq(S) /\ Len(a \o b) = Len(a) + Len(b)
      /\ \A i \in 1 .. Len(a) + Len(b) : (a \o b)[i] = IF i <= Len(a) THEN a[i] ELSE b[i - Len(a)]
  BY ConcatProperties
<1>3. /\ Len(a) + Len(b) \in 1 .. Len(a) + Len(b) /\ ~(Len(a) + Len(b) <= Len(a))
      /\ (Len(a) + Len(b)) - Len(a) = Len(b)
  BY <1>1
<1>4. (a \o b)[Len(a) + Len(b)] = b[Len(b)]
  BY <1>2, <1>3
<1>5. a \o b # <<>>
  BY <1>1, <1>2, EmptySeq
<1> QED BY <1>2, <1>4, <1>5 DEF Last

\* A separator after each of two parts, or between them and at the end.
LEMMA SeparatorMoved ==
  ASSUME NEW S, NEW a \in Seq(S), NEW b \in Seq(S), NEW c \in S
  PROVE  Append(a, c) \o Append(b, c) = Append(a \o (<<c>> \o b), c)
<1>1. <<c>> \in Seq(S) /\ <<c>> \o b \in Seq(S) /\ a \o <<c>> \in Seq(S)
  BY ConcatProperties
<1>2. \A s \in Seq(S) : Append(s, c) = s \o <<c>>
  BY AppendIsConcat
<1>3. a \o (<<c>> \o b) \in Seq(S) /\ b \o <<c>> \in Seq(S)
  BY <1>1, ConcatProperties
<1>4. Append(a, c) \o Append(b, c) = (a \o <<c>>) \o (b \o <<c>>)
  BY <1>2
<1>5. (a \o <<c>>) \o (b \o <<c>>) = a \o (<<c>> \o (b \o <<c>>))
  BY <1>1, <1>3, ConcatAssociative
<1>6. <<c>> \o (b \o <<c>>) = (<<c>> \o b) \o <<c>>
  BY <1>1, ConcatAssociative
<1>7. a \o ((<<c>> \o b) \o <<c>>) = (a \o (<<c>> \o b)) \o <<c>>
  BY <1>1, ConcatAssociative
<1>8. Append(a \o (<<c>> \o b), c) = (a \o (<<c>> \o b)) \o <<c>>
  BY <1>2, <1>3
<1> QED BY <1>4, <1>5, <1>6, <1>7, <1>8

\* rtrim takes off one character at the end, when the one before it is another.
LEMMA OneTrimmed ==
  ASSUME NEW s \in Text, NEW c \in Chars, s # <<>>, Last(s) # c
  PROVE  RTrim(Append(s, c), c) = s
<1> DEFINE t == Append(s, c)
           n == Len(s)
<1>1. n \in Nat /\ n # 0
  BY LenProperties, EmptySeq DEF Text
<1>2. /\ t \in Text /\ Len(t) = n + 1 /\ \A i \in 1 .. n : t[i] = s[i]
      /\ t[n + 1] = c
  BY AppendProperties DEF Text
<1>3. s[n] # c
  BY DEF Last
<1>4. DOMAIN t = 1 .. n + 1
  BY <1>2, LenProperties DEF Text
<1> DEFINE L == Letters(t, c)
<1> HIDE DEF t, n
<1>5. n \in L /\ L \subseteq 0 .. n
  <2>1. n \in DOMAIN t /\ t[n] # c
    BY <1>1, <1>2, <1>3, <1>4
  <2>2. ASSUME NEW i \in DOMAIN t, t[i] # c
        PROVE  i \in 0 .. n
    <3>1. i \in 1 .. n + 1 /\ i # n + 1
      BY <1>2, <1>4, <2>2
    <3> QED BY <1>1, <3>1
  <2> QED BY <2>1, <2>2 DEF Letters
<1> HIDE DEF L
<1>6. Max(L) \in L /\ \A x \in L : x <= Max(L)
  BY <1>1, <1>5, MaxExists
<1>7. Max(L) = n
  <2>1. Max(L) \in 0 .. n /\ n <= Max(L)
    BY <1>5, <1>6
  <2> QED BY <1>1, <2>1
<1>8. RTrim(t, c) = SubSeq(t, 1, n)
  <2>1. L # {}
    BY <1>5
  <2> QED BY <1>7, <2>1 DEF RTrim, L
<1>9. SubSeq(t, 1, n) = s
  <2>1. \A i \in 1 .. n : t[i] \in Chars
    BY <1>2, ElementOfSeq DEF Text, n
  <2>2. /\ SubSeq(t, 1, n) \in Seq(Chars)
        /\ Len(SubSeq(t, 1, n)) = IF 1 <= n THEN n - 1 + 1 ELSE 0
        /\ \A i \in 1 .. n - 1 + 1 : SubSeq(t, 1, n)[i] = t[1 + i - 1]
    BY <1>1, <2>1, SubSeqProperties
  <2>3. Len(SubSeq(t, 1, n)) = n /\ n - 1 + 1 = n
    BY <1>1, <2>2
  <2>4. ASSUME NEW i \in 1 .. n
        PROVE  SubSeq(t, 1, n)[i] = s[i]
    <3>1. 1 + i - 1 = i /\ i \in 1 .. n - 1 + 1
      BY <1>1
    <3> QED BY <1>2, <2>2, <3>1
  <2>5. s \in Seq(Chars) /\ Len(s) = n
    BY DEF Text, n
  <2> QED BY <2>2, <2>3, <2>4, <2>5, SeqEqual
<1> QED BY <1>8, <1>9 DEF t

\* Texts with a comma after each, less the commas at the end, are the texts with
\* commas between them, when the last one does not end in a comma.
LEMMA TextsJoined ==
  ASSUME NEW row \in Seq(Text), row # <<>>, Last(row) # <<>>, Last(Last(row)) # Comma
  PROVE  RTrim(FlattenSeq([i \in DOMAIN row |-> Append(row[i], Comma)]), Comma)
           = row[1] \o FlattenSeq([i \in 1 .. Len(row) - 1 |-> <<Comma>> \o row[i + 1]])
<1> DEFINE n == Len(row)
           columns == [i \in DOMAIN row |-> Append(row[i], Comma)]
           rest == [i \in 1 .. n - 1 |-> <<Comma>> \o row[i + 1]]
<1>1. n \in Nat \ {0} /\ DOMAIN row = 1 .. n /\ Comma \in Chars
  BY LenProperties, EmptySeq, RequestsAssumption
<1>2. \A i \in 1 .. n : row[i] \in Seq(Chars)
  BY <1>1, ElementOfSeq DEF Text
<1>3. <<Comma>> \in Seq(Chars)
  BY <1>1
<1>4. \A i \in 1 .. n : Append(row[i], Comma) \in Seq(Chars) /\ <<Comma>> \o row[i] \in Seq(Chars)
  BY <1>1, <1>2, <1>3, AppendProperties, ConcatProperties
<1>5. /\ columns \in Seq(Seq(Chars)) /\ Len(columns) = n
      /\ \A i \in 1 .. n : columns[i] = Append(row[i], Comma)
  BY <1>1, <1>4
<1>6. /\ rest \in Seq(Seq(Chars)) /\ Len(rest) = n - 1
      /\ \A i \in 1 .. n - 1 : rest[i] = <<Comma>> \o row[i + 1]
  <2>1. \A i \in 1 .. n - 1 : i + 1 \in 1 .. n
    BY <1>1
  <2>2. PICK k \in Nat : k = n - 1
    <3>1. n - 1 \in Nat
      BY <1>1
    <3> QED BY <3>1
  <2> DEFINE Part(i) == <<Comma>> \o row[i + 1]
  <2>3. \A i \in 1 .. k : Part(i) \in Seq(Chars)
    BY <1>4, <2>1, <2>2
  <2>4. rest = [i \in 1 .. k |-> Part(i)]
    BY <2>2
  <2>5. \A i \in 1 .. n - 1 : rest[i] = <<Comma>> \o row[i + 1]
    OBVIOUS
  <2> HIDE DEF Part, rest, n
  <2>6. rest \in Seq(Seq(Chars)) /\ Len(rest) = k
    BY <2>3, <2>4
  <2> QED BY <2>2, <2>5, <2>6
<1>7. SUFFICES RTrim(FlattenSeq(columns), Comma) = row[1] \o FlattenSeq(rest)
  OBVIOUS
<1> HIDE DEF n, columns, rest
<1>8. PICK f : Flattened(columns, f) /\ FlattenSeq(columns) = f[n]
  <2>1. columns # <<>>
    BY <1>1, <1>5, EmptySeq
  <2> QED BY <1>5, <2>1, FlattenSeqIs
<1>0. /\ \A x, y, z \in Seq(Chars) : (x \o y) \o z = x \o (y \o z)
      /\ \A x, y \in Seq(Chars) :
           Append(x, Comma) \o Append(y, Comma) = Append(x \o (<<Comma>> \o y), Comma)
  <2>1. \A x, y, z \in Seq(Chars) : (x \o y) \o z = x \o (y \o z)
    BY ConcatAssociative
  <2>2. ASSUME NEW x \in Seq(Chars), NEW y \in Seq(Chars)
        PROVE  Append(x, Comma) \o Append(y, Comma) = Append(x \o (<<Comma>> \o y), Comma)
    BY <1>1, SeparatorMoved
  <2> QED BY <2>1, <2>2
<1>9. \E g : /\ n # 1 => FlattenSeq(rest) = g[n - 1]
             /\ \A i \in 1 .. n - 1 : g[i] = IF i = 1 THEN rest[i] ELSE g[i - 1] \o rest[i]
  <2>1. CASE n = 1
    <3>1. 1 .. n - 1 = {}
      BY <2>1
    <3> QED BY <2>1, <3>1
  <2>2. CASE n # 1
    <3>1. rest # <<>>
      <4>1. n - 1 # 0
        BY <1>1, <2>2
      <4> QED BY <1>6, <4>1, EmptySeq
    <3>2. PICK g : Flattened(rest, g) /\ FlattenSeq(rest) = g[n - 1]
      BY <1>6, <3>1, FlattenSeqIs
    <3>3. \A i \in 1 .. n - 1 : g[i] = IF i = 1 THEN rest[i] ELSE g[i - 1] \o rest[i]
      BY <1>6, <3>2 DEF Flattened
    <3> QED BY <3>2, <3>3
  <2> QED BY <2>1, <2>2
<1>10. PICK g : /\ n # 1 => FlattenSeq(rest) = g[n - 1]
                /\ \A i \in 1 .. n - 1 : g[i] = IF i = 1 THEN rest[i] ELSE g[i - 1] \o rest[i]
  BY <1>9
<1>11. \A i \in 1 .. n : f[i] = IF i = 1 THEN columns[i] ELSE f[i - 1] \o columns[i]
  BY <1>5, <1>8 DEF Flattened
<1> DEFINE J(k) == IF k = 1 THEN row[1] ELSE row[1] \o g[k - 1]
           Q(k) == /\ k # 0 => g[k] \in Seq(Chars)
                   /\ J(k + 1) \in Seq(Chars) /\ f[k + 1] = Append(J(k + 1), Comma)
                   /\ row[k + 1] # <<>> => J(k + 1) # <<>> /\ Last(J(k + 1)) = Last(row[k + 1])
           P == {k \in Nat : k + 1 \in 1 .. n => Q(k)}
<1>12. 0 \in P
  BY <1>1, <1>2, <1>5, <1>11
<1>13. ASSUME NEW k \in Nat, k \in P
       PROVE  k + 1 \in P
  <2> SUFFICES ASSUME (k + 1) + 1 \in 1 .. n PROVE Q(k + 1)
    <3> HIDE DEF Q
    <3> QED OBVIOUS
  <2>1. PICK m \in Nat : m = k + 1 /\ m # 0 /\ k = m - 1
    OBVIOUS
  <2>2. /\ m \in 1 .. n /\ m + 1 \in 1 .. n /\ m \in 1 .. n - 1 /\ m + 1 # 1 /\ (m + 1) - 1 = m
        /\ (m = 1 <=> k = 0)
    BY <1>1, <2>1
  <2>3. /\ k # 0 => g[k] \in Seq(Chars)
        /\ J(m) \in Seq(Chars) /\ f[m] = Append(J(m), Comma)
    BY <1>13, <2>1, <2>2
  <2> DEFINE r == <<Comma>> \o row[m + 1]
  <2>4. /\ rest[m] = r /\ r \in Seq(Chars) /\ row[m + 1] \in Seq(Chars) /\ row[1] \in Seq(Chars)
        /\ columns[m + 1] = Append(row[m + 1], Comma)
    <3>1. rest[m] = r /\ columns[m + 1] = Append(row[m + 1], Comma)
      BY <1>5, <1>6, <2>2
    <3>2. 1 \in 1 .. n
      BY <1>1
    <3> QED BY <1>2, <1>4, <2>2, <3>1, <3>2
  <2>5. g[m] = IF m = 1 THEN r ELSE g[k] \o r
    BY <1>10, <2>1, <2>2, <2>4
  <2>6. f[m + 1] = f[m] \o columns[m + 1]
    BY <1>11, <2>2
  <2>7. J(m + 1) = row[1] \o g[m]
    BY <2>2
  <2>8. row[m + 1] # <<>> => r # <<>> /\ Last(r) = Last(row[m + 1])
    BY <1>3, <2>4, LastOfConcat
  <2> DEFINE a == J(m)
             b == J(m + 1)
  <2>9. g[m] \in Seq(Chars) /\ b = a \o r
    <3>1. CASE m = 1
      BY <2>4, <2>5, <2>7, <3>1
    <3>2. CASE m # 1
      <4>1. a = row[1] \o g[k] /\ k # 0
        BY <2>1, <2>2, <3>2
      <4> HIDE DEF a, b, J, r
      <4>2. g[m] = g[k] \o r /\ g[m] \in Seq(Chars)
        BY <2>3, <2>4, <2>5, <3>2, <4>1, ConcatProperties
      <4>3. (row[1] \o g[k]) \o r = row[1] \o (g[k] \o r)
        BY <1>0, <2>3, <2>4, <4>1
      <4>4. b = row[1] \o g[m]
        BY <2>7 DEF b
      <4> QED BY <4>1, <4>2, <4>3, <4>4
    <3> QED BY <3>1, <3>2
  <2>10. a \in Seq(Chars) /\ f[m] = Append(a, Comma)
    BY <2>3
  <2> HIDE DEF a
  <2>11. b \in Seq(Chars)
    <3> HIDE DEF b, r
    <3> QED BY <2>4, <2>9, <2>10, ConcatProperties
  <2>12. f[m + 1] = Append(b, Comma)
    <3>1. Append(a, Comma) \o Append(row[m + 1], Comma) = Append(a \o r, Comma)
      BY <1>0, <2>4, <2>10
    <3> HIDE DEF b, r
    <3> QED BY <2>4, <2>6, <2>9, <2>10, <3>1
  <2>13. row[m + 1] # <<>> => b # <<>> /\ Last(b) = Last(row[m + 1])
    <3> HIDE DEF b, r
    <3> QED BY <2>4, <2>8, <2>9, <2>10, LastOfConcat
  <2>14. b = J(m + 1)
    OBVIOUS
  <2> HIDE DEF b, J
  <2> QED BY <2>1, <2>9, <2>11, <2>12, <2>13, <2>14
<1>14. n - 1 \in P
  <2> HIDE DEF P
  <2>1. Nat \subseteq P
    BY <1>12, <1>13, SetInduction
  <2> QED BY <1>1, <2>1
<1>15. /\ J(n) \in Seq(Chars) /\ f[n] = Append(J(n), Comma)
       /\ row[n] # <<>> => J(n) # <<>> /\ Last(J(n)) = Last(row[n])
  <2>1. (n - 1) + 1 = n /\ n \in 1 .. n
    BY <1>1
  <2> HIDE DEF J
  <2> QED BY <1>14, <2>1
<1>16. row[1] \o FlattenSeq(rest) = J(n)
  <2>1. CASE n = 1
    <3>1. rest = <<>>
      BY <1>6, <2>1, EmptySeq
    <3>2. FlattenSeq(rest) = <<>>
      BY <3>1 DEF FlattenSeq
    <3> QED BY <1>1, <1>2, <2>1, <3>2, ConcatEmptySeq
  <2>2. CASE n # 1
    BY <1>10, <2>2
  <2> QED BY <2>1, <2>2
<1>17. row[n] # <<>> /\ Last(row[n]) # Comma
  BY DEF Last, n
<1> HIDE DEF J
<1>18. RTrim(Append(J(n), Comma), Comma) = J(n)
  BY <1>1, <1>15, <1>17, OneTrimmed DEF Text
<1> QED BY <1>8, <1>15, <1>16, <1>18

\* The line of a row that does not end in an empty column or a comma has the
\* columns with commas between them.
LEMMA RowJoined ==
  ASSUME NEW row \in Seq(Values), row # <<>>, EndsInText(row)
  PROVE  RowText(row) = Joint(row)
<1> DEFINE n == Len(row)
           texts == [i \in 1 .. n |-> Shown(row[i])]
<1>1. n \in Nat \ {0} /\ DOMAIN row = 1 .. n /\ \A i \in 1 .. n : Shown(row[i]) \in Text
  BY LenProperties, EmptySeq, ElementOfSeq, ShownText
<1>2. n \in 1 .. n /\ 1 \in 1 .. n /\ \A i \in 1 .. n - 1 : i + 1 \in 1 .. n
  BY <1>1
<1>3. /\ texts \in Seq(Text) /\ Len(texts) = n /\ DOMAIN texts = 1 .. n
      /\ \A i \in 1 .. n : texts[i] = Shown(row[i])
  BY <1>1
<1>4. /\ RowText(row) = RTrim(FlattenSeq([i \in 1 .. n |-> Append(Shown(row[i]), Comma)]), Comma)
      /\ Joint(row) = Shown(row[1]) \o FlattenSeq([i \in 1 .. n - 1 |-> <<Comma>> \o Shown(row[i + 1])])
      /\ Shown(row[n]) # <<>> /\ Last(Shown(row[n])) # Comma
  BY <1>1 DEF RowText, Joint, EndsInText, Last
<1> HIDE DEF n, texts
<1>5. Last(texts) # <<>> /\ Last(Last(texts)) # Comma /\ texts # <<>>
  <2>1. Last(texts) = Shown(row[n])
    BY <1>2, <1>3 DEF Last
  <2> QED BY <1>1, <1>3, <1>4, <2>1, EmptySeq
<1>6. [i \in 1 .. n |-> Append(texts[i], Comma)] = [i \in 1 .. n |-> Append(Shown(row[i]), Comma)]
  BY <1>3
<1>7. [i \in 1 .. n - 1 |-> <<Comma>> \o texts[i + 1]]
        = [i \in 1 .. n - 1 |-> <<Comma>> \o Shown(row[i + 1])]
  BY <1>2, <1>3
<1>8. RTrim(FlattenSeq([i \in 1 .. n |-> Append(texts[i], Comma)]), Comma)
        = texts[1] \o FlattenSeq([i \in 1 .. n - 1 |-> <<Comma>> \o texts[i + 1]])
  BY <1>3, <1>5, TextsJoined
<1> QED BY <1>2, <1>3, <1>4, <1>6, <1>7, <1>8

\* The lines of rows that all end in some text.
LEMMA LinesJoined ==
  ASSUME NEW rows \in Seq(Seq(Values)),
         \A k \in DOMAIN rows : rows[k] # <<>> /\ EndsInText(rows[k])
  PROVE  Lines(rows) = [k \in DOMAIN rows |-> [kind |-> "S", text |-> Joint(rows[k])]]
<1>1. \A k \in DOMAIN rows : RowText(rows[k]) = Joint(rows[k])
  BY RowJoined, ElementOfSeq, LenProperties
<1> QED BY <1>1 DEF Lines

\* With one select, the select that fetches is that one.
LEMMA SelectFound ==
  ASSUME NEW grains \in Seq(GrainRecord), NEW i \in 1 .. Len(grains), grains[i].is_select,
         \A j \in 1 .. Len(grains) : grains[j].is_select => j = i
  PROVE  SelectInSeq(grains, LAMBDA g : g.is_select) = i
<1> DEFINE I == {j \in 1 .. Len(grains) : grains[j].is_select}
<1>1. Len(grains) \in Nat
  BY LenProperties
<1>2. I \subseteq Nat /\ I # {} /\ \A j \in I : j = i
  BY <1>1
<1>3. Min(I) = i
  <2> HIDE DEF I
  <2> QED BY <1>2, MinExists
<1>4. SelectInSeq(grains, LAMBDA g : g.is_select) = Min(I)
  BY <1>2 DEF SelectInSeq
<1> QED BY <1>3, <1>4

\* What the executor that is first has when it has run its last statement.
LEMMA AnswerRight ==
  ASSUME RequestsInv, NEW d \in Dbs, FirstDone(d),
         Cardinality({i \in DOMAIN grain[d] : grain[d][i].is_select}) <= 1,
         \A i \in DOMAIN grain[d] : \A k \in DOMAIN table[d][i].rows :
           EndsInText(table[d][i].rows[k])
  PROVE  PrepareClientResults(grain[d], cursor[d]) =
           FlattenSeq([i \in DOMAIN grain[d] |->
             IF grain[d][i].is_select
               THEN [k \in DOMAIN table[d][i].rows |->
                       [kind |-> "S", text |-> Joint(table[d][i].rows[k])]]
               ELSE <<[kind |-> "M", text |-> <<ToString(RowsAffected(grain[d][i]))>>]>>])
<1>1. ExecutorStep(d) /\ phase # "received" /\ executor[d] = "running"
  BY StepRuns DEF ExecutorStep, FirstDone, AllExecuted
<1>2. /\ grain[d] \in Seq(GrainRecord) /\ DOMAIN grain[d] = 1 .. Len(grain[d])
      /\ Len(grain[d]) \in Nat
  BY <1>1, TaskPlace
<1>3. at[d] = Len(grain[d]) + 1
  BY <1>1, Moves
<1> DEFINE I == {i \in DOMAIN grain[d] : grain[d][i].is_select}
<1>4. OneSelect(d)
  <2>1. ASSUME NEW i \in I, NEW j \in I PROVE i = j
    <3>1. IsFiniteSet(1 .. Len(grain[d]))
      BY <1>2, FS_Interval
    <3>2. IsFiniteSet(I) /\ Cardinality(I) \in Nat
      <4>1. I \in SUBSET (1 .. Len(grain[d]))
        BY <1>2
      <4> HIDE DEF I
      <4> QED BY <3>1, <4>1, FS_Subset, FS_CardinalityType
    <3>3. {i} \in SUBSET I
      OBVIOUS
    <3>4. Cardinality(I) <= 1
      OBVIOUS
    <3> HIDE DEF I
    <3>5. Cardinality({i}) = 1 /\ Cardinality({i}) <= Cardinality(I)
      BY <3>2, <3>3, FS_Singleton, FS_Subset
    <3>6. Cardinality(I) = Cardinality({i})
      BY <3>2, <3>4, <3>5
    <3>7. I = {i}
      BY <3>2, <3>3, <3>6, FS_Subset
    <3> QED BY <3>7
  <2> QED BY <1>2, <2>1 DEF OneSelect
<1> DEFINE select == SelectInSeq(grain[d], LAMBDA g : g.is_select)
           Of(i) == IF ~grain[d][i].is_select
                      THEN <<[kind |-> "M", text |-> <<ToString(RowsAffected(grain[d][i]))>>]>>
                    ELSE IF i = select THEN Lines(cursor[d]) ELSE <<>>
           Rows(i) == [k \in DOMAIN table[d][i].rows |->
                         [kind |-> "S", text |-> Joint(table[d][i].rows[k])]]
<1>5. ASSUME NEW i \in DOMAIN grain[d], grain[d][i].is_select
      PROVE  i = select /\ Lines(cursor[d]) = Rows(i)
  <2>1. i \in 1 .. Len(grain[d]) /\ i < at[d]
    BY <1>2, <1>3
  <2>2. i = select
    <3>1. \A j \in 1 .. Len(grain[d]) : grain[d][j].is_select => j = i
      BY <1>4, <1>5, <2>1 DEF OneSelect
    <3> QED BY <1>2, <1>5, <2>1, <3>1, SelectFound
  <2>3. cursor[d] = table[d][i].rows
    BY <1>1, <1>4, <1>5, <2>1 DEF RequestsInv, Fetchable
  <2>4. table[d][i] \in Tables
    BY <1>5, <2>1 DEF RequestsInv, Hashed
  <2> DEFINE rows == table[d][i].rows
  <2>5. rows \in Seq(Seq(Values)) /\ \A k \in DOMAIN rows : rows[k] # <<>>
    <3>1. /\ table[d][i].types \in Seq(ColumnTypes) /\ table[d][i].types # <<>>
          /\ rows \in Seq(Seq(Values))
          /\ \A k \in DOMAIN rows : Len(rows[k]) = Len(table[d][i].types)
      BY <2>4, TablesAssumption
    <3>2. Len(table[d][i].types) # 0
      BY <3>1, EmptySeq
    <3> HIDE DEF rows
    <3>3. \A k \in DOMAIN rows : rows[k] # <<>>
      BY <3>1, <3>2, EmptySeq
    <3> QED BY <3>1, <3>3
  <2>6. \A k \in DOMAIN rows : EndsInText(rows[k])
    OBVIOUS
  <2>7. Lines(rows) = [k \in DOMAIN rows |-> [kind |-> "S", text |-> Joint(rows[k])]]
    <3> HIDE DEF rows
    <3> QED BY <2>5, <2>6, LinesJoined
  <2> QED BY <2>2, <2>3, <2>7
<1> HIDE DEF select, Rows
<1>6. \A i \in DOMAIN grain[d] :
        Of(i) = IF grain[d][i].is_select THEN Rows(i)
                ELSE <<[kind |-> "M", text |-> <<ToString(RowsAffected(grain[d][i]))>>]>>
  BY <1>5
<1>7. PrepareClientResults(grain[d], cursor[d]) = FlattenSeq([i \in DOMAIN grain[d] |-> Of(i)])
  BY DEF PrepareClientResults, select
<1> DEFINE Line(i) == IF grain[d][i].is_select THEN Rows(i)
                      ELSE <<[kind |-> "M", text |-> <<ToString(RowsAffected(grain[d][i]))>>]>>
<1>8. \A i \in DOMAIN grain[d] : Of(i) = Line(i)
  BY <1>6
<1>9. [i \in DOMAIN grain[d] |-> Of(i)] = [i \in DOMAIN grain[d] |-> Line(i)]
  <2> HIDE DEF Of, Line
  <2> QED BY <1>8
<1>10. PrepareClientResults(grain[d], cursor[d]) = FlattenSeq([i \in DOMAIN grain[d] |-> Line(i)])
  <2> HIDE DEF Of, Line
  <2> QED BY <1>7, <1>9
<1> QED BY <1>10 DEF Rows

LEMMA ResultsStep == RequestsInv /\ [Next]_vars => ResultsDelivered'
<1> SUFFICES ASSUME RequestsInv, [Next]_vars PROVE ResultsDelivered'
  OBVIOUS
<1>0. ResultsDelivered
  BY DEF RequestsInv
<1>1. CASE UNCHANGED vars \/ GetExecutor \/ VerifyRequest \/ RequestFails
  <2>1. UNCHANGED <<grain, table, first, results>>
    BY <1>1, RequestKept
  <2> QED BY <1>0, <2>1 DEF ResultsDelivered
<1>2. CASE CreateRequest
  <2>1. first' = NDb
    BY <1>2, Created DEF RequestsInv, Received
  <2> QED BY <2>1 DEF ResultsDelivered
<1>3. ASSUME NEW d \in Dbs, FirstDone(d)
      PROVE  ResultsDelivered'
  <2>1. /\ first' = d /\ grain' = grain /\ table' = table
        /\ results' = PrepareClientResults(grain[d], cursor[d])
    BY <1>3 DEF FirstDone
  <2>2. CASE /\ Cardinality({i \in DOMAIN grain[d] : grain[d][i].is_select}) <= 1
             /\ \A i \in DOMAIN grain[d] : \A k \in DOMAIN table[d][i].rows :
                  EndsInText(table[d][i].rows[k])
    <3>1. results' =
            FlattenSeq([i \in DOMAIN grain[d] |->
              IF grain[d][i].is_select
                THEN [k \in DOMAIN table[d][i].rows |->
                        [kind |-> "S", text |-> Joint(table[d][i].rows[k])]]
                ELSE <<[kind |-> "M", text |-> <<ToString(RowsAffected(grain[d][i]))>>]>>])
      BY <1>3, <2>1, <2>2, AnswerRight
    <3> QED BY <2>1, <3>1 DEF ResultsDelivered
  <2>3. CASE ~ /\ Cardinality({i \in DOMAIN grain[d] : grain[d][i].is_select}) <= 1
               /\ \A i \in DOMAIN grain[d] : \A k \in DOMAIN table[d][i].rows :
                    EndsInText(table[d][i].rows[k])
    BY <2>1, <2>3 DEF ResultsDelivered
  <2> QED BY <2>2, <2>3
<1>4. ASSUME NEW d \in Dbs, ExecutorStep(d), ~FirstDone(d)
      PROVE  ResultsDelivered'
  <2>1. first' = first /\ results' = results
    BY <1>4 DEF ExecutorStep, StartSelect, ExecuteSelect, ExecuteHashSelect, SelectFails, GetSelect,
                GetHash, Unwind, ExecuteDml, DmlFails, LaterDone
  <2>2. CASE first = NDb
    BY <2>1, <2>2 DEF ResultsDelivered
  <2>3. CASE first # NDb
    <3>1. first \in Dbs /\ executor[first] = "done" /\ executor[d] # "done"
      BY <1>4, <2>3, StepRuns DEF RequestsInv, Ended
    <3>2. grain'[first] = grain[first] /\ table'[first] = table[first]
      BY <1>4, <3>1, OthersKept
    <3> QED BY <1>0, <2>1, <3>2 DEF ResultsDelivered
  <2> QED BY <2>2, <2>3
<1> QED BY <1>1, <1>2, <1>3, <1>4, StepOf DEF ExecutorStep

LEMMA StepRequests == RequestsInv /\ [Next]_vars => RequestsInv'
BY ShapeStep, CutStep, TasksStep, WaitingStep, EndedStep, HashedStep, FetchableStep, JudgedStep, ResultsStep
   DEF RequestsInv

\* Every state that a request reaches has the invariant.
THEOREM RequestsInvariant == Spec => []RequestsInv
<1>1. RequestsInv /\ [Next]_vars => RequestsInv'
  BY StepRequests
<1> QED BY InitRequests, <1>1, PTL DEF Spec

-----------------------------------------------------------------------------
(* What holds of every request.                                            *)

LEMMA TypesFollow == RequestsInv => TypeOK
<1> SUFFICES ASSUME RequestsInv PROVE TypeOK
  OBVIOUS
<1>1. Shape
  BY DEF RequestsInv
<1>2. 0 \in Dbs
  BY RequestsAssumption DEF Dbs
<1>3. \A d \in Dbs : /\ grain[d] \in Seq(GrainRecord) /\ DOMAIN grain[d] = 1 .. Len(grain[d])
                     /\ table[d] \in Seq(Found) /\ DOMAIN table[d] = 1 .. Len(table[d])
                     /\ Len(grain[d]) \in Nat
  BY <1>1, LenProperties DEF Shape
<1>4. \A d \in Dbs : DOMAIN grain[d] = DOMAIN grain[0] /\ DOMAIN table[d] = DOMAIN grain[d]
  <2>1. CASE phase = "received"
    <3>1. \A d \in Dbs : grain[d] = <<>> /\ table[d] = <<>>
      BY <2>1 DEF RequestsInv, Received
    <3> QED BY <1>2, <3>1
  <2>2. CASE phase # "received"
    <3>1. \A d \in Dbs : Len(grain[d]) = Len(grain[0]) /\ Len(table[d]) = Len(grain[d])
      BY <1>2, <2>2 DEF RequestsInv, Cut
    <3> QED BY <1>2, <1>3, <3>1
  <2> QED BY <2>1, <2>2
<1>5. \A d \in Dbs : at[d] \in 1 .. Len(grain[d]) + 1
  BY DEF RequestsInv, Tasks
<1>6. \A d \in Dbs : executor[d] \in
        {"idle", "running", "selecting", "hashing", "unwinding", "done", "failed"}
  BY <1>1 DEF Shape, ExecutorState
<1>7. \A d \in Dbs : task[d] \in [{"select", "hash"} -> {"none", "running", "done", "failed"}]
  <2>1. ASSUME NEW t \in [select : TaskState, hash : TaskState]
        PROVE  t \in [{"select", "hash"} -> TaskState]
    OBVIOUS
  <2> QED BY <1>1, <2>1 DEF Shape, TaskState
<1>8. \A i \in DOMAIN results : results[i].kind \in {"M", "S"}
  <2>1. results \in Seq(AnswerLine) /\ DOMAIN results = 1 .. Len(results)
    BY <1>1, LenProperties DEF Shape
  <2>2. \A i \in 1 .. Len(results) : results[i] \in AnswerLine
    BY <2>1, ElementOfSeq
  <2> QED BY <2>1, <2>2 DEF AnswerLine
<1>9. first \in 0 .. NDb /\ asked \in 0 .. NDb
  BY <1>1 DEF Shape
<1>10. pass \in BOOLEAN /\ phase \in {"received", "threw", "executing", "unwinding", "failed", "verified"}
  BY <1>1 DEF Shape
<1> QED BY <1>4, <1>5, <1>6, <1>7, <1>8, <1>9, <1>10 DEF TypeOK

\* The types of a request's data, which the model's records and sequences do
\* not have by themselves.
THEOREM TypeCorrect == Spec => []TypeOK
BY RequestsInvariant, TypesFollow, PTL

LEMMA StatementsFollow == RequestsInv => SplitCorrect
<1> SUFFICES ASSUME RequestsInv PROVE SplitCorrect
  OBVIOUS
<1>1. phase # "threw" /\ msg \in Text
  BY MessageIsText DEF RequestsInv, Shape
<1>2. ASSUME phase # "received", Fits(msg), NEW d \in Dbs
      PROVE  [i \in DOMAIN grain[d] |-> grain[d][i].sql] = Statements(msg)
  <2> DEFINE sqls == Split(msg).sqls
  <2>1. sqls = Statements(msg) /\ sqls \in Seq(Text)
    BY <1>1, <1>2, SplitRight, SplitSafe
  <2>2. /\ Len(grain[d]) = Len(sqls)
        /\ \A i \in 1 .. Len(grain[d]) : grain[d][i].sql = sqls[i]
    BY <1>2 DEF RequestsInv, Cut
  <2>3. grain[d] \in Seq(GrainRecord) /\ DOMAIN grain[d] = 1 .. Len(grain[d])
    BY LenProperties DEF RequestsInv, Shape
  <2>4. DOMAIN sqls = 1 .. Len(sqls) /\ sqls = [i \in DOMAIN sqls |-> sqls[i]]
    BY <2>1, LenProperties
  <2> HIDE DEF sqls
  <2>5. [i \in DOMAIN grain[d] |-> grain[d][i].sql] = [i \in DOMAIN sqls |-> sqls[i]]
    BY <2>2, <2>3, <2>4
  <2> QED BY <2>1, <2>4, <2>5
<1> QED BY <1>1, <1>2 DEF SplitCorrect

\* create_request never throws, whatever the length of the message and the
\* width of its counters, and cuts a message that fits at its semicolons.
THEOREM StatementsRight == Spec => []SplitCorrect
BY RequestsInvariant, StatementsFollow, PTL

\* When the verdict is stored or the failure is handled, and commit or rollback
\* may use the connections, no executor and none of its tasks is at work.
THEOREM NothingLeftBehind == Spec => []ConnectionsQuiet
<1>1. RequestsInv => ConnectionsQuiet
  <2> SUFFICES ASSUME RequestsInv, phase \in {"verified", "failed"}, NEW d \in Dbs
               PROVE  /\ executor[d] \in {"done", "failed"}
                      /\ task[d].select # "running" /\ task[d].hash # "running"
    BY DEF ConnectionsQuiet
  <2>1. executor[d] \in {"done", "failed"}
    BY DEF RequestsInv, Ended
  <2>2. /\ executor[d] = "done" => task[d] = Idle
        /\ executor[d] = "failed" => task[d].select # "running" /\ task[d].hash # "running"
    BY DEF RequestsInv, Waiting
  <2>3. Idle.select = "none" /\ Idle.hash = "none"
    BY DEF Idle
  <2> QED BY <2>1, <2>2, <2>3
<1> QED BY RequestsInvariant, <1>1, PTL

\* The client is sent what its statements did at the executor that was first.
THEOREM ResultsRight == Spec => []ResultsDelivered
<1>1. RequestsInv => ResultsDelivered
  BY DEF RequestsInv
<1> QED BY RequestsInvariant, <1>1, PTL

-----------------------------------------------------------------------------
(* The verdict.                                                            *)

\* A beginning of a concatenation that lies in its first part.
LEMMA PrefixOfConcat ==
  ASSUME NEW S, NEW a \in Seq(S), NEW b \in Seq(S), NEW n \in 0 .. Len(a)
  PROVE  SubSeq(a \o b, 1, n) = SubSeq(a, 1, n) /\ SubSeq(a, 1, Len(a)) = a
<1>1. Len(a) \in Nat /\ Len(b) \in Nat /\ n \in Nat /\ n <= Len(a)
  BY LenProperties
<1>2. /\ a \o b \in Seq(S) /\ Len(a \o b) = Len(a) + Len(b)
      /\ \A i \in 1 .. Len(a) + Len(b) : (a \o b)[i] = IF i <= Len(a) THEN a[i] ELSE b[i - Len(a)]
  BY ConcatProperties
<1>3. \A i \in 1 .. n : a[i] \in S /\ (a \o b)[i] = a[i]
  <2>1. \A i \in 1 .. n : i \in 1 .. Len(a) /\ i \in 1 .. Len(a) + Len(b) /\ i <= Len(a)
    BY <1>1
  <2> QED BY <1>2, <2>1, ElementOfSeq
<1>4. ASSUME NEW s, NEW m \in Nat, \A i \in 1 .. m : s[i] \in S
      PROVE  /\ SubSeq(s, 1, m) \in Seq(S) /\ Len(SubSeq(s, 1, m)) = m
             /\ \A i \in 1 .. m : SubSeq(s, 1, m)[i] = s[i]
  <2>1. /\ SubSeq(s, 1, m) \in Seq(S)
        /\ Len(SubSeq(s, 1, m)) = IF 1 <= m THEN m - 1 + 1 ELSE 0
        /\ \A i \in 1 .. m - 1 + 1 : SubSeq(s, 1, m)[i] = s[1 + i - 1]
    BY <1>4, SubSeqProperties
  <2>2. Len(SubSeq(s, 1, m)) = m /\ m - 1 + 1 = m
    BY <2>1
  <2>3. ASSUME NEW i \in 1 .. m PROVE SubSeq(s, 1, m)[i] = s[i]
    <3>1. 1 + i - 1 = i /\ i \in 1 .. m - 1 + 1
      OBVIOUS
    <3> QED BY <2>1, <3>1
  <2> QED BY <2>1, <2>2, <2>3
<1>5. SubSeq(a \o b, 1, n) = SubSeq(a, 1, n)
  <2> DEFINE p == SubSeq(a \o b, 1, n)
             q == SubSeq(a, 1, n)
  <2>1. /\ p \in Seq(S) /\ Len(p) = n /\ \A i \in 1 .. n : p[i] = (a \o b)[i]
        /\ q \in Seq(S) /\ Len(q) = n /\ \A i \in 1 .. n : q[i] = a[i]
    BY <1>1, <1>3, <1>4
  <2> HIDE DEF p, q
  <2>2. \A i \in 1 .. n : p[i] = q[i]
    BY <1>3, <2>1
  <2>3. p = q
    BY <2>1, <2>2, SeqEqual
  <2> QED BY <2>3 DEF p, q
<1>6. SubSeq(a, 1, Len(a)) = a
  <2>1. /\ SubSeq(a, 1, Len(a)) \in Seq(S) /\ Len(SubSeq(a, 1, Len(a))) = Len(a)
        /\ \A i \in 1 .. Len(a) : SubSeq(a, 1, Len(a))[i] = a[i]
    BY <1>1, <1>4, ElementOfSeq
  <2> QED BY <2>1, SeqEqual
<1> QED BY <1>5, <1>6

FormatOf(type) ==
  CASE type = "scaled" -> "number" [] type = "date" -> "date" [] OTHER -> "plain"

\* A value as every product has it once the format is applied.
Canonical(type, value) == IF type = "date" THEN SubSeq(value, 1, DayDigits) ELSE value

\* The zeros that a product writes behind a number are gone.
LEMMA ZerosTrimmed ==
  ASSUME NEW v \in Text, OfType("scaled", v), NEW z \in Seq({Zero})
  PROVE  Trim(v \o z, Zero) = v
<1> DEFINE s == v \o z
           L == Letters(s, Zero)
           n == Len(v)
<1>1. v # <<>> /\ v[1] # Zero /\ v[n] # Zero /\ n \in Nat \ {0} /\ Len(z) \in Nat
  BY LenProperties, EmptySeq DEF OfType, Text
<1>2. z \in Text /\ \A i \in 1 .. Len(z) : z[i] = Zero
  <2>1. \A i \in 1 .. Len(z) : z[i] \in {Zero}
    BY ElementOfSeq
  <2>2. Zero \in Chars
    BY RequestsAssumption
  <2> QED BY <2>1, <2>2 DEF Text
<1>3. /\ s \in Text /\ Len(s) = n + Len(z) /\ DOMAIN s = 1 .. n + Len(z)
      /\ \A i \in 1 .. n + Len(z) : s[i] = IF i <= n THEN v[i] ELSE z[i - n]
  BY <1>2, ConcatProperties, LenProperties DEF Text
<1>4. /\ SubSeq(s, 1, n) = v
      /\ SubSeq(s, 1, Len(s)) = s
  <2>1. n \in 0 .. Len(v)
    BY <1>1
  <2>2. SubSeq(v \o z, 1, n) = SubSeq(v, 1, n) /\ SubSeq(v, 1, n) = v
    BY <1>2, <2>1, PrefixOfConcat DEF Text
  <2>3. 0 \in 0 .. Len(s)
    BY <1>1, <1>3
  <2> HIDE DEF s
  <2>4. SubSeq(s, 1, Len(s)) = s
    BY <1>3, <2>3, PrefixOfConcat DEF Text
  <2> QED BY <2>2, <2>4 DEF s
<1> HIDE DEF s, n
<1>5. 1 \in L /\ n \in L /\ L \subseteq 0 .. n /\ \A i \in L : 1 <= i
  <2>1. ASSUME NEW i \in L
        PROVE  i \in 1 .. n
    <3>1. i \in 1 .. n + Len(z) /\ s[i] # Zero
      BY <1>3, <2>1 DEF Letters
    <3>2. CASE ~(i <= n)
      <4>1. i - n \in 1 .. Len(z)
        BY <1>1, <3>1, <3>2
      <4> QED BY <1>2, <1>3, <3>1, <3>2, <4>1
    <3> QED BY <1>1, <3>1, <3>2
  <2>2. 1 \in L /\ n \in L
    <3>1. 1 \in 1 .. n + Len(z) /\ n \in 1 .. n + Len(z) /\ 1 <= n
      BY <1>1
    <3>2. s[1] # Zero /\ s[n] # Zero
      BY <1>1, <1>3, <3>1
    <3> QED BY <1>3, <3>1, <3>2 DEF Letters
  <2>3. \A i \in 1 .. n : i \in 0 .. n /\ 1 <= i
    BY <1>1
  <2> QED BY <2>1, <2>2, <2>3
<1> HIDE DEF L
<1>6. Min(L) = 1
  <2>1. L \subseteq Nat /\ L # {}
    BY <1>1, <1>5
  <2>2. Min(L) \in L /\ Min(L) <= 1
    BY <1>5, <2>1, MinExists
  <2>3. Min(L) \in Nat /\ 1 <= Min(L)
    BY <1>5, <2>1, <2>2
  <2> QED BY <2>2, <2>3
<1>7. Max(L) = n
  <2>1. Max(L) \in L /\ n <= Max(L)
    BY <1>1, <1>5, MaxExists
  <2>2. Max(L) \in 0 .. n
    BY <1>5, <2>1
  <2> QED BY <1>1, <2>1, <2>2
<1>8. LTrim(s, Zero) = s
  BY <1>4, <1>5, <1>6 DEF LTrim, L
<1>9. RTrim(s, Zero) = v
  BY <1>4, <1>5, <1>7 DEF RTrim, L
<1> QED BY <1>8, <1>9 DEF Trim, s

\* Whatever a product writes, the format makes the same of it.
LEMMA FormattedAlike ==
  ASSUME NEW d \in Dbs, NEW type \in ColumnTypes, NEW v \in Text, OfType(type, v)
  PROVE  Formatted(FormatOf(type), Written(d, type, v)) = Canonical(type, v)
<1> DEFINE z == [i \in 1 .. d |-> Zero]
<1>1. d \in Nat
  BY RequestsAssumption DEF Dbs
<1>2. z \in Seq({Zero}) /\ z \in Seq(Chars)
  BY <1>1, RequestsAssumption
<1> HIDE DEF z
<1>3. CASE type = "scaled"
  <2>1. Formatted(FormatOf(type), Written(d, type, v)) = Trim(v \o z, Zero)
    BY <1>3 DEF Formatted, FormatOf, Written, z
  <2> QED BY <1>2, <1>3, <2>1, ZerosTrimmed DEF Canonical
<1>4. CASE type = "date"
  <2>1. Formatted(FormatOf(type), Written(d, type, v)) = SubSeq(v \o z, 1, DayDigits)
    BY <1>4 DEF Formatted, FormatOf, Written, z
  <2>2. DayDigits \in 0 .. Len(v)
    BY <1>4, RequestsAssumption, LenProperties DEF OfType, Text
  <2> QED BY <1>2, <1>4, <2>1, <2>2, PrefixOfConcat DEF Canonical, Text
<1>5. CASE type = "other"
  BY <1>5 DEF Formatted, FormatOf, Written, Canonical
<1> QED BY <1>3, <1>4, <1>5 DEF ColumnTypes

ConcatOperand == [format : {"plain", "number", "date"}, column : Nat]

\* One column is put between two literals.
LEMMA SingleColumn ==
  ASSUME NEW types \in Seq(ColumnTypes), Len(types) = 1
  PROVE  /\ ConcatColumns(types) \in Seq(ConcatOperand) /\ Len(ConcatColumns(types)) = 3
         /\ ConcatColumns(types)[1].column = 0 /\ ConcatColumns(types)[3].column = 0
         /\ ConcatColumns(types)[2].column = 1
         /\ ConcatColumns(types)[2].format = FormatOf(types[1])
<1> DEFINE o == [format |-> FormatOf(types[1]), column |-> 1]
           z == [format |-> "plain", column |-> 0]
           columns == [i \in DOMAIN types |-> [format |-> FormatOf(types[i]), column |-> i]]
<1>1. types[1] \in ColumnTypes /\ DOMAIN types = 1 .. 1
  BY ElementOfSeq, LenProperties
<1>2. FormatOf(types[1]) \in {"plain", "number", "date"}
  BY <1>1 DEF ColumnTypes, FormatOf
<1>3. ConcatColumns(types) = <<z>> \o columns \o <<z>>
  BY DEF ConcatColumns, FormatOf
<1>4. o \in ConcatOperand /\ z \in ConcatOperand /\ z.column = 0 /\ o.column = 1
      /\ o.format = FormatOf(types[1])
  BY <1>2 DEF ConcatOperand
<1>5. columns = <<o>>
  BY <1>1
<1> HIDE DEF o, z, columns
<1>6. <<z>> \in Seq(ConcatOperand) /\ <<o>> \in Seq(ConcatOperand)
  BY <1>4
<1>7. /\ <<z>> \o <<o>> \in Seq(ConcatOperand) /\ Len(<<z>> \o <<o>>) = 2
      /\ (<<z>> \o <<o>>)[1] = z /\ (<<z>> \o <<o>>)[2] = o
  BY <1>6, ConcatProperties
<1>8. /\ (<<z>> \o <<o>>) \o <<z>> \in Seq(ConcatOperand) /\ Len((<<z>> \o <<o>>) \o <<z>>) = 3
      /\ ((<<z>> \o <<o>>) \o <<z>>)[1] = z /\ ((<<z>> \o <<o>>) \o <<z>>)[2] = o
      /\ ((<<z>> \o <<o>>) \o <<z>>)[3] = z
  <2> DEFINE zo == <<z>> \o <<o>>
  <2> HIDE DEF zo
  <2>1. zo \in Seq(ConcatOperand) /\ Len(zo) = 2 /\ zo[1] = z /\ zo[2] = o
    BY <1>7 DEF zo
  <2> DEFINE y == <<z>>
  <2>2. y \in Seq(ConcatOperand) /\ Len(y) = 1 /\ y[1] = z
    BY <1>6
  <2> HIDE DEF y
  <2>3. /\ zo \o y \in Seq(ConcatOperand) /\ Len(zo \o y) = 2 + 1
        /\ \A i \in 1 .. 2 + 1 : (zo \o y)[i] = IF i <= 2 THEN zo[i] ELSE y[i - 2]
    <3>1. /\ zo \o y \in Seq(ConcatOperand) /\ Len(zo \o y) = Len(zo) + Len(y)
          /\ \A i \in 1 .. Len(zo) + Len(y) :
               (zo \o y)[i] = IF i <= Len(zo) THEN zo[i] ELSE y[i - Len(zo)]
      BY <2>1, <2>2, ConcatProperties
    <3> QED BY <2>1, <2>2, <3>1
  <2>4. (zo \o y)[1] = z /\ (zo \o y)[2] = o /\ (zo \o y)[3] = z
    BY <2>1, <2>2, <2>3
  <2> QED BY <2>3, <2>4 DEF zo, y
<1> QED BY <1>3, <1>4, <1>5, <1>8

\* Every operand is a literal or a column in the format of its type.
LEMMA OperandsFormatted ==
  ASSUME NEW types \in Seq(ColumnTypes), NEW k \in DOMAIN ConcatColumns(types)
  PROVE  \/ ConcatColumns(types)[k].column = 0
         \/ /\ ConcatColumns(types)[k].column \in DOMAIN types
            /\ ConcatColumns(types)[k].format = FormatOf(types[ConcatColumns(types)[k].column])
<1>1. CASE Len(types) = 1
  <2>1. k \in 1 .. 3 /\ DOMAIN types = 1 .. 1
    BY <1>1, SingleColumn, LenProperties
  <2>2. k = 1 \/ k = 2 \/ k = 3
    BY <2>1
  <2>3. /\ ConcatColumns(types)[1].column = 0 /\ ConcatColumns(types)[3].column = 0
        /\ ConcatColumns(types)[2].column = 1
        /\ ConcatColumns(types)[2].format = FormatOf(types[1])
    BY <1>1, SingleColumn
  <2> QED BY <2>1, <2>2, <2>3
<1>2. CASE Len(types) # 1
  <2> DEFINE columns == [i \in DOMAIN types |-> [format |-> FormatOf(types[i]), column |-> i]]
  <2>1. ConcatColumns(types) = columns
    BY <1>2 DEF ConcatColumns, FormatOf
  <2>2. k \in DOMAIN types /\ columns[k].format = FormatOf(types[k]) /\ columns[k].column = k
    BY <2>1
  <2> HIDE DEF columns
  <2> QED BY <2>1, <2>2
<1> QED BY <1>1, <1>2

\* A row of a result with these types.
RowOf(types, row) ==
  /\ row \in Seq(Values) /\ Len(row) = Len(types)
  /\ \A j \in DOMAIN types : row[j] # Null => row[j] \in Text /\ OfType(types[j], row[j])

Canonicalized(types, row, op) ==
  IF op.column = 0 THEN <<Zero>>
  ELSE IF row[op.column] = Null THEN <<>> ELSE Canonical(types[op.column], row[op.column])

LEMMA OperandIs ==
  ASSUME NEW d \in Dbs, NEW t, t.types \in Seq(ColumnTypes), NEW row, RowOf(t.types, row),
         NEW k \in DOMAIN ConcatColumns(t.types)
  PROVE  Operand(d, t, row, ConcatColumns(t.types)[k])
           = Canonicalized(t.types, row, ConcatColumns(t.types)[k])
<1> DEFINE op == ConcatColumns(t.types)[k]
           c == op.column
<1>1. c = 0 \/ (c \in DOMAIN t.types /\ op.format = FormatOf(t.types[c]))
  BY OperandsFormatted
<1>2. DOMAIN t.types = 1 .. Len(t.types) /\ Len(t.types) \in Nat
  BY LenProperties
<1> HIDE DEF op
<1>3. CASE c = 0 \/ row[c] = Null
  BY <1>3 DEF Operand, Canonicalized, op
<1>4. CASE c # 0 /\ row[c] # Null
  <2>1. c \in DOMAIN t.types /\ op.format = FormatOf(t.types[c]) /\ t.types[c] \in ColumnTypes
    BY <1>1, <1>2, <1>4, ElementOfSeq
  <2>2. row[c] \in Text /\ OfType(t.types[c], row[c])
    BY <1>4, <2>1 DEF RowOf
  <2>3. Formatted(FormatOf(t.types[c]), Written(d, t.types[c], row[c])) = Canonical(t.types[c], row[c])
    BY <2>1, <2>2, FormattedAlike
  <2>4. Operand(d, t, row, op) = Formatted(FormatOf(t.types[c]), Written(d, t.types[c], row[c]))
    BY <1>4, <2>1 DEF Operand
  <2>5. Canonicalized(t.types, row, op) = Canonical(t.types[c], row[c])
    BY <1>4 DEF Canonicalized
  <2> QED BY <2>3, <2>4, <2>5 DEF op
<1> QED BY <1>3, <1>4

\* What is concatenated depends on the columns alone.
LEMMA ConcatenatedAlike ==
  ASSUME NEW d \in Dbs, NEW e \in Dbs, NEW t, NEW u, t.types \in Seq(ColumnTypes),
         u.types = t.types, NEW row, RowOf(t.types, row)
  PROVE  Concatenated(d, t, row) = Concatenated(e, u, row)
<1> DEFINE ops == ConcatColumns(t.types)
           First(k) == Operand(d, t, row, ops[k])
           Second(k) == Operand(e, u, row, ops[k])
<1>1. ASSUME NEW k \in DOMAIN ops PROVE First(k) = Second(k)
  <2>1. /\ First(k) = Canonicalized(t.types, row, ops[k])
        /\ RowOf(u.types, row) /\ u.types \in Seq(ColumnTypes)
    BY OperandIs
  <2>2. k \in DOMAIN ConcatColumns(u.types)
    OBVIOUS
  <2>3. Operand(e, u, row, ConcatColumns(u.types)[k])
          = Canonicalized(u.types, row, ConcatColumns(u.types)[k])
    BY <2>1, <2>2, OperandIs
  <2> QED BY <2>1, <2>3
<1>2. /\ Concatenated(d, t, row) = FlattenSeq([k \in DOMAIN ops |-> First(k)])
      /\ Concatenated(e, u, row) = FlattenSeq([k \in DOMAIN ops |-> Second(k)])
  BY DEF Concatenated
<1> HIDE DEF First, Second, ops
<1> QED BY <1>1, <1>2

LEMMA ThreeFlattened ==
  ASSUME NEW S, NEW parts \in Seq(Seq(S)), Len(parts) = 3
  PROVE  FlattenSeq(parts) = (parts[1] \o parts[2]) \o parts[3]
<1>1. parts # <<>>
  <2>1. Len(parts) # 0
    OBVIOUS
  <2>2. Len(<<>>) = 0
    OBVIOUS
  <2> QED BY <2>1, <2>2, Zenon
<1>2. PICK f : Flattened(parts, f) /\ FlattenSeq(parts) = f[3]
  BY <1>1, FlattenSeqIs
<1>3. \A i \in 1 .. 3 : f[i] = IF i = 1 THEN parts[i] ELSE f[i - 1] \o parts[i]
  BY <1>2 DEF Flattened
<1>4. f[1] = parts[1] /\ f[2] = f[1] \o parts[2] /\ f[3] = f[2] \o parts[3]
  <2>1. 1 \in 1 .. 3 /\ 2 \in 1 .. 3 /\ 3 \in 1 .. 3 /\ 2 - 1 = 1 /\ 3 - 1 = 2 /\ 2 # 1 /\ 3 # 1
    OBVIOUS
  <2>2. /\ f[1] = IF 1 = 1 THEN parts[1] ELSE f[1 - 1] \o parts[1]
        /\ f[2] = IF 2 = 1 THEN parts[2] ELSE f[2 - 1] \o parts[2]
        /\ f[3] = IF 3 = 1 THEN parts[3] ELSE f[3 - 1] \o parts[3]
    BY <1>3, <2>1
  <2> QED BY <2>1, <2>2
<1> QED BY <1>2, <1>4

\* A single column can be told from what is concatenated, but for its time of day.
LEMMA SingleConcatenated ==
  ASSUME NEW d \in Dbs, NEW t, t.types \in Seq(ColumnTypes), Len(t.types) = 1,
         NEW row, RowOf(t.types, row), row[1] # Null
  PROVE  /\ Canonical(t.types[1], row[1]) \in Text
         /\ Concatenated(d, t, row) = (<<Zero>> \o Canonical(t.types[1], row[1])) \o <<Zero>>
<1> DEFINE ops == ConcatColumns(t.types)
           Part(k) == Operand(d, t, row, ops[k])
           parts == [k \in DOMAIN ops |-> Part(k)]
           v == Canonical(t.types[1], row[1])
<1>1. /\ Len(ops) = 3 /\ DOMAIN ops = 1 .. 3
      /\ ops[1].column = 0 /\ ops[3].column = 0 /\ ops[2].column = 1
  BY SingleColumn, LenProperties
<1>2. Concatenated(d, t, row) = FlattenSeq(parts)
  BY DEF Concatenated
<1>3. <<Zero>> \in Seq(Chars) /\ v \in Seq(Chars)
  <2>1. Zero \in Chars /\ DayDigits \in Nat
    BY RequestsAssumption
  <2>2. 1 \in DOMAIN t.types
    BY LenProperties
  <2>3. row[1] \in Text /\ OfType(t.types[1], row[1])
    BY <2>2 DEF RowOf
  <2>4. CASE t.types[1] = "date"
    <3>1. Len(row[1]) \in Nat /\ DayDigits <= Len(row[1])
      BY <2>3, <2>4, LenProperties DEF OfType, Text
    <3>2. \A i \in 1 .. DayDigits : row[1][i] \in Chars
      BY <2>1, <2>3, <3>1, ElementOfSeq DEF Text
    <3>3. SubSeq(row[1], 1, DayDigits) \in Seq(Chars)
      BY <2>1, <3>2, SubSeqProperties
    <3> QED BY <2>1, <2>4, <3>3 DEF Canonical
  <2>5. CASE t.types[1] # "date"
    BY <2>1, <2>3, <2>5 DEF Canonical, Text
  <2> QED BY <2>4, <2>5
<1>4. Part(1) = <<Zero>> /\ Part(3) = <<Zero>> /\ Part(2) = v
  <2>1. 1 \in DOMAIN ops /\ 2 \in DOMAIN ops /\ 3 \in DOMAIN ops
    BY <1>1
  <2>2. \A k \in DOMAIN ops : Part(k) = Canonicalized(t.types, row, ops[k])
    BY OperandIs
  <2> HIDE DEF Part, ops
  <2> QED BY <1>1, <2>1, <2>2 DEF Canonicalized
<1> HIDE DEF Part, v, ops
<1>5. /\ parts \in Seq(Seq(Chars)) /\ Len(parts) = 3
      /\ parts[1] = Part(1) /\ parts[2] = Part(2) /\ parts[3] = Part(3)
  <2>1. parts = [k \in 1 .. 3 |-> Part(k)]
    BY <1>1
  <2>2. \A k \in 1 .. 3 : Part(k) \in Seq(Chars)
    <3>1. \A k \in 1 .. 3 : k = 1 \/ k = 2 \/ k = 3
      OBVIOUS
    <3> QED BY <1>3, <1>4, <3>1
  <2> HIDE DEF parts
  <2> QED BY <2>1, <2>2
<1> HIDE DEF parts
<1>6. v \in Text /\ Concatenated(d, t, row) = (<<Zero>> \o v) \o <<Zero>>
  BY <1>2, <1>3, <1>4, <1>5, ThreeFlattened DEF Text
<1> QED BY <1>6 DEF v

EmptyHash == [NoHash EXCEPT !.of = "no rows"]

Kept(d, t) == {k \in DOMAIN t.rows : ~Skipped(d, t.rows[k])}

KeptRows(d, t) == [k \in Kept(d, t) |-> t.rows[k]]

HashTexts(d, t) == [k \in Kept(d, t) |-> Concatenated(d, t, t.rows[k])]

\* A hash is the multiset of what was concatenated of the rows that are kept.
LEMMA HashIs ==
  ASSUME NEW d, NEW t
  PROVE  /\ Kept(d, t) # {} => Hash(d, t) = [of |-> "rows", rows |-> Multiset(HashTexts(d, t))]
         /\ Kept(d, t) # {} => Hash(d, t).of = "rows" /\ Hash(d, t).rows = Multiset(HashTexts(d, t))
         /\ Kept(d, t) = {} => Hash(d, t) \in {NoHash, EmptyHash}
         /\ EmptyHash.of = "no rows" /\ NoHash.of = "nothing"
<1>1. EmptyHash.of = "no rows" /\ NoHash.of = "nothing"
  BY DEF NoHash, EmptyHash
<1>2. ASSUME Kept(d, t) = {}
      PROVE  Hash(d, t) \in {NoHash, EmptyHash}
  BY <1>2 DEF Hash, EmptyHash, Kept
<1>3. ASSUME Kept(d, t) # {}
      PROVE  Hash(d, t) = [of |-> "rows", rows |-> Multiset(HashTexts(d, t))]
  <2> DEFINE texts == HashTexts(d, t)
             Times(text) == Cardinality({k \in Kept(d, t) : texts[k] = text})
  <2>1. Hash(d, t) = [of |-> "rows", rows |-> {<<texts[k], Times(texts[k])>> : k \in Kept(d, t)}]
    BY <1>3 DEF Hash, HashTexts, Kept
  <2>2. Multiset(texts) = {<<texts[k], Times(texts[k])>> : k \in Kept(d, t)}
    <3>1. DOMAIN texts = Kept(d, t)
      BY DEF HashTexts
    <3> HIDE DEF texts
    <3> QED BY <3>1 DEF Multiset, Places
  <2> HIDE DEF texts, Times
  <2>3. Hash(d, t) = [of |-> "rows", rows |-> Multiset(texts)]
    BY <2>1, <2>2
  <2> QED BY <2>3 DEF texts
<1>4. ASSUME Kept(d, t) # {}
      PROVE  Hash(d, t).of = "rows" /\ Hash(d, t).rows = Multiset(HashTexts(d, t))
  <2> DEFINE m == Multiset(HashTexts(d, t))
             h == Hash(d, t)
  <2>1. h = [of |-> "rows", rows |-> m]
    BY <1>3, <1>4
  <2> HIDE DEF m, h
  <2>2. h.of = "rows" /\ h.rows = m
    BY <2>1
  <2> QED BY <2>2 DEF m, h
<1> QED BY <1>1, <1>2, <1>3, <1>4

LEMMA OccurrencesAre == \A rows : Occurrences(rows) = Multiset(rows)
BY DEF Occurrences, Multiset, Places

\* The rows and the texts of a table that was found.
LEMMA TableFacts ==
  ASSUME NEW t \in Tables, NEW d
  PROVE  /\ t.types \in Seq(ColumnTypes) /\ t.rows \in Seq(Seq(Values))
         /\ DOMAIN t.rows = 1 .. Len(t.rows) /\ IsFiniteSet(DOMAIN t.rows)
         /\ Kept(d, t) \subseteq DOMAIN t.rows /\ IsFiniteSet(Kept(d, t))
         /\ DOMAIN HashTexts(d, t) = Kept(d, t) /\ DOMAIN KeptRows(d, t) = Kept(d, t)
         /\ \A k \in Kept(d, t) : /\ HashTexts(d, t)[k] = Concatenated(d, t, t.rows[k])
                                   /\ KeptRows(d, t)[k] = t.rows[k]
         /\ \A k \in DOMAIN t.rows : RowOf(t.types, t.rows[k])
<1>1. /\ t.types \in Seq(ColumnTypes) /\ t.rows \in Seq(Seq(Values))
      /\ \A k \in DOMAIN t.rows :
           /\ Len(t.rows[k]) = Len(t.types)
           /\ \A j \in DOMAIN t.types : t.rows[k][j] # Null => OfType(t.types[j], t.rows[k][j])
  BY TablesAssumption
<1>2. DOMAIN t.rows = 1 .. Len(t.rows) /\ Len(t.rows) \in Nat
  BY <1>1, LenProperties
<1>3. IsFiniteSet(DOMAIN t.rows)
  BY <1>2, FS_Interval
<1>4. Kept(d, t) \subseteq DOMAIN t.rows /\ IsFiniteSet(Kept(d, t))
  <2>1. Kept(d, t) \subseteq DOMAIN t.rows
    BY DEF Kept
  <2> QED BY <1>3, <2>1, FS_Subset
<1>5. /\ DOMAIN HashTexts(d, t) = Kept(d, t) /\ DOMAIN KeptRows(d, t) = Kept(d, t)
      /\ \A k \in Kept(d, t) : /\ HashTexts(d, t)[k] = Concatenated(d, t, t.rows[k])
                                /\ KeptRows(d, t)[k] = t.rows[k]
  BY DEF HashTexts, KeptRows
<1>6. ASSUME NEW k \in DOMAIN t.rows
      PROVE  RowOf(t.types, t.rows[k])
  <2>1. t.rows[k] \in Seq(Values) /\ Len(t.rows[k]) = Len(t.types)
    BY <1>1, <1>2, ElementOfSeq
  <2>2. DOMAIN t.types = 1 .. Len(t.rows[k])
    BY <1>1, <2>1, LenProperties
  <2>3. \A j \in DOMAIN t.types : t.rows[k][j] \in Values
    BY <2>1, <2>2, ElementOfSeq
  <2> QED BY <1>1, <2>1, <2>3 DEF RowOf, Values
<1> QED BY <1>1, <1>2, <1>3, <1>4, <1>5, <1>6

\* The values of a function outside of a set, with their numbers of occurrences.
LEMMA MultisetOutside ==
  ASSUME NEW f, NEW V
  PROVE  Multiset([k \in {j \in DOMAIN f : f[j] \notin V} |-> f[k]])
           = {m \in Multiset(f) : m[1] \notin V}
<1> DEFINE K == {j \in DOMAIN f : f[j] \notin V}
           g == [k \in K |-> f[k]]
<1>1. \A k \in K : g[k] = f[k] /\ Places(g, g[k]) = Places(f, f[k])
  <2>1. ASSUME NEW k \in K PROVE Places(g, g[k]) = Places(f, f[k])
    BY DEF Places
  <2> QED BY <2>1
<1>2. /\ Multiset(f) = {<<f[k], Cardinality(Places(f, f[k]))>> : k \in DOMAIN f}
      /\ Multiset(g) = {<<g[k], Cardinality(Places(g, g[k]))>> : k \in K}
  BY DEF Multiset
<1> HIDE DEF g
<1>3. Multiset(g) = {<<f[k], Cardinality(Places(f, f[k]))>> : k \in K}
  BY <1>1, <1>2
<1>4. \A k \in DOMAIN f : k \in K <=> <<f[k], Cardinality(Places(f, f[k]))>>[1] \notin V
  OBVIOUS
<1> QED BY <1>2, <1>3, <1>4 DEF g

\* The same rows, in whatever order, have the same hash at products that treat
\* their nulls alike, but for the two forms of the hash of no rows.
LEMMA SameRowsSameHash ==
  ASSUME NEW d \in Dbs, NEW e \in Dbs, NEW t \in Tables, NEW u \in Tables,
         t.types = u.types, Occurrences(t.rows) = Occurrences(u.rows), NullsAlike(d, e, t)
  PROVE  \/ Hash(d, t) = Hash(e, u)
         \/ "no rows" \in {Hash(d, t).of, Hash(e, u).of}
<1> DEFINE f == KeptRows(d, t)
           g == KeptRows(e, u)
           F == HashTexts(d, t)
           G == HashTexts(e, u)
           V == {row \in Seq(Values) : Skipped(d, row)}
<1>1. /\ IsFiniteSet(DOMAIN f) /\ IsFiniteSet(DOMAIN g)
      /\ DOMAIN F = DOMAIN f /\ DOMAIN G = DOMAIN g
      /\ DOMAIN f = Kept(d, t) /\ DOMAIN g = Kept(e, u)
      /\ \A k \in DOMAIN f : /\ F[k] = Concatenated(d, t, f[k])
                             /\ f[k] = t.rows[k] /\ RowOf(t.types, f[k])
      /\ \A k \in DOMAIN g : G[k] = Concatenated(e, u, g[k]) /\ g[k] = u.rows[k]
  BY TableFacts
<1>2. /\ Multiset(t.rows) = Multiset(u.rows)
      /\ IsFiniteSet(DOMAIN t.rows) /\ IsFiniteSet(DOMAIN u.rows)
      /\ \A k \in DOMAIN t.rows : t.rows[k] \in Seq(Values)
      /\ \A k \in DOMAIN u.rows : u.rows[k] \in Seq(Values)
  <2>1. Multiset(t.rows) = Multiset(u.rows)
    BY OccurrencesAre
  <2> QED BY <2>1, TableFacts DEF RowOf
<1>3. \A k \in DOMAIN u.rows : Skipped(e, u.rows[k]) <=> Skipped(d, u.rows[k])
  <2>1. CASE d \in NullSkips <=> e \in NullSkips
    BY <2>1 DEF Skipped
  <2>2. CASE \A k \in DOMAIN t.rows : ~HasNull(t.rows[k])
    <3>1. ASSUME NEW k \in DOMAIN u.rows PROVE ~HasNull(u.rows[k])
      <4>1. PICK l \in DOMAIN t.rows : t.rows[l] = u.rows[k]
        <5> DEFINE rt == t.rows
                   ru == u.rows
        <5>1. /\ IsFiniteSet(DOMAIN rt) /\ IsFiniteSet(DOMAIN ru)
              /\ Multiset(ru) = Multiset(rt) /\ k \in DOMAIN ru
          BY <1>2
        <5> HIDE DEF rt, ru
        <5>2. \E l \in DOMAIN rt : rt[l] = ru[k]
          BY <5>1, SamePlaces
        <5> QED BY <5>2 DEF rt, ru
      <4> QED BY <2>2, <4>1
    <3> QED BY <3>1 DEF Skipped
  <2> QED BY <2>1, <2>2 DEF NullsAlike
<1>4. Kept(d, t) = {k \in DOMAIN t.rows : t.rows[k] \notin V}
  BY <1>2 DEF Kept
<1>5. Kept(e, u) = {k \in DOMAIN u.rows : u.rows[k] \notin V}
  BY <1>2, <1>3 DEF Kept
<1>6. Multiset(f) = Multiset(g)
  <2>1. /\ f = [k \in {j \in DOMAIN t.rows : t.rows[j] \notin V} |-> t.rows[k]]
        /\ g = [k \in {j \in DOMAIN u.rows : u.rows[j] \notin V} |-> u.rows[k]]
    BY <1>4, <1>5 DEF KeptRows
  <2> DEFINE rt == t.rows
             ru == u.rows
  <2>2. /\ f = [k \in {j \in DOMAIN rt : rt[j] \notin V} |-> rt[k]]
        /\ g = [k \in {j \in DOMAIN ru : ru[j] \notin V} |-> ru[k]]
        /\ Multiset(rt) = Multiset(ru)
    BY <1>2, <2>1
  <2> HIDE DEF f, g, V, rt, ru
  <2>3. Multiset(f) = {m \in Multiset(rt) : m[1] \notin V}
    BY <2>2, MultisetOutside
  <2>4. Multiset(g) = {m \in Multiset(ru) : m[1] \notin V}
    BY <2>2, MultisetOutside
  <2> QED BY <2>2, <2>3, <2>4
<1>7. \A k \in DOMAIN f : \A l \in DOMAIN g : f[k] = g[l] => F[k] = G[l]
  <2>1. ASSUME NEW k \in DOMAIN f, NEW l \in DOMAIN g, f[k] = g[l]
        PROVE  F[k] = G[l]
    <3>1. /\ F[k] = Concatenated(d, t, f[k]) /\ RowOf(t.types, f[k])
          /\ G[l] = Concatenated(e, u, f[k])
      BY <1>1, <2>1
    <3>2. t.types \in Seq(ColumnTypes) /\ u.types = t.types
      BY TableFacts
    <3> DEFINE row == f[k]
    <3> HIDE DEF row
    <3>3. RowOf(t.types, row)
      BY <3>1 DEF row
    <3>4. Concatenated(d, t, row) = Concatenated(e, u, row)
      BY <3>2, <3>3, ConcatenatedAlike
    <3> QED BY <3>1, <3>4 DEF row
  <2> QED BY <2>1
<1>8. Multiset(F) = Multiset(G)
  <2> HIDE DEF f, g, F, G
  <2> QED BY <1>1, <1>6, <1>7, ImagesAlike
<1>9. Kept(d, t) = {} <=> Kept(e, u) = {}
  <2> HIDE DEF f, g
  <2>1. DOMAIN f = {} <=> DOMAIN g = {}
    BY <1>6 DEF Multiset
  <2> QED BY <1>1, <2>1
<1>10. CASE Kept(d, t) = {}
  <2>1. /\ Hash(d, t) \in {NoHash, EmptyHash} /\ Hash(e, u) \in {NoHash, EmptyHash}
        /\ EmptyHash.of = "no rows"
    BY <1>9, <1>10, HashIs
  <2> QED BY <2>1
<1>11. CASE Kept(d, t) # {}
  <2>1. /\ Hash(d, t) = [of |-> "rows", rows |-> Multiset(F)]
        /\ Hash(e, u) = [of |-> "rows", rows |-> Multiset(G)]
    BY <1>9, <1>11, HashIs
  <2> HIDE DEF F, G
  <2> QED BY <1>8, <2>1
<1> QED BY <1>10, <1>11

\* Hashes of one column without nulls that are equal are of the same rows, but
\* for the times of day.
LEMMA SameHashSameRows ==
  ASSUME NEW d \in Dbs, NEW e \in Dbs, NEW t \in Tables, NEW u \in Tables,
         Len(t.types) = 1, Len(u.types) = 1, t.rows # <<>>, u.rows # <<>>,
         \A k \in DOMAIN t.rows : ~HasNull(t.rows[k]),
         \A k \in DOMAIN u.rows : ~HasNull(u.rows[k]),
         Hash(d, t) = Hash(e, u)
  PROVE  Occurrences(Days(t)) = Occurrences(Days(u))
<1> DEFINE f == Days(t)
           g == Days(u)
           F == HashTexts(d, t)
           G == HashTexts(e, u)
<1>1. ASSUME NEW b \in Dbs, NEW s \in Tables, Len(s.types) = 1, s.rows # <<>>,
             \A k \in DOMAIN s.rows : ~HasNull(s.rows[k])
      PROVE  /\ Kept(b, s) # {} /\ DOMAIN HashTexts(b, s) = DOMAIN s.rows
             /\ IsFiniteSet(DOMAIN s.rows)
             /\ \A k \in DOMAIN s.rows : \E x \in Text :
                  /\ HashTexts(b, s)[k] = (<<Zero>> \o x) \o <<Zero>>
                  /\ Days(s)[k] = <<x>>
  <2>1. /\ s.types \in Seq(ColumnTypes) /\ DOMAIN s.types = 1 .. 1
        /\ s.rows \in Seq(Seq(Values)) /\ DOMAIN s.rows = 1 .. Len(s.rows)
        /\ IsFiniteSet(DOMAIN s.rows) /\ DOMAIN HashTexts(b, s) = Kept(b, s)
        /\ \A k \in Kept(b, s) : HashTexts(b, s)[k] = Concatenated(b, s, s.rows[k])
        /\ \A k \in DOMAIN s.rows : RowOf(s.types, s.rows[k])
    BY <1>1, TableFacts, LenProperties
  <2>2. Kept(b, s) = DOMAIN s.rows
    BY <1>1 DEF Kept, Skipped
  <2>3. DOMAIN s.rows # {}
    <3>1. Len(s.rows) \in Nat /\ Len(s.rows) # 0
      BY <1>1, <2>1, LenProperties, EmptySeq
    <3> QED BY <2>1, <3>1
  <2>4. ASSUME NEW k \in DOMAIN s.rows
        PROVE  \E x \in Text : /\ HashTexts(b, s)[k] = (<<Zero>> \o x) \o <<Zero>>
                              /\ Days(s)[k] = <<x>>
    <3> DEFINE row == s.rows[k]
               x == Canonical(s.types[1], row[1])
    <3>1. row[1] # Null /\ RowOf(s.types, row)
      <4>1. row \in Seq(Values) /\ Len(row) = 1
        BY <1>1, <2>1 DEF RowOf
      <4>2. 1 \in DOMAIN row
        BY <4>1, LenProperties
      <4> QED BY <1>1, <2>1, <4>2 DEF HasNull
    <3>2. x \in Text /\ Concatenated(b, s, row) = (<<Zero>> \o x) \o <<Zero>>
      <4> HIDE DEF row
      <4> QED BY <1>1, <2>1, <3>1, SingleConcatenated
    <3>3. Days(s)[k] = <<x>>
      <4>1. Days(s)[k] = [j \in 1 .. 1 |-> IF s.types[j] = "date"
                            THEN SubSeq(row[j], 1, DayDigits) ELSE row[j]]
        BY <2>1 DEF Days
      <4>2. \A j \in 1 .. 1 : j = 1
        OBVIOUS
      <4>3. Days(s)[k] = [j \in 1 .. 1 |-> x]
        BY <4>1, <4>2 DEF Canonical
      <4> HIDE DEF x
      <4> QED BY <4>3
    <3>4. HashTexts(b, s)[k] = (<<Zero>> \o x) \o <<Zero>>
      BY <2>1, <2>2, <3>2
    <3> HIDE DEF x
    <3> QED BY <3>2, <3>3, <3>4
  <2> QED BY <2>1, <2>2, <2>3, <2>4
<1>2. /\ Kept(d, t) # {} /\ DOMAIN F = DOMAIN t.rows /\ IsFiniteSet(DOMAIN t.rows)
      /\ \A k \in DOMAIN t.rows : \E x \in Text : F[k] = (<<Zero>> \o x) \o <<Zero>> /\ f[k] = <<x>>
  BY <1>1
<1>3. /\ Kept(e, u) # {} /\ DOMAIN G = DOMAIN u.rows /\ IsFiniteSet(DOMAIN u.rows)
      /\ \A k \in DOMAIN u.rows : \E x \in Text : G[k] = (<<Zero>> \o x) \o <<Zero>> /\ g[k] = <<x>>
  BY <1>1
<1>4. DOMAIN f = DOMAIN t.rows /\ DOMAIN g = DOMAIN u.rows
  BY DEF Days
<1>5. Multiset(F) = Multiset(G)
  <2>1. Hash(d, t).rows = Multiset(F) /\ Hash(e, u).rows = Multiset(G)
    BY <1>2, <1>3, HashIs
  <2> HIDE DEF F, G
  <2> QED BY <2>1
<1>6. <<Zero>> \in Seq(Chars)
  BY RequestsAssumption
<1>7. \A x, y \in Seq(Chars) : (<<Zero>> \o x) \o <<Zero>> = (<<Zero>> \o y) \o <<Zero>> => x = y
  <2>1. ASSUME NEW x \in Seq(Chars), NEW y \in Seq(Chars),
               (<<Zero>> \o x) \o <<Zero>> = (<<Zero>> \o y) \o <<Zero>>
        PROVE  x = y
    <3> DEFINE z == <<Zero>>
    <3> HIDE DEF z
    <3>1. z \in Seq(Chars) /\ (z \o x) \o z = (z \o y) \o z
      BY <1>6, <2>1 DEF z
    <3>2. z \o x \in Seq(Chars) /\ z \o y \in Seq(Chars)
      BY <3>1, ConcatProperties
    <3>3. z \o x = z \o y
      BY <3>1, <3>2, ConcatSimplifications
    <3> QED BY <3>1, <3>3, ConcatSimplifications
  <2> QED BY <2>1
<1> HIDE DEF f, g, F, G
<1>8. ASSUME NEW k \in DOMAIN F, NEW l \in DOMAIN G, F[k] = G[l]
      PROVE  f[k] = g[l]
  <2>1. PICK x \in Text : F[k] = (<<Zero>> \o x) \o <<Zero>> /\ f[k] = <<x>>
    BY <1>2
  <2>2. PICK y \in Text : G[l] = (<<Zero>> \o y) \o <<Zero>> /\ g[l] = <<y>>
    BY <1>3
  <2>3. x = y
    BY <1>7, <1>8, <2>1, <2>2 DEF Text
  <2> QED BY <2>1, <2>2, <2>3
<1>9. Multiset(f) = Multiset(g)
  BY <1>2, <1>3, <1>4, <1>5, <1>8, ImagesAlike
<1> QED BY <1>9, OccurrencesAre DEF f, g

\* A verified request has run every statement at every executor.
LEMMA VerifiedStatement ==
  ASSUME RequestsInv, phase = "verified", NEW d \in Dbs, NEW i \in DOMAIN grain[0]
  PROVE  /\ i \in DOMAIN grain[d] /\ DOMAIN grain[d] = DOMAIN grain[0]
         /\ grain[d][i].is_select = grain[0][i].is_select /\ grain[d][i].rows \in Nat
         /\ ~grain[d][i].is_select => table[d][i] = NoTable /\ grain[d][i].sql_hash = NoHash
         /\ grain[d][i].is_select =>
              /\ grain[d][i].rows = 0 /\ table[d][i] \in Tables
              /\ grain[d][i].sql_hash = Hash(d, table[d][i])
<1>1. 0 \in Dbs
  BY RequestsAssumption DEF Dbs
<1>2. \A e \in Dbs : /\ grain[e] \in Seq(GrainRecord) /\ DOMAIN grain[e] = 1 .. Len(grain[e])
                     /\ Len(grain[e]) \in Nat
  BY LenProperties DEF RequestsInv, Shape
<1>3. \A e \in Dbs : Len(grain[e]) = Len(Split(msg).sqls)
  BY DEF RequestsInv, Cut
<1>4. i \in 1 .. Len(grain[d]) /\ i \in 1 .. Len(grain[0]) /\ DOMAIN grain[d] = DOMAIN grain[0]
  BY <1>1, <1>2, <1>3
<1>5. grain[d][i].is_select = grain[0][i].is_select
  BY <1>1, <1>4 DEF RequestsInv, Cut
<1>6. i < at[d]
  <2>1. at[d] = Len(grain[d]) + 1
    BY DEF RequestsInv, Ended
  <2> QED BY <1>2, <1>4, <2>1
<1>7. grain[d][i].rows \in Nat
  <2>1. grain[d][i] \in GrainRecord
    BY <1>2, <1>4, ElementOfSeq
  <2> QED BY <2>1 DEF GrainRecord
<1>8. /\ ~grain[d][i].is_select => table[d][i] = NoTable /\ grain[d][i].sql_hash = NoHash
      /\ grain[d][i].is_select =>
           /\ grain[d][i].rows = 0 /\ table[d][i] \in Tables
           /\ grain[d][i].sql_hash = Hash(d, table[d][i])
  BY <1>4, <1>6 DEF RequestsInv, Hashed
<1> QED BY <1>2, <1>4, <1>5, <1>7, <1>8

LEMMA VerdictFollows == RequestsInv => VerdictRight
<1> SUFFICES ASSUME RequestsInv, phase = "verified"
             PROVE  /\ (\A d, e \in Dbs : \A i \in DOMAIN grain[0] :
                          SameData(d, e, i) /\ NullsAlike(d, e, table[d][i])) => pass
                    /\ \A d, e \in Dbs : \A i \in DOMAIN grain[0] :
                         pass /\ Exact(d, i) /\ Exact(e, i) => SameToTheDay(d, e, i)
  BY DEF VerdictRight
<1>1. pass = Comparison
  BY DEF RequestsInv, Judged
<1>2. ASSUME \A d, e \in Dbs : \A i \in DOMAIN grain[0] :
               SameData(d, e, i) /\ NullsAlike(d, e, table[d][i])
      PROVE  pass
  <2>1. ASSUME NEW d \in Dbs, NEW e \in Dbs, NEW i \in DOMAIN grain[d], d # e
        PROVE  Match(grain[d][i], grain[e][i]) \/ Emptied(grain[d][i], grain[e][i])
    <3>1. 0 \in Dbs
      BY RequestsAssumption DEF Dbs
    <3>2. i \in DOMAIN grain[0]
      <4>1. \A f \in Dbs : Len(grain[f]) = Len(Split(msg).sqls)
        BY DEF RequestsInv, Cut
      <4>2. \A f \in Dbs : DOMAIN grain[f] = 1 .. Len(grain[f])
        BY LenProperties DEF RequestsInv, Shape
      <4> QED BY <2>1, <3>1, <4>1, <4>2
    <3>3. /\ grain[d][i].rows = grain[e][i].rows
          /\ Occurrences(table[d][i].rows) = Occurrences(table[e][i].rows)
          /\ table[d][i].types = table[e][i].types /\ NullsAlike(d, e, table[d][i])
      BY <1>2, <3>2 DEF SameData
    <3>4. RowsAffected(grain[d][i]) = RowsAffected(grain[e][i])
      BY <3>3 DEF RowsAffected
    <3>5. grain[d][i].is_select = grain[e][i].is_select
      BY <3>2, VerifiedStatement
    <3>6. CASE ~grain[d][i].is_select
      <4>1. grain[d][i].sql_hash = grain[e][i].sql_hash
        BY <3>2, <3>5, <3>6, VerifiedStatement
      <4> QED BY <3>4, <4>1 DEF Match
    <3>7. CASE grain[d][i].is_select
      <4>1. /\ table[d][i] \in Tables /\ table[e][i] \in Tables
            /\ grain[d][i].sql_hash = Hash(d, table[d][i])
            /\ grain[e][i].sql_hash = Hash(e, table[e][i])
        BY <3>2, <3>5, <3>7, VerifiedStatement
      <4>2. \/ grain[d][i].sql_hash = grain[e][i].sql_hash
            \/ "no rows" \in {grain[d][i].sql_hash.of, grain[e][i].sql_hash.of}
        <5> DEFINE t == table[d][i]
                   u == table[e][i]
        <5>1. /\ t \in Tables /\ u \in Tables /\ t.types = u.types
              /\ Occurrences(t.rows) = Occurrences(u.rows) /\ NullsAlike(d, e, t)
          BY <3>3, <4>1
        <5> HIDE DEF t, u
        <5>2. Hash(d, t) = Hash(e, u) \/ "no rows" \in {Hash(d, t).of, Hash(e, u).of}
          BY <5>1, SameRowsSameHash
        <5> QED BY <4>1, <5>2 DEF t, u
      <4> QED BY <3>4, <4>2 DEF Match, Emptied
    <3> QED BY <3>6, <3>7
  <2> QED BY <1>1, <2>1 DEF Comparison
<1>3. ASSUME NEW d \in Dbs, NEW e \in Dbs, NEW i \in DOMAIN grain[0],
             pass, Exact(d, i), Exact(e, i)
      PROVE  SameToTheDay(d, e, i)
  <2>1. CASE d = e
    BY <2>1 DEF SameToTheDay
  <2>2. CASE d # e
    <3>1. /\ i \in DOMAIN grain[d] /\ grain[d][i].is_select = grain[e][i].is_select
          /\ grain[d][i].rows \in Nat /\ grain[e][i].rows \in Nat
      BY VerifiedStatement
    <3>2. Match(grain[d][i], grain[e][i]) \/ Emptied(grain[d][i], grain[e][i])
      BY <1>1, <1>3, <2>2, <3>1 DEF Comparison
    <3>3. NoHash.of = "nothing"
      BY DEF NoHash
    <3>4. Match(grain[d][i], grain[e][i]) => grain[d][i].rows = grain[e][i].rows
      <4>1. grain[d][i].rows < IntRange /\ grain[e][i].rows < IntRange
        BY <1>3 DEF Exact
      <4>2. /\ grain[d][i].rows % IntRange = grain[d][i].rows
            /\ grain[e][i].rows % IntRange = grain[e][i].rows
        BY <3>1, <4>1, Wrapped, RequestsAssumption
      <4> QED BY <4>2 DEF Match, RowsAffected
    <3>5. CASE ~grain[d][i].is_select
      <4>1. /\ table[d][i] = NoTable /\ table[e][i] = NoTable
            /\ grain[d][i].sql_hash = NoHash /\ grain[e][i].sql_hash = NoHash
        BY <3>1, <3>5, VerifiedStatement
      <4>2. Match(grain[d][i], grain[e][i])
        BY <3>2, <3>3, <4>1 DEF Emptied
      <4> QED BY <3>4, <4>1, <4>2 DEF SameToTheDay
    <3>6. CASE grain[d][i].is_select
      <4>1. /\ table[d][i] \in Tables /\ table[e][i] \in Tables
            /\ grain[d][i].sql_hash = Hash(d, table[d][i])
            /\ grain[e][i].sql_hash = Hash(e, table[e][i])
        BY <3>1, <3>6, VerifiedStatement
      <4>2. /\ Len(table[d][i].types) = 1 /\ table[d][i].rows # <<>>
            /\ Len(table[e][i].types) = 1 /\ table[e][i].rows # <<>>
            /\ \A k \in DOMAIN table[d][i].rows : ~HasNull(table[d][i].rows[k])
            /\ \A k \in DOMAIN table[e][i].rows : ~HasNull(table[e][i].rows[k])
        BY <1>3, <3>1, <3>6 DEF Exact
      <4>3. Hash(d, table[d][i]).of = "rows" /\ Hash(e, table[e][i]).of = "rows"
        <5>1. ASSUME NEW b \in Dbs, NEW t \in Tables, t.rows # <<>>,
                     \A k \in DOMAIN t.rows : ~HasNull(t.rows[k])
              PROVE  Hash(b, t).of = "rows"
          <6>1. t.rows \in Seq(Seq(Values)) /\ DOMAIN t.rows = 1 .. Len(t.rows)
            BY TableFacts
          <6>2. Len(t.rows) \in Nat /\ Len(t.rows) # 0
            BY <5>1, <6>1, LenProperties, EmptySeq
          <6>3. 1 \in DOMAIN t.rows
            BY <6>1, <6>2
          <6>4. Kept(b, t) # {}
            BY <5>1, <6>3 DEF Kept, Skipped
          <6> QED BY <6>4, HashIs
        <5> QED BY <4>1, <4>2, <5>1
      <4>4. Match(grain[d][i], grain[e][i])
        BY <3>2, <4>1, <4>3 DEF Emptied
      <4>5. Hash(d, table[d][i]) = Hash(e, table[e][i])
        BY <4>1, <4>4 DEF Match
      <4>6. Occurrences(Days(table[d][i])) = Occurrences(Days(table[e][i]))
        <5> DEFINE t == table[d][i]
                   u == table[e][i]
        <5>1. /\ t \in Tables /\ u \in Tables /\ Len(t.types) = 1 /\ Len(u.types) = 1
              /\ t.rows # <<>> /\ u.rows # <<>> /\ Hash(d, t) = Hash(e, u)
              /\ \A k \in DOMAIN t.rows : ~HasNull(t.rows[k])
              /\ \A k \in DOMAIN u.rows : ~HasNull(u.rows[k])
          BY <4>1, <4>2, <4>5
        <5> HIDE DEF t, u
        <5>2. Occurrences(Days(t)) = Occurrences(Days(u))
          BY <5>1, SameHashSameRows
        <5> QED BY <5>2 DEF t, u
      <4> QED BY <3>4, <4>4, <4>6 DEF SameToTheDay
    <3> QED BY <3>5, <3>6
  <2> QED BY <2>1, <2>2
<1> QED BY <1>2, <1>3

\* Equal data passes, whatever the order of the rows, the formats of the
\* products and their hash of no rows, as long as the products treat its nulls
\* alike; and data that passes is equal but for the times of day, where the hash
\* and the count can tell it apart.
THEOREM VerdictCorrect == Spec => []VerdictRight
BY RequestsInvariant, VerdictFollows, PTL
=============================================================================
