-------------------------- MODULE LogStreamProofs --------------------------
(***************************************************************************)
(* What containerLogs returns is right, for logs of any length, any times, *)
(* any options, and whatever frames the engine cuts its streams into, as   *)
(* long as no frame ends within a character (docker-logs.ts decodes each   *)
(* frame by itself).                                                       *)
(*                                                                         *)
(* The argument follows a reply from the engine to the caller.  The pieces *)
(* that came form a set D that has, of each stream, a beginning (Closed);  *)
(* after them the decoder's entries are the lines both of whose pieces are *)
(* in D, once each, and its buffers hold the heads of those whose rest is  *)
(* not (Shown).  A token, a piece, a frame, the frames together keep that, *)
(* and the flush at the end turns it into Delivers.  Sorted by time and    *)
(* filtered, what was delivered is Sound, and Complete if all of it came.  *)
(***************************************************************************)
EXTENDS LogStream, FiniteSetTheorems, SequenceTheorems, TLAPS

-----------------------------------------------------------------------------
(* Induction and recursive functions. *)

LEMMA LeastNatural ==
    ASSUME NEW S, S \subseteq Nat, S # {}
    PROVE  \E m \in S : \A n \in S : m <= n
<1>1. PICK m \in S : \A n \in S : <<n, m>> \notin OpToRel(<, Nat)
  BY WFMin, NatLessThanWellFounded, Zenon
<1>2. \A n \in S : ~(n < m) BY <1>1, Zenon DEF OpToRel
<1>3. m \in Nat /\ \A n \in S : n \in Nat OBVIOUS
<1> HIDE <1>1
<1> QED BY <1>2, <1>3

LEMMA UpTo ==
    ASSUME NEW b \in Nat, NEW N \in Nat, NEW S,
           b \in S, \A n \in b..N - 1 : n \in S => n + 1 \in S
    PROVE  \A n \in b..N : n \in S
<1> SUFFICES ASSUME NEW k \in b..N, k \notin S PROVE FALSE
  OBVIOUS
<1> DEFINE Out == {n \in b..N : n \notin S}
<1>1. Out \subseteq Nat /\ Out # {} OBVIOUS
<1>2. PICK m \in Out : \A n \in Out : m <= n BY <1>1, LeastNatural
<1>3. m # b /\ m - 1 \in b..N - 1 /\ m - 1 \notin Out BY <1>2
<1>4. m - 1 \in S BY <1>3
<1> QED BY <1>2, <1>3, <1>4

(* A function that is given by its first value and each by the one before. *)
Iterates(h, T, b, N, a, G) ==
    h \in [b..N -> T] /\ h[b] = a /\ \A t \in b + 1..N : h[t] = G[t][h[t - 1]]

LEMMA Recursion ==
    ASSUME NEW T, NEW b \in Nat, NEW N \in Nat, b <= N, NEW a \in T, NEW G \in [b + 1..N -> [T -> T]]
    PROVE  \E h : Iterates(h, T, b, N, a, G)
<1> DEFINE S == {n \in b..N : \E h \in [b..n -> T] : h[b] = a /\ \A t \in b + 1..n : h[t] = G[t][h[t - 1]]}
<1>1. b \in S
  <2> DEFINE h == [t \in b..b |-> a]
  <2>1. h \in [b..b -> T] /\ h[b] = a OBVIOUS
  <2>2. \A t \in b + 1..b : h[t] = G[t][h[t - 1]] OBVIOUS
  <2>3. b \in b..N OBVIOUS
  <2> HIDE DEF h
  <2> QED BY <2>1, <2>2, <2>3
<1>2. ASSUME NEW n \in b..N - 1, n \in S PROVE n + 1 \in S
  <2>1. PICK h \in [b..n -> T] : h[b] = a /\ \A t \in b + 1..n : h[t] = G[t][h[t - 1]]
    BY <1>2
  <2> DEFINE g == [t \in b..n + 1 |-> IF t = n + 1 THEN G[n + 1][h[n]] ELSE h[t]]
  <2>2. n + 1 \in b + 1..N /\ n \in b..n /\ n + 1 # b /\ n + 1 \in b..N OBVIOUS
  <2>3. G[n + 1][h[n]] \in T BY <2>2
  <2>4. \A t \in b..n + 1 : t # n + 1 => t \in b..n OBVIOUS
  <2>5. g \in [b..n + 1 -> T] BY <2>3, <2>4
  <2>6. g[b] = a BY <2>1, <2>2
  <2>7. ASSUME NEW t \in b + 1..n + 1 PROVE g[t] = G[t][g[t - 1]]
    <3>1. CASE t = n + 1 BY <3>1, <2>2
    <3>2. CASE t # n + 1
      <4>1. t \in b + 1..n /\ t \in b..n + 1 /\ t - 1 \in b..n + 1 /\ t - 1 # n + 1 BY <3>2
      <4>2. h[t] = G[t][h[t - 1]] BY <2>1, <4>1
      <4>3. g[t] = h[t] /\ g[t - 1] = h[t - 1] BY <4>1, <3>2
      <4> QED BY <4>2, <4>3
    <3> QED BY <3>1, <3>2
  <2> HIDE DEF g
  <2> QED BY <2>2, <2>5, <2>6, <2>7
<1>3. N \in S
  <2> HIDE DEF S
  <2>1. N \in b..N OBVIOUS
  <2> QED BY <1>1, <1>2, <2>1, UpTo
<1> QED BY <1>3 DEF Iterates

-----------------------------------------------------------------------------
(* The decoder's buffers and entries. *)

Tokens == Nat \X {"head", "rest", "newline", "garbled"}

LEMMA TokensAre ==
    /\ \A l \in Nat : <<l, "head">> \in Tokens /\ <<l, "rest">> \in Tokens
    /\ Newline \in Tokens
BY DEF Tokens, Newline

Entries == [stream : Streams, text : Seq(Tokens)]
Accs == [entries : Seq(Entries), buffers : [Streams -> Seq(Tokens)]]

LEMMA AppendTokenIs ==
    ASSUME NEW acc \in Accs, NEW s \in Streams, NEW token \in Tokens,
           NEW next, next = AppendToken(acc, s, token)
    PROVE  /\ next \in Accs
           /\ \A r \in Streams : r # s => next.buffers[r] = acc.buffers[r]
           /\ token # Newline => next.entries = acc.entries /\ next.buffers[s] = Append(acc.buffers[s], token)
           /\ token = Newline => next.buffers[s] = <<>>
           /\ token = Newline /\ acc.buffers[s] = <<>> => next = acc
           /\ token = Newline /\ acc.buffers[s] # <<>> =>
                  next.entries = Append(acc.entries, [stream |-> s, text |-> acc.buffers[s]])
<1>1. CASE token # Newline
  <2>1. next = [acc EXCEPT !.buffers[s] = Append(@, token)] BY <1>1 DEF AppendToken
  <2>2. Append(acc.buffers[s], token) \in Seq(Tokens) BY DEF Accs
  <2>3. next.buffers = [acc.buffers EXCEPT ![s] = Append(@, token)] /\ next.entries = acc.entries
    BY <2>1 DEF Accs
  <2>4. next \in Accs BY <2>1, <2>2 DEF Accs
  <2>5. next.buffers[s] = Append(acc.buffers[s], token) BY <2>3 DEF Accs
  <2> QED BY <1>1, <2>3, <2>4, <2>5 DEF Accs
<1>2. CASE token = Newline /\ acc.buffers[s] = <<>>
  BY <1>2 DEF AppendToken
<1>3. CASE token = Newline /\ acc.buffers[s] # <<>>
  <2> DEFINE entry == [stream |-> s, text |-> acc.buffers[s]]
             buffers == [acc.buffers EXCEPT ![s] = <<>>]
  <2>1. next = [entries |-> Append(acc.entries, entry), buffers |-> buffers]
    BY <1>3 DEF AppendToken
  <2>2. entry \in Entries BY DEF Accs, Entries
  <2>3. buffers \in [Streams -> Seq(Tokens)] BY DEF Accs
  <2>4. Append(acc.entries, entry) \in Seq(Entries) BY <2>2 DEF Accs
  <2>5. next \in Accs BY <2>1, <2>3, <2>4 DEF Accs
  <2>6. next.entries = Append(acc.entries, entry) /\ next.buffers = buffers BY <2>1
  <2>7. buffers[s] = <<>> /\ \A r \in Streams : r # s => buffers[r] = acc.buffers[r] BY DEF Accs
  <2> QED BY <1>3, <2>5, <2>6, <2>7
<1> QED BY <1>1, <1>2, <1>3

LEMMA PairIs ==
    ASSUME NEW T, NEW x \in T, NEW y \in T
    PROVE  Append(<<x>>, y) = <<x, y>> /\ <<x>> \o <<y>> = <<x, y>>
<1> DEFINE s == Append(<<x>>, y)
           u == <<x>> \o <<y>>
           t == <<x, y>>
<1>1. s \in Seq(T) /\ Len(s) = 2 /\ s[1] = x /\ s[2] = y OBVIOUS
<1>2. t \in Seq(T) /\ Len(t) = 2 /\ t[1] = x /\ t[2] = y OBVIOUS
<1>3. u \in Seq(T) /\ Len(u) = 2 /\ u[1] = x /\ u[2] = y OBVIOUS
<1>4. \A i \in 1..2 : i = 1 \/ i = 2 OBVIOUS
<1> HIDE DEF s, t, u
<1>5. s = t BY <1>1, <1>2, <1>4, SeqEqual
<1>6. u = t BY <1>2, <1>3, <1>4, SeqEqual
<1> QED BY <1>5, <1>6 DEF s, t, u

AfterToken(next, acc, s, token) ==
    /\ \A r \in Streams : r # s => next.buffers[r] = acc.buffers[r]
    /\ token # Newline => next.entries = acc.entries /\ next.buffers[s] = Append(acc.buffers[s], token)
    /\ token = Newline => next.buffers[s] = <<>>
    /\ token = Newline /\ acc.buffers[s] = <<>> => next = acc
    /\ token = Newline /\ acc.buffers[s] # <<>> =>
           next.entries = Append(acc.entries, [stream |-> s, text |-> acc.buffers[s]])

LEMMA AppendTokenGives ==
    ASSUME NEW acc \in Accs, NEW s \in Streams, NEW token \in Tokens
    PROVE  /\ AppendToken(acc, s, token) \in Accs
           /\ AfterToken(AppendToken(acc, s, token), acc, s, token)
<1> PICK next : next = AppendToken(acc, s, token) OBVIOUS
<1>1. next \in Accs /\ AfterToken(next, acc, s, token) BY AppendTokenIs DEF AfterToken
<1> QED BY <1>1

(* AppendText goes from token to token. *)
Reads(h, acc, s, text, n) ==
    /\ h \in [0..n -> Accs]
    /\ h[0] = acc
    /\ \A t \in 0..n - 1 : h[t + 1] = AppendToken(h[t], s, text[t + 1])
    /\ AppendText(acc, s, text) = h[n]

LEMMA TextTrace ==
    ASSUME NEW acc \in Accs, NEW s \in Streams, NEW text \in Seq(Tokens), NEW n, n = Len(text)
    PROVE  \E h : Reads(h, acc, s, text, n)
<1> DEFINE N == Len(text)
           G == [t \in 1..N |-> [x \in Accs |-> AppendToken(x, s, text[t])]]
           h == CHOOSE g : g = [t \in 0..N |-> IF t = 0 THEN acc ELSE AppendToken(g[t - 1], s, text[t])]
<1>1. N \in Nat /\ \A t \in 1..N : text[t] \in Tokens OBVIOUS
<1>2. G \in [1..N -> [Accs -> Accs]]
  <2>1. \A t \in 1..N : \A x \in Accs : AppendToken(x, s, text[t]) \in Accs BY <1>1, AppendTokenIs
  <2> HIDE DEF N
  <2> QED BY <2>1
<1>3. PICK g \in [0..N -> Accs] : g[0] = acc /\ \A t \in 1..N : g[t] = G[t][g[t - 1]]
  <2> HIDE DEF N, G
  <2>1. 0 \in Nat /\ N \in Nat /\ 0 <= N /\ 1..N = 0 + 1..N BY <1>1
  <2>2. PICK g : Iterates(g, Accs, 0, N, acc, G) BY <1>2, <2>1, Recursion
  <2> QED BY <2>1, <2>2 DEF Iterates
<1>4. g = [t \in 0..N |-> IF t = 0 THEN acc ELSE AppendToken(g[t - 1], s, text[t])]
  <2>0. N \in Nat OBVIOUS
  <2>1. \A t \in 0..N : t # 0 => t \in 1..N /\ g[t - 1] \in Accs
    <3> HIDE DEF N, G
    <3> QED BY <2>0
  <2>2. \A t \in 0..N : t # 0 => G[t][g[t - 1]] = AppendToken(g[t - 1], s, text[t]) BY <2>1
  <2> HIDE DEF N, G
  <2> QED BY <1>3, <2>1, <2>2
<1>5. h = [t \in 0..N |-> IF t = 0 THEN acc ELSE AppendToken(h[t - 1], s, text[t])]
  BY <1>4
<1>6. AppendText(acc, s, text) = h[N] BY DEF AppendText
<1> HIDE DEF h
<1>7. h[0] = acc /\ \A t \in 1..N : h[t] = AppendToken(h[t - 1], s, text[t])
  <2>1. 0 \in 0..N /\ \A t \in 1..N : t \in 0..N /\ t # 0 BY <1>1
  <2> HIDE DEF N
  <2> QED BY <1>5, <2>1
<1> DEFINE S == {k \in 0..N : h[k] \in Accs}
<1>8. \A k \in 0..N : k \in S
  <2>1. 0 \in S BY <1>1, <1>7
  <2>2. ASSUME NEW k \in 0..N - 1, k \in S PROVE k + 1 \in S
    <3>1. k + 1 \in 1..N /\ k + 1 \in 0..N /\ k + 1 - 1 = k BY <1>1
    <3>2. h[k + 1] = AppendToken(h[k], s, text[k + 1]) BY <1>7, <3>1
    <3>3. h[k] \in Accs BY <2>2
    <3>4. AppendToken(h[k], s, text[k + 1]) \in Accs BY <1>1, <3>1, <3>3, AppendTokenIs
    <3> QED BY <3>1, <3>2, <3>4
  <2> HIDE DEF S
  <2> QED BY <1>1, <2>1, <2>2, UpTo
<1>9. DOMAIN h = 0..N BY <1>5
<1>10. h \in [0..N -> Accs] BY <1>5, <1>8, <1>9
<1>11. \A t \in 0..N - 1 : h[t + 1] = AppendToken(h[t], s, text[t + 1])
  <2>1. \A t \in 0..N - 1 : t + 1 \in 1..N /\ t + 1 - 1 = t BY <1>1
  <2> HIDE DEF N
  <2> QED BY <1>7, <2>1
<1> QED BY <1>6, <1>7, <1>10, <1>11 DEF Reads

LEMMA TextType ==
    ASSUME NEW acc \in Accs, NEW s \in Streams, NEW text \in Seq(Tokens)
    PROVE  AppendText(acc, s, text) \in Accs
<1>1. PICK h : Reads(h, acc, s, text, Len(text)) BY TextTrace
<1>2. Len(text) \in 0..Len(text) OBVIOUS
<1> QED BY <1>1, <1>2 DEF Reads

LEMMA TextEmpty ==
    ASSUME NEW acc \in Accs, NEW s \in Streams
    PROVE  AppendText(acc, s, <<>>) = acc
<1>1. <<>> \in Seq(Tokens) /\ Len(<<>>) = 0 OBVIOUS
<1>2. PICK h : Reads(h, acc, s, <<>>, 0) BY <1>1, TextTrace
<1> QED BY <1>2 DEF Reads

LEMMA TextOne ==
    ASSUME NEW acc \in Accs, NEW s \in Streams, NEW token \in Tokens
    PROVE  AppendText(acc, s, <<token>>) = AppendToken(acc, s, token)
<1>1. <<token>> \in Seq(Tokens) /\ Len(<<token>>) = 1 /\ <<token>>[1] = token OBVIOUS
<1>2. PICK h : Reads(h, acc, s, <<token>>, 1) BY <1>1, TextTrace
<1>3. 0 \in 0..1 - 1 /\ 0 + 1 = 1 OBVIOUS
<1>4. h[0 + 1] = AppendToken(h[0], s, <<token>>[0 + 1]) BY <1>2, <1>3 DEF Reads
<1> QED BY <1>1, <1>2, <1>3, <1>4 DEF Reads

(* What the buffers hold does not depend on where a text is cut in two.    *)
LEMMA TextConcat ==
    ASSUME NEW acc \in Accs, NEW s \in Streams, NEW u \in Seq(Tokens), NEW v \in Seq(Tokens)
    PROVE  AppendText(acc, s, u \o v) = AppendText(AppendText(acc, s, u), s, v)
<1> DEFINE w == u \o v
           m == Len(u)
           n == Len(v)
           mid == AppendText(acc, s, u)
<1>1. m \in Nat /\ n \in Nat OBVIOUS
<1>2. /\ w \in Seq(Tokens) /\ Len(w) = m + n
      /\ \A t \in 1..m : w[t] = u[t]
      /\ \A t \in 1..n : w[m + t] = v[t]
  OBVIOUS
<1>3. mid \in Accs BY TextType
<1>k. PICK k \in Nat : k = m + n BY <1>1
<1>4. PICK f : Reads(f, acc, s, w, k)
  <2> HIDE DEF w
  <2> QED BY <1>2, <1>k, TextTrace
<1>5. PICK g : Reads(g, acc, s, u, m) BY TextTrace
<1>6. PICK h : Reads(h, mid, s, v, n) BY <1>3, TextTrace
<1> HIDE DEF w, m, n, mid
<1> DEFINE S == {t \in 0..m : f[t] = g[t]}
           R == {t \in 0..n : f[m + t] = h[t]}
<1>7. \A t \in 0..m : t \in S
  <2>1. 0 \in S BY <1>1, <1>4, <1>5 DEF Reads
  <2>2. ASSUME NEW t \in 0..m - 1, t \in S PROVE t + 1 \in S
    <3>1. t + 1 \in 1..m /\ t \in 0..k - 1 /\ t + 1 \in 0..m BY <1>1, <1>k
    <3>2. f[t + 1] = AppendToken(f[t], s, w[t + 1]) BY <1>4, <3>1 DEF Reads
    <3>3. g[t + 1] = AppendToken(g[t], s, u[t + 1]) BY <1>5 DEF Reads
    <3> QED BY <1>2, <2>2, <3>1, <3>2, <3>3
  <2> HIDE DEF S
  <2> QED BY <1>1, <2>1, <2>2, UpTo
<1>8. f[m] = mid
  <2>1. m \in 0..m BY <1>1
  <2> QED BY <1>5, <1>7, <2>1 DEF Reads, mid
<1>9. \A t \in 0..n : t \in R
  <2>1. 0 \in R BY <1>1, <1>6, <1>8 DEF Reads
  <2>2. ASSUME NEW t \in 0..n - 1, t \in R PROVE t + 1 \in R
    <3>1. t + 1 \in 1..n /\ m + t \in 0..k - 1 /\ m + (t + 1) = m + t + 1 /\ t + 1 \in 0..n
      BY <1>1, <1>k
    <3>2. f[m + t + 1] = AppendToken(f[m + t], s, w[m + t + 1]) BY <1>4, <3>1 DEF Reads
    <3>3. h[t + 1] = AppendToken(h[t], s, v[t + 1]) BY <1>6 DEF Reads
    <3>4. w[m + (t + 1)] = v[t + 1] BY <1>2, <3>1
    <3> QED BY <2>2, <3>1, <3>2, <3>3, <3>4
  <2> HIDE DEF R
  <2> QED BY <1>1, <2>1, <2>2, UpTo
<1>10. n \in 0..n BY <1>1
<1> QED BY <1>k, <1>4, <1>6, <1>9, <1>10 DEF w, mid, Reads

-----------------------------------------------------------------------------
(* Ranks. *)

Below(S, R, x) == {y \in S : <<y, x>> \in R}

Orders2(S, R) ==
    /\ \A x \in S : <<x, x>> \notin R
    /\ \A x, y, z \in S : <<x, y>> \in R /\ <<y, z>> \in R => <<x, z>> \in R
    /\ \A x, y \in S : x # y => <<x, y>> \in R \/ <<y, x>> \in R

(* q lists S in the order R. *)
Enumerates(q, S, R) ==
    /\ q \in [1..Cardinality(S) -> S]
    /\ \A i, j \in 1..Cardinality(S) : i < j => <<q[i], q[j]>> \in R
    /\ \A x \in S : \E k \in 1..Cardinality(S) : q[k] = x

LEMMA RankGrows ==
    ASSUME NEW S, IsFiniteSet(S), NEW R, Orders2(S, R), NEW x \in S, NEW y \in S, <<x, y>> \in R
    PROVE  Cardinality(Below(S, R, x)) < Cardinality(Below(S, R, y))
<1> DEFINE B == Below(S, R, x)
           C == Below(S, R, y)
<1>1. B \subseteq C /\ x \in C /\ x \notin B /\ C \subseteq S BY DEF Below, Orders2
<1>2. IsFiniteSet(C) BY <1>1, FS_Subset
<1> HIDE DEF B, C
<1>3. Cardinality(B) <= Cardinality(C) /\ Cardinality(B) # Cardinality(C) BY <1>1, <1>2, FS_Subset
<1>4. Cardinality(B) \in Nat /\ Cardinality(C) \in Nat BY <1>1, <1>2, FS_Subset, FS_CardinalityType
<1>5. Cardinality(B) < Cardinality(C) BY <1>3, <1>4
<1> QED BY <1>5 DEF B, C

LEMMA RankType ==
    ASSUME NEW S, IsFiniteSet(S), NEW R, Orders2(S, R), NEW x \in S
    PROVE  Cardinality(Below(S, R, x)) \in 0..Cardinality(S) - 1
<1> DEFINE B == Below(S, R, x)
<1>1. B \in SUBSET S /\ x \notin B BY DEF Below, Orders2
<1> HIDE DEF B
<1>2. IsFiniteSet(B) /\ Cardinality(B) <= Cardinality(S) /\ Cardinality(B) # Cardinality(S)
  BY <1>1, FS_Subset
<1>3. Cardinality(B) \in Nat /\ Cardinality(S) \in Nat BY <1>2, FS_CardinalityType
<1>4. Cardinality(B) \in 0..Cardinality(S) - 1 BY <1>2, <1>3
<1> QED BY <1>4 DEF B

(* Every rank is somebody's. *)
LEMMA RankIsTaken ==
    ASSUME NEW S, IsFiniteSet(S), NEW R, Orders2(S, R), NEW k \in 1..Cardinality(S)
    PROVE  \E x \in S : Cardinality(Below(S, R, x)) = k - 1
<1> DEFINE n == Cardinality(S)
           f == [x \in S |-> Cardinality(Below(S, R, x))]
<1>1. n \in Nat BY FS_CardinalityType
<1>2. f \in [S -> 0..n - 1] BY RankType
<1>3. ASSUME NEW x \in S, NEW y \in S, f[x] = f[y] PROVE x = y
  <2> SUFFICES ASSUME x # y PROVE FALSE OBVIOUS
  <2>1. f[x] < f[y] \/ f[y] < f[x] BY RankGrows DEF Orders2
  <2>2. f[x] \in Int /\ f[y] \in Int BY <1>1, <1>2
  <2> HIDE DEF f
  <2> QED BY <1>3, <2>1, <2>2
<1>4. f \in Injection(S, 0..n - 1)
  <2>1. DOMAIN f = S OBVIOUS
  <2> HIDE DEF f
  <2> QED BY <1>2, <1>3, <2>1 DEF Injection, IsInjective
<1>5. IsFiniteSet(0..n - 1) /\ Cardinality(0..n - 1) = n
  <2> HIDE DEF n
  <2>1. 0 \in Int /\ n - 1 \in Int BY <1>1
  <2>2. Cardinality(0..n - 1) = IF 0 > n - 1 THEN 0 ELSE (n - 1) - 0 + 1 BY <2>1, FS_Interval
  <2>3. IsFiniteSet(0..n - 1) BY <2>1, FS_Interval
  <2> QED BY <1>1, <2>2, <2>3
<1>6. f \in Surjection(S, 0..n - 1)
  <2>1. Cardinality(S) = Cardinality(0..n - 1) BY <1>5
  <2> HIDE DEF f, n
  <2> QED BY <1>4, <1>5, <2>1, FS_Injection
<1>7. k - 1 \in 0..n - 1 BY <1>1
<1>8. \E x \in S : f[x] = k - 1
  <2> HIDE DEF f, n
  <2> QED BY <1>6, <1>7 DEF Surjection
<1> QED BY <1>8

LEMMA RankedEnumerates ==
    ASSUME NEW S, IsFiniteSet(S), NEW R, Orders2(S, R),
           NEW q \in [1..Cardinality(S) -> S],
           \A k \in 1..Cardinality(S) : Cardinality(Below(S, R, q[k])) = k - 1
    PROVE  Enumerates(q, S, R)
<1> PICK n \in Nat : n = Cardinality(S) BY FS_CardinalityType
<1>1. ASSUME NEW i \in 1..n, NEW j \in 1..n, i < j PROVE <<q[i], q[j]>> \in R
  <2>1. q[i] \in S /\ q[j] \in S OBVIOUS
  <2>2. Cardinality(Below(S, R, q[i])) = i - 1 /\ Cardinality(Below(S, R, q[j])) = j - 1 OBVIOUS
  <2>3. q[i] # q[j] BY <1>1, <2>2
  <2>4. <<q[j], q[i]>> \in R => j - 1 < i - 1 BY <2>1, <2>2, RankGrows
  <2>5. <<q[j], q[i]>> \notin R BY <1>1, <2>4
  <2> QED BY <2>1, <2>3, <2>5 DEF Orders2
<1>2. ASSUME NEW x \in S PROVE \E k \in 1..n : q[k] = x
  <2>1. PICK r \in 0..n - 1 : r = Cardinality(Below(S, R, x)) BY RankType
  <2>2. r + 1 \in 1..n /\ r + 1 - 1 = r OBVIOUS
  <2>3. Cardinality(Below(S, R, q[r + 1])) = r /\ q[r + 1] \in S BY <2>2
  <2>4. q[r + 1] = x
    <3> SUFFICES ASSUME q[r + 1] # x PROVE FALSE OBVIOUS
    <3>1. r < r BY <2>1, <2>3, RankGrows DEF Orders2
    <3> QED BY <3>1
  <2> QED BY <2>2, <2>4
<1> QED BY <1>1, <1>2 DEF Enumerates

(* The places of a set, in their order. *)
Rises(q, S) ==
    /\ q \in [1..Cardinality(S) -> S]
    /\ \A i, j \in 1..Cardinality(S) : i < j => q[i] < q[j]
    /\ \A k \in 1..Cardinality(S) : Cardinality({y \in S : y < q[k]}) = k - 1
    /\ \A x \in S : \E k \in 1..Cardinality(S) : q[k] = x

LEMMA AscendingRises ==
    ASSUME NEW S \in SUBSET Nat, IsFiniteSet(S)
    PROVE  Rises(Ascending(S), S)
<1> DEFINE R == {p \in Nat \X Nat : p[1] < p[2]}
           q == Ascending(S)
<1> PICK n \in Nat : n = Cardinality(S) BY FS_CardinalityType
<1>1. Orders2(S, R) BY DEF Orders2
<1>2. \A x \in S : Below(S, R, x) = {y \in S : y < x} BY DEF Below
<1>3. q = [k \in 1..n |-> CHOOSE x \in S : Cardinality({y \in S : y < x}) = k - 1]
  BY DEF Ascending, Ranked
<1>4. ASSUME NEW k \in 1..n
      PROVE  q[k] \in S /\ Cardinality({y \in S : y < q[k]}) = k - 1 /\ Cardinality(Below(S, R, q[k])) = k - 1
  <2>1. \E x \in S : Cardinality(Below(S, R, x)) = k - 1
    <3> HIDE DEF R
    <3> QED BY <1>1, RankIsTaken
  <2>2. \E x \in S : Cardinality({y \in S : y < x}) = k - 1
    <3> HIDE DEF R
    <3> QED BY <2>1, <1>2
  <2>3. q[k] = CHOOSE x \in S : Cardinality({y \in S : y < x}) = k - 1 BY <1>3
  <2>4. q[k] \in S /\ Cardinality({y \in S : y < q[k]}) = k - 1
    <3> HIDE DEF q, R
    <3> QED BY <2>2, <2>3
  <2> HIDE DEF q, R
  <2> QED BY <1>2, <2>4
<1>5. q \in [1..n -> S]
  <2>1. \A k \in 1..n : q[k] \in S BY <1>4
  <2> HIDE DEF q
  <2> QED BY <1>3, <2>1
<1>6. Enumerates(q, S, R)
  <2> HIDE DEF q, R
  <2> QED BY <1>1, <1>4, <1>5, RankedEnumerates
<1> HIDE DEF q
<1>7. ASSUME NEW i \in 1..n, NEW j \in 1..n, i < j PROVE q[i] < q[j]
  <2>1. <<q[i], q[j]>> \in R
    <3> HIDE DEF R
    <3> QED BY <1>6, <1>7 DEF Enumerates
  <2> QED BY <2>1
<1>8. \A x \in S : \E k \in 1..n : q[k] = x
  <2> HIDE DEF R
  <2> QED BY <1>6 DEF Enumerates
<1>9. Rises(q, S) BY <1>4, <1>5, <1>7, <1>8 DEF Rises
<1> QED BY <1>9 DEF q

LEMMA AscendingInterval ==
    ASSUME NEW a \in Nat, NEW b \in Nat, a <= b
    PROVE  /\ Cardinality(a + 1..b) = b - a
           /\ \A k \in 1..b - a : Ascending(a + 1..b)[k] = a + k
<1> DEFINE S == a + 1..b
           q == Ascending(S)
<1>1. IsFiniteSet(S) /\ Cardinality(S) = b - a
  <2>1. a + 1 \in Int /\ b \in Int OBVIOUS
  <2>2. IsFiniteSet(S) /\ Cardinality(S) = IF a + 1 > b THEN 0 ELSE b - (a + 1) + 1 BY <2>1, FS_Interval
  <2> QED BY <2>2
<1>2. Rises(q, S)
  <2>1. S \in SUBSET Nat OBVIOUS
  <2> HIDE DEF S
  <2> QED BY <1>1, <2>1, AscendingRises
<1> HIDE DEF q
<1>3. ASSUME NEW k \in 1..b - a PROVE q[k] = a + k
  <2>1. q[k] \in S /\ Cardinality({y \in S : y < q[k]}) = k - 1
    <3> HIDE DEF S
    <3> QED BY <1>1, <1>2 DEF Rises
  <2> PICK v \in S : v = q[k] BY <2>1
  <2>2. {y \in S : y < v} = a + 1..v - 1 BY <2>1
  <2>3. a + 1 \in Int /\ v - 1 \in Int OBVIOUS
  <2>4. Cardinality(a + 1..v - 1) = IF a + 1 > v - 1 THEN 0 ELSE (v - 1) - (a + 1) + 1
    BY <2>3, FS_Interval
  <2>5. k - 1 = IF a + 1 > v - 1 THEN 0 ELSE (v - 1) - (a + 1) + 1 BY <2>1, <2>2, <2>4
  <2>6. v = a + k BY <2>5
  <2> QED BY <2>6
<1> QED BY <1>1, <1>3 DEF q

-----------------------------------------------------------------------------
(* What the engine sends: the end of the log. *)

LEMMA LogIs ==
    ASSUME NEW log \in Logs
    PROVE  /\ log \in Seq(Lines) /\ Len(log) \in Nat /\ log \in [1..Len(log) -> Lines]
           /\ \A i, j \in 1..Len(log) : i < j => log[i].time <= log[j].time
           /\ \A i \in 1..Len(log) : log[i].time \in Nat /\ log[i].stream \in Streams
<1>1. PICK m \in 0..MaxLines : log \in [1..m -> Lines] BY DEF Logs, BoundedSeq, SeqOf
<1>2. m \in Nat BY LogAssumption
<1>3. log \in Seq(Lines) /\ Len(log) = m BY <1>1, <1>2
<1>4. \A i, j \in 1..m : i < j => log[i].time <= log[j].time BY <1>1 DEF Logs
<1>5. \A i \in 1..m : log[i].time \in Nat /\ log[i].stream \in Streams
  <2>1. MaxTime \in Nat BY LogAssumption
  <2> QED BY <1>1, <2>1 DEF Lines
<1> QED BY <1>1, <1>2, <1>3, <1>4, <1>5

LEMMA ToSecondIsBefore ==
    ASSUME NEW ms \in Nat
    PROVE  ToSecond(ms) \in Nat /\ ToSecond(ms) <= ms
<1>1. Second \in Nat \ {0} BY LogAssumption
<1>2. ms = Second * (ms \div Second) + (ms % Second) /\ ms % Second \in 0..Second - 1 /\ ms \div Second \in Nat
  BY <1>1
<1> QED BY <1>1, <1>2 DEF ToSecond

(* t is what s, of length n, has beyond the first places. *)
EndOf(t, s, n, off) == off \in 0..n /\ t = [i \in 1..n - off |-> s[off + i]]

LEMMA EndIs ==
    ASSUME NEW T, NEW n \in Nat, NEW s \in [1..n -> T], NEW t, NEW off, EndOf(t, s, n, off)
    PROVE  /\ t \in Seq(T) /\ t \in [1..Len(t) -> T]
           /\ Len(t) = n - off /\ Len(t) \in Nat /\ off \in Nat
           /\ \A i \in 1..Len(t) : off + i \in 1..n /\ t[i] = s[off + i]
<1>1. off \in 0..n BY DEF EndOf
<1> PICK m \in Nat : m = n - off BY <1>1
<1>2. \A i \in 1..m : off + i \in 1..n BY <1>1
<1>3. t = [i \in 1..m |-> s[off + i]] BY DEF EndOf
<1>4. t \in [1..m -> T] BY <1>2, <1>3
<1>5. t \in Seq(T) /\ Len(t) = m BY <1>4
<1> QED BY <1>1, <1>2, <1>3, <1>4, <1>5

LEMMA SelectedEnd ==
    ASSUME NEW log \in Logs, NEW off \in 0..Len(log)
    PROVE  EndOf(Selected(log, off + 1..Len(log)), log, Len(log), off)
<1>1. Len(log) \in Nat BY LogIs
<1> PICK n \in Nat : n = Len(log) BY <1>1
<1> DEFINE S == off + 1..n
<1>2. Cardinality(S) = n - off /\ \A k \in 1..n - off : Ascending(S)[k] = off + k
  <2>1. off \in Nat /\ off <= n OBVIOUS
  <2> QED BY <2>1, AscendingInterval
<1> HIDE DEF S
<1>3. Selected(log, S) = [k \in 1..n - off |-> log[off + k]] BY <1>2 DEF Selected
<1> QED BY <1>3 DEF EndOf, S

LEMMA LastOfIs ==
    ASSUME NEW T, NEW s, NEW n \in Nat, NEW k \in Nat, s \in [1..n -> T],
           NEW off, off = IF n > k THEN n - k ELSE 0
    PROVE  EndOf(LastOf(s, k), s, n, off)
<1>1. s \in Seq(T) /\ Len(s) = n OBVIOUS
<1> DEFINE m == IF n > k THEN n - k + 1 ELSE 1
<1>2. m = off + 1 /\ m \in 1..n + 1 /\ off \in 0..n OBVIOUS
<1>3. LastOf(s, k) = SubSeq(s, m, n) BY <1>1 DEF LastOf
<1> HIDE DEF m
<1>4. SubSeq(s, m, n) = [i \in 1..n - off |-> s[off + i]]
  BY <1>1, <1>2
<1> QED BY <1>2, <1>3, <1>4 DEF EndOf

(* What containerLogs asks for: since then and maybe a little earlier, or  *)
(* as many of the last lines as wanted, or everything.                     *)
LEMMA EngineSendsEnd ==
    ASSUME NEW log \in Logs, NEW options \in Options
    PROVE  \E off \in 0..Len(log) :
               /\ EndOf(EngineSends(log, options), log, Len(log), off)
               /\ options.since # NotGiven => \A i \in 1..off : log[i].time < options.since
               /\ options.since = NotGiven =>
                      off = IF options.tail # NotGiven /\ Len(log) > options.tail THEN Len(log) - options.tail ELSE 0
<1>1. Len(log) \in Nat /\ log \in [1..Len(log) -> Lines] BY LogIs
<1> PICK n \in Nat : n = Len(log) BY <1>1
<1>2. CASE options.since # NotGiven
  <2>1. options.since \in Nat
    <3>1. MaxTime \in Nat BY LogAssumption
    <3> QED BY <1>2, <3>1 DEF Options
  <2> PICK least \in Nat : least = ToSecond(options.since) /\ least <= options.since BY <2>1, ToSecondIsBefore
  <2> DEFINE P == {i \in 1..n : log[i].time >= least}
  <2>2. \A i \in 1..n : log[i].time \in Nat BY LogIs
  <2>3. \E off \in 0..n : P = off + 1..n
    <3>1. CASE P = {}
      <4>1. P = n + 1..n /\ n \in 0..n BY <3>1
      <4> QED BY <4>1
    <3>2. CASE P # {}
      <4>1. P \subseteq Nat OBVIOUS
      <4>2. PICK m \in P : \A i \in P : m <= i
        <5> HIDE DEF P
        <5> QED BY <3>2, <4>1, LeastNatural
      <4>3. ASSUME NEW i \in m..n PROVE i \in P
        <5>1. i \in 1..n /\ m \in 1..n BY <4>2
        <5>2. i # m => log[m].time <= log[i].time BY <5>1, LogIs
        <5> QED BY <2>2, <4>2, <5>1, <5>2
      <4>4. P = (m - 1) + 1..n
        <5>1. m - 1 + 1 = m /\ P \subseteq 1..n /\ m \in Nat BY <4>1
        <5> HIDE DEF P
        <5>2. \A i \in P : i \in m..n BY <4>2, <5>1
        <5> QED BY <4>3, <5>1, <5>2
      <4>5. m - 1 \in 0..n BY <4>2
      <4> QED BY <4>4, <4>5
    <3> QED BY <3>1, <3>2
  <2> PICK off \in 0..n : P = off + 1..n BY <2>3
  <2>4. EngineSends(log, options) = Selected(log, P) BY <1>1, <1>2 DEF EngineSends
  <2>5. EndOf(Selected(log, P), log, n, off)
    <3> HIDE DEF P
    <3> QED BY SelectedEnd
  <2>6. ASSUME NEW i \in 1..off PROVE log[i].time < options.since
    <3>1. i \notin P /\ i \in 1..n OBVIOUS
    <3> QED BY <2>1, <2>2, <3>1
  <2> HIDE DEF P
  <2> QED BY <1>2, <2>4, <2>5, <2>6
<1>3. CASE options.since = NotGiven /\ options.tail = NotGiven
  <2>1. EngineSends(log, options) = log BY <1>3 DEF EngineSends
  <2>2. 0 \in 0..n /\ n - 0 = n /\ \A i \in 1..n : 0 + i = i OBVIOUS
  <2>3. EndOf(log, log, n, 0) BY <1>1, <2>2 DEF EndOf
  <2> QED BY <1>3, <2>1, <2>2, <2>3
<1>4. CASE options.since = NotGiven /\ options.tail # NotGiven
  <2>1. options.tail \in Nat
    <3>1. MaxTail \in Nat BY LogAssumption
    <3> QED BY <1>4, <3>1 DEF Options
  <2> PICK k \in Nat : k = options.tail BY <2>1
  <2>2. EngineSends(log, options) = LastOf(log, k) BY <1>4 DEF EngineSends
  <2> PICK off \in 0..n : off = IF n > k THEN n - k ELSE 0 OBVIOUS
  <2>3. EndOf(LastOf(log, k), log, n, off) BY <1>1, LastOfIs
  <2> QED BY <1>4, <2>2, <2>3
<1> QED BY <1>2, <1>3, <1>4

-----------------------------------------------------------------------------
(* What is made of the entries: a sort by time, since, and tail. *)

TimesOf(sent, entries) == [i \in DOMAIN entries |-> TimeOf(sent, entries[i])]

ByTime(time) == {p \in Nat \X Nat : time[p[1]] < time[p[2]] \/ (time[p[1]] = time[p[2]] /\ p[1] < p[2])}

LEMMA ByTimeIs ==
    ASSUME NEW time, NEW i \in Nat, NEW j \in Nat
    PROVE  <<i, j>> \in ByTime(time) <=> (time[i] < time[j] \/ (time[i] = time[j] /\ i < j))
BY DEF ByTime

LEMMA ByTimeOrders ==
    ASSUME NEW m \in Nat, NEW time \in [1..m -> Nat]
    PROVE  Orders2(1..m, ByTime(time))
<1> DEFINE R == ByTime(time)
<1>1. \A i, j \in 1..m : <<i, j>> \in R <=> (time[i] < time[j] \/ (time[i] = time[j] /\ i < j))
  <2>1. \A i \in 1..m : i \in Nat OBVIOUS
  <2> QED BY <2>1, ByTimeIs
<1>2. \A i \in 1..m : time[i] \in Nat OBVIOUS
<1> HIDE DEF R
<1>3. \A i \in 1..m : <<i, i>> \notin R BY <1>1, <1>2
<1>4. ASSUME NEW i \in 1..m, NEW j \in 1..m, NEW k \in 1..m, <<i, j>> \in R, <<j, k>> \in R
      PROVE  <<i, k>> \in R
  <2>1. time[i] < time[j] \/ (time[i] = time[j] /\ i < j) BY <1>1, <1>4
  <2>2. time[j] < time[k] \/ (time[j] = time[k] /\ j < k) BY <1>1, <1>4
  <2>3. time[i] < time[k] \/ (time[i] = time[k] /\ i < k) BY <1>2, <2>1, <2>2
  <2> QED BY <1>1, <2>3
<1>5. ASSUME NEW i \in 1..m, NEW j \in 1..m, i # j PROVE <<i, j>> \in R \/ <<j, i>> \in R
  <2>1. \/ time[i] < time[j] \/ (time[i] = time[j] /\ i < j)
        \/ time[j] < time[i] \/ (time[j] = time[i] /\ j < i)
    BY <1>2, <1>5
  <2> QED BY <1>1, <2>1
<1>6. Orders2(1..m, R) BY <1>3, <1>4, <1>5 DEF Orders2
<1> QED BY <1>6 DEF R

(* q is the order in which SortByTime puts the m entries. *)
Sorts(q, sent, entries, m, time) ==
    /\ Enumerates(q, 1..m, ByTime(time))
    /\ SortByTime(sent, entries) = [i \in 1..m |-> entries[q[i]]]

(* m entries and their times. *)
Timed(sent, entries, m, time) ==
    m \in Nat /\ DOMAIN entries = 1..m /\ time \in [1..m -> Nat] /\ time = TimesOf(sent, entries)

LEMMA SortedIs ==
    ASSUME NEW sent, NEW entries, NEW m, NEW time, Timed(sent, entries, m, time)
    PROVE  \E q : Sorts(q, sent, entries, m, time)
<1> SUFFICES \E q : /\ Enumerates(q, 1..m, ByTime(time))
                    /\ SortByTime(sent, entries) = [i \in 1..m |-> entries[q[i]]]
  BY DEF Sorts
<1>t. m \in Nat /\ DOMAIN entries = 1..m /\ time \in [1..m -> Nat] /\ time = TimesOf(sent, entries)
  BY DEF Timed
<1> USE <1>t
<1> DEFINE R == ByTime(time)
           before(i, j) == \/ TimeOf(sent, entries[i]) < TimeOf(sent, entries[j])
                           \/ TimeOf(sent, entries[i]) = TimeOf(sent, entries[j]) /\ i < j
           q == Ranked(1..m, before)
<1>1. Cardinality(1..m) = m /\ IsFiniteSet(1..m)
  <2>1. 1 \in Int /\ m \in Int OBVIOUS
  <2>2. IsFiniteSet(1..m) /\ Cardinality(1..m) = IF 1 > m THEN 0 ELSE m - 1 + 1 BY <2>1, FS_Interval
  <2> QED BY <2>2
<1>2. SortByTime(sent, entries) = [i \in 1..m |-> entries[q[i]]]
  BY DEF SortByTime
<1>3. \A x \in 1..m : Below(1..m, R, x) = {y \in 1..m : before(y, x)}
  <2>1. \A i \in 1..m : i \in Nat /\ time[i] = TimeOf(sent, entries[i]) BY DEF TimesOf
  <2>2. \A x, y \in 1..m : <<y, x>> \in R <=> before(y, x) BY <2>1, ByTimeIs
  <2> HIDE DEF R, before
  <2> QED BY <2>2 DEF Below
<1>4. Orders2(1..m, R) BY ByTimeOrders
<1>5. q = [k \in 1..m |-> CHOOSE x \in 1..m : Cardinality({y \in 1..m : before(y, x)}) = k - 1]
  BY <1>1 DEF Ranked
<1>6. ASSUME NEW k \in 1..m PROVE q[k] \in 1..m /\ Cardinality(Below(1..m, R, q[k])) = k - 1
  <2>1. \E x \in 1..m : Cardinality(Below(1..m, R, x)) = k - 1
    <3>1. k \in 1..Cardinality(1..m) BY <1>1
    <3> HIDE DEF R
    <3> QED BY <1>1, <1>4, <3>1, RankIsTaken
  <2>2. \E x \in 1..m : Cardinality({y \in 1..m : before(y, x)}) = k - 1
    <3> HIDE DEF R, before
    <3> QED BY <2>1, <1>3
  <2>3. q[k] = CHOOSE x \in 1..m : Cardinality({y \in 1..m : before(y, x)}) = k - 1 BY <1>5
  <2>4. q[k] \in 1..m /\ Cardinality({y \in 1..m : before(y, q[k])}) = k - 1
    <3> HIDE DEF q, R, before
    <3> QED BY <2>2, <2>3
  <2> HIDE DEF q, R, before
  <2> QED BY <1>3, <2>4
<1>7. q \in [1..m -> 1..m]
  <2>1. \A k \in 1..m : q[k] \in 1..m BY <1>6
  <2> HIDE DEF q
  <2> QED BY <1>5, <2>1
<1>8. Enumerates(q, 1..m, R)
  <2> HIDE DEF q, R
  <2> QED BY <1>1, <1>4, <1>6, <1>7, RankedEnumerates
<1> HIDE DEF q, R
<1>9. \E r : Enumerates(r, 1..m, R) /\ SortByTime(sent, entries) = [i \in 1..m |-> entries[r[i]]]
  BY <1>2, <1>8
<1> QED BY <1>9 DEF R

(* out is made of the entries at the given places, picks: oldest first, of *)
(* those the caller wants the last ones, as many as he wants.              *)
Wants(options, time, m) == {i \in 1..m : options.since = NotGiven \/ time[i] >= options.since}

Picks(picks, z, out, entries, m, time, options) ==
    /\ picks \in [1..z -> Wants(options, time, m)]
    /\ out = [i \in 1..z |-> entries[picks[i]]]
    /\ \A i, j \in 1..z : i < j => <<picks[i], picks[j]>> \in ByTime(time)
    /\ \A e \in Wants(options, time, m) : (\A i \in 1..z : picks[i] # e) =>
           \A i \in 1..z : <<e, picks[i]>> \in ByTime(time)

HowMany(options, n) == IF options.tail # NotGiven /\ options.tail < n THEN options.tail ELSE n

(* filter keeps the order and tail the end. *)
(* out is z of the m entries, those that were picked. *)
Chosen(out, z, picks, entries, m, time, options) ==
    z \in Nat /\ z = HowMany(options, Cardinality(Wants(options, time, m))) /\ Picks(picks, z, out, entries, m, time, options)

LEMMA FilteredIs ==
    ASSUME NEW options \in Options, NEW sent, NEW entries, NEW m, NEW time, Timed(sent, entries, m, time),
           NEW q, Sorts(q, sent, entries, m, time), NEW out,
           out = FilterLogs(sent, SortByTime(sent, entries), options)
    PROVE  \E z, picks : Chosen(out, z, picks, entries, m, time, options)
<1>t. m \in Nat /\ DOMAIN entries = 1..m /\ time \in [1..m -> Nat] /\ time = TimesOf(sent, entries)
      /\ Enumerates(q, 1..m, ByTime(time))
  BY DEF Timed, Sorts
<1>o. out = FilterLogs(sent, [i \in 1..m |-> entries[q[i]]], options) BY DEF Sorts
<1> SUFFICES \E z \in Nat :
               /\ z = HowMany(options, Cardinality(Wants(options, time, m)))
               /\ \E picks : Picks(picks, z, FilterLogs(sent, [i \in 1..m |-> entries[q[i]]], options),
                                   entries, m, time, options)
  BY <1>o DEF Chosen
<1> USE <1>t
<1> DEFINE sorted == [i \in 1..m |-> entries[q[i]]]
           W == Wants(options, time, m)
           P == {i \in 1..m : q[i] \in W}
           R == ByTime(time)
<1>1. Cardinality(1..m) = m /\ IsFiniteSet(1..m)
  <2>1. 1 \in Int /\ m \in Int OBVIOUS
  <2>2. IsFiniteSet(1..m) /\ Cardinality(1..m) = IF 1 > m THEN 0 ELSE m - 1 + 1 BY <2>1, FS_Interval
  <2> QED BY <2>2
<1>2. /\ q \in [1..m -> 1..m]
      /\ \A i, j \in 1..m : i < j => <<q[i], q[j]>> \in R
      /\ \A x \in 1..m : \E k \in 1..m : q[k] = x
  <2> HIDE DEF R
  <2>1. Enumerates(q, 1..m, R) BY DEF R
  <2>2. /\ q \in [1..Cardinality(1..m) -> 1..m]
        /\ \A i, j \in 1..Cardinality(1..m) : i < j => <<q[i], q[j]>> \in R
        /\ \A x \in 1..m : \E k \in 1..Cardinality(1..m) : q[k] = x
    BY <2>1, Zenon DEF Enumerates
  <2> QED BY <1>1, <2>2
<1>3. Orders2(1..m, R) BY ByTimeOrders
<1>4. P \in SUBSET Nat /\ P \in SUBSET (1..m) /\ W \in SUBSET (1..m) BY DEF Wants
<1>5. IsFiniteSet(P) /\ IsFiniteSet(W) BY <1>1, <1>4, FS_Subset
<1> PICK p \in Nat : p = Cardinality(P) BY <1>5, FS_CardinalityType
<1>6. P = {i \in 1..m : options.since = NotGiven \/ TimeOf(sent, sorted[i]) >= options.since}
  <2>1. \A i \in 1..m : q[i] \in 1..m /\ sorted[i] = entries[q[i]] /\ time[q[i]] = TimeOf(sent, entries[q[i]])
    BY <1>2 DEF TimesOf
  <2> HIDE DEF sorted
  <2> QED BY <2>1 DEF Wants
<1>7. Cardinality(W) = p
  <2> DEFINE f == [i \in P |-> q[i]]
  <2>1. f \in [P -> W] OBVIOUS
  <2>2. ASSUME NEW i \in P, NEW j \in P, f[i] = f[j] PROVE i = j
    <3>1. i \in 1..m /\ j \in 1..m /\ q[i] = q[j] /\ q[i] \in 1..m BY <1>2, <2>2
    <3>2. ~(i < j) /\ ~(j < i)
      <4> HIDE DEF R, P
      <4> QED BY <1>2, <1>3, <3>1 DEF Orders2
    <3> QED BY <3>1, <3>2
  <2>3. \A w \in W : \E i \in P : f[i] = w
    <3>1. ASSUME NEW w \in W PROVE \E i \in P : f[i] = w
      <4>1. PICK k \in 1..m : q[k] = w BY <1>2, <1>4
      <4> QED BY <4>1
    <3> QED BY <3>1
  <2>4. DOMAIN f = P OBVIOUS
  <2> HIDE DEF f, P, W
  <2>5. f \in Bijection(P, W) BY <2>1, <2>2, <2>3, <2>4 DEF Bijection, Injection, Surjection, IsInjective
  <2>6. ExistsBijection(P, W) BY <2>5 DEF ExistsBijection
  <2> QED BY <1>5, <2>6, FS_Bijection
<1> DEFINE a == Ascending(P)
           recent == Selected(sorted, P)
<1>8. Rises(a, P)
  <2> HIDE DEF P
  <2> QED BY <1>4, <1>5, AscendingRises
<1>9. recent = [k \in 1..p |-> sorted[a[k]]] BY DEF Selected
<1>10. FilterLogs(sent, sorted, options) = IF options.tail = NotGiven THEN recent ELSE LastOf(recent, options.tail)
  <2>1. DOMAIN sorted = 1..m OBVIOUS
  <2> HIDE DEF P, sorted
  <2> QED BY <1>6, <2>1 DEF FilterLogs
<1> HIDE DEF a, recent
<1> DEFINE r == [k \in 1..p |-> q[a[k]]]
<1>11. /\ a \in [1..p -> P]
       /\ \A i, j \in 1..p : i < j => a[i] < a[j]
       /\ \A x \in P : \E k \in 1..p : a[k] = x
  <2> HIDE DEF P
  <2> QED BY <1>8 DEF Rises
<1>12. r \in [1..p -> W] BY <1>11
<1>13. recent = [k \in 1..p |-> entries[r[k]]]
  <2>1. \A k \in 1..p : a[k] \in 1..m BY <1>4, <1>11
  <2>2. \A k \in 1..p : sorted[a[k]] = entries[r[k]] BY <2>1
  <2> HIDE DEF sorted, r, P, W
  <2> QED BY <1>9, <2>2
<1>14. \A i, j \in 1..p : i < j => <<r[i], r[j]>> \in R
  <2>1. \A i \in 1..p : a[i] \in 1..m BY <1>4, <1>11
  <2> HIDE DEF P, W, R
  <2> QED BY <1>2, <1>11, <2>1
<1>15. \A w \in W : \E k \in 1..p : r[k] = w
  <2>1. ASSUME NEW w \in W PROVE \E k \in 1..p : r[k] = w
    <3>1. PICK i \in 1..m : q[i] = w BY <1>2, <1>4
    <3>2. i \in P BY <3>1
    <3>3. PICK k \in 1..p : a[k] = i
      <4> HIDE DEF P, W
      <4> QED BY <1>11, <3>2
    <3> QED BY <3>1, <3>3
  <2> QED BY <2>1
<1>16. \E off \in 0..p : EndOf(FilterLogs(sent, sorted, options), recent, p, off) /\ p - off = HowMany(options, p)
  <2>1. CASE options.tail = NotGiven
    <3>1. 0 \in 0..p /\ p - 0 = p /\ \A k \in 1..p : 0 + k = k OBVIOUS
    <3>2. recent = [k \in 1..p |-> recent[0 + k]] BY <1>13, <3>1
    <3> HIDE DEF sorted, r, P, W
    <3>3. EndOf(recent, recent, p, 0) BY <3>1, <3>2 DEF EndOf
    <3> QED BY <1>10, <2>1, <3>1, <3>3 DEF HowMany
  <2>2. CASE options.tail # NotGiven
    <3>1. options.tail \in Nat
      <4>1. MaxTail \in Nat BY LogAssumption
      <4> QED BY <2>2, <4>1 DEF Options
    <3> DEFINE T == {recent[i] : i \in 1..p}
    <3>2. recent \in [1..p -> T] BY <1>13
    <3> HIDE DEF sorted, r, P, W, T, R
    <3> PICK k \in Nat : k = options.tail BY <3>1
    <3> PICK off \in 0..p : off = IF p > k THEN p - k ELSE 0 OBVIOUS
    <3>3. EndOf(LastOf(recent, k), recent, p, off) BY <3>2, LastOfIs
    <3>4. p - off = HowMany(options, p) BY <2>2 DEF HowMany
    <3> QED BY <1>10, <2>2, <3>3, <3>4
  <2> QED BY <2>1, <2>2
<1> PICK off \in 0..p : EndOf(FilterLogs(sent, sorted, options), recent, p, off) /\ p - off = HowMany(options, p)
  BY <1>16
<1> HIDE DEF sorted, r, P, W, R
<1>z. p - off \in Nat OBVIOUS
<1> PICK z \in Nat : z = p - off BY <1>z
<1> DEFINE picks == [i \in 1..z |-> r[off + i]]
<1>17. \A i \in 1..z : off + i \in 1..p OBVIOUS
<1>18. picks \in [1..z -> W] BY <1>12, <1>17
<1>19. FilterLogs(sent, sorted, options) = [i \in 1..z |-> entries[picks[i]]] BY <1>13, <1>17 DEF EndOf
<1>20. \A i, j \in 1..z : i < j => <<picks[i], picks[j]>> \in R
  <2>1. \A i, j \in 1..z : i < j => off + i < off + j OBVIOUS
  <2> QED BY <1>14, <1>17, <2>1
<1>21. ASSUME NEW e \in W, \A i \in 1..z : picks[i] # e, NEW i \in 1..z PROVE <<e, picks[i]>> \in R
  <2>1. PICK k \in 1..p : r[k] = e BY <1>15
  <2>2. k <= off
    <3> SUFFICES ASSUME k > off PROVE FALSE OBVIOUS
    <3>1. k - off \in 1..z /\ off + (k - off) = k OBVIOUS
    <3>2. picks[k - off] = e BY <2>1, <3>1
    <3> QED BY <1>21, <3>1, <3>2
  <2>3. k < off + i BY <2>2
  <2> QED BY <1>14, <1>17, <2>1, <2>3
<1> HIDE DEF picks
<1>22. Picks(picks, z, FilterLogs(sent, sorted, options), entries, m, time, options)
  BY <1>18, <1>19, <1>20, <1>21 DEF Picks, W, R
<1>23. z = HowMany(options, Cardinality(W)) BY <1>7
<1> QED BY <1>22, <1>23 DEF sorted, W

-----------------------------------------------------------------------------
(* What the decoder owes: lines, or beginnings of lines, of the streams    *)
(* they were sent on, none twice and those of a stream in their order; and *)
(* if nothing was cut off, all of them, whole.                             *)
HeadOf(l) == <<<<l, "head">>>>
Whole(l) == <<<<l, "head">>, <<l, "rest">>>>
LineIn(entry) == entry.text[1][1]

Delivers(entries, m, streams, n, cut) ==
    /\ m \in Nat /\ entries \in [1..m -> Entries]
    /\ \A i \in 1..m :
           /\ LineIn(entries[i]) \in 1..n
           /\ entries[i].text \in {HeadOf(LineIn(entries[i])), Whole(LineIn(entries[i]))}
           /\ entries[i].stream = streams[LineIn(entries[i])]
    /\ \A i, j \in 1..m : i < j =>
           /\ LineIn(entries[i]) # LineIn(entries[j])
           /\ entries[i].stream = entries[j].stream => LineIn(entries[i]) < LineIn(entries[j])
    /\ ~cut => /\ \A i \in 1..m : entries[i].text = Whole(LineIn(entries[i]))
               /\ \A l \in 1..n : \E i \in 1..m : LineIn(entries[i]) = l

LEMMA TextIs ==
    ASSUME NEW l, NEW text \in {HeadOf(l), Whole(l)}
    PROVE  /\ text[1] = <<l, "head">>
           /\ \A t \in DOMAIN text : text[t] = <<l, <<"head", "rest">>[t]>>
           /\ text = Whole(l) => Len(text) = 2
<1>1. CASE text = HeadOf(l)
  <2>1. DOMAIN text = 1..1 /\ text[1] = <<l, "head">> /\ <<"head", "rest">>[1] = "head" BY <1>1 DEF HeadOf
  <2>2. \A t \in 1..1 : t = 1 OBVIOUS
  <2>3. Len(Whole(l)) = 2 BY DEF Whole
  <2> QED BY <2>1, <2>2, <2>3
<1>2. CASE text = Whole(l)
  <2>1. /\ DOMAIN text = 1..2 /\ text[1] = <<l, "head">> /\ text[2] = <<l, "rest">> /\ Len(text) = 2
        /\ <<"head", "rest">>[1] = "head" /\ <<"head", "rest">>[2] = "rest"
    BY <1>2 DEF Whole
  <2>2. \A t \in 1..2 : t = 1 \/ t = 2 OBVIOUS
  <2> QED BY <2>1, <2>2
<1> QED BY <1>1, <1>2

(* Line l of what was sent is line off + l of the log. *)
Reading(log, off, sent, n, entries, m, tty, cut, time) ==
    /\ n = Len(log) - off /\ n \in Nat /\ off \in Nat
    /\ EndOf(sent, log, Len(log), off)
    /\ Delivers(entries, m, StreamsOf(sent, tty), n, cut)
    /\ time = TimesOf(sent, entries)

LEMMA ReadingTimes ==
    ASSUME NEW log \in Logs, NEW off, NEW sent, NEW n, NEW entries, NEW m, NEW tty, NEW cut, NEW time,
           Reading(log, off, sent, n, entries, m, tty, cut, time)
    PROVE  /\ time \in [1..m -> Nat]
           /\ \A i \in 1..m : /\ LineIn(entries[i]) \in 1..n
                              /\ off + LineIn(entries[i]) \in 1..Len(log)
                              /\ time[i] = log[off + LineIn(entries[i])].time
                              /\ entries[i].stream = IF tty THEN "stdout" ELSE log[off + LineIn(entries[i])].stream
<1>1. Len(log) \in Nat /\ log \in [1..Len(log) -> Lines] BY LogIs
<1>2. \A l \in 1..Len(log) : log[l].time \in Nat BY LogIs
<1>3. n \in Nat /\ off \in 0..Len(log) /\ n = Len(log) - off BY DEF Reading, EndOf
<1>4. \A l \in 1..n : off + l \in 1..Len(log) BY <1>1, <1>3
<1>5. sent = [l \in 1..n |-> log[off + l]] BY <1>3 DEF Reading, EndOf
<1>6. StreamsOf(sent, tty) = [l \in 1..n |-> IF tty THEN "stdout" ELSE log[off + l].stream]
  BY <1>5 DEF StreamsOf
<1>7. /\ m \in Nat /\ DOMAIN entries = 1..m
      /\ time = TimesOf(sent, entries)
      /\ \A i \in 1..m :
             /\ LineIn(entries[i]) \in 1..n
             /\ entries[i].text \in {HeadOf(LineIn(entries[i])), Whole(LineIn(entries[i]))}
             /\ entries[i].stream = StreamsOf(sent, tty)[LineIn(entries[i])]
  BY DEF Reading, Delivers
<1>8. ASSUME NEW i \in 1..m PROVE TimeOf(sent, entries[i]) = log[off + LineIn(entries[i])].time
  <2> PICK l \in 1..n : l = LineIn(entries[i]) BY <1>7
  <2>1. entries[i].text[1] = <<l, "head">> BY <1>7, TextIs
  <2>2. entries[i].text[1][1] = l /\ entries[i].text[1][2] = "head" BY <2>1
  <2>3. TimeOf(sent, entries[i]) = sent[l].time BY <2>2 DEF TimeOf
  <2> QED BY <1>5, <2>3
<1>9. time = [i \in 1..m |-> TimeOf(sent, entries[i])] BY <1>7 DEF TimesOf
<1>10. \A i \in 1..m : time[i] = log[off + LineIn(entries[i])].time BY <1>8, <1>9
<1>11. time \in [1..m -> Nat] BY <1>2, <1>4, <1>7, <1>9, <1>10
<1>12. \A i \in 1..m : entries[i].stream = IF tty THEN "stdout" ELSE log[off + LineIn(entries[i])].stream
  BY <1>6, <1>7
<1> QED BY <1>4, <1>7, <1>10, <1>11, <1>12

(* Where the lines of out are in the log. *)
Located(line, out, z, entries, picks, off) ==
    /\ z \in Nat /\ off \in Nat
    /\ line = [i \in 1..z |-> off + LineIn(entries[picks[i]])]
    /\ out = [i \in 1..z |-> entries[picks[i]]]

LEMMA SoundOut ==
    ASSUME NEW log \in Logs, NEW off, NEW sent, NEW n, NEW entries, NEW m, NEW tty, NEW cut, NEW time,
           Reading(log, off, sent, n, entries, m, tty, cut, time),
           NEW options \in Options, NEW picks, NEW z, NEW out, Picks(picks, z, out, entries, m, time, options),
           NEW line, Located(line, out, z, entries, picks, off)
    PROVE  Sound(log, options, out, line, tty)
<1>1. Len(log) \in Nat /\ DOMAIN log = 1..Len(log) BY LogIs
<1>2. z \in Nat /\ off \in Nat /\ m \in Nat BY DEF Located, Reading, Delivers
<1>3. \A i \in 1..z : picks[i] \in 1..m /\ (options.since # NotGiven => time[picks[i]] >= options.since)
  BY DEF Picks, Wants
<1>4. DOMAIN out = 1..z /\ \A i \in 1..z : out[i] = entries[picks[i]] /\ line[i] = off + LineIn(entries[picks[i]])
  BY DEF Located
<1>5. /\ time \in [1..m -> Nat]
      /\ \A i \in 1..m : /\ LineIn(entries[i]) \in 1..n
                         /\ off + LineIn(entries[i]) \in 1..Len(log)
                         /\ time[i] = log[off + LineIn(entries[i])].time
                         /\ entries[i].stream = IF tty THEN "stdout" ELSE log[off + LineIn(entries[i])].stream
  BY ReadingTimes
<1>6. \A i \in 1..m : entries[i].text \in {HeadOf(LineIn(entries[i])), Whole(LineIn(entries[i]))}
  BY DEF Reading, Delivers
<1>7. \A i, j \in 1..m : i < j =>
          /\ LineIn(entries[i]) # LineIn(entries[j])
          /\ entries[i].stream = entries[j].stream => LineIn(entries[i]) < LineIn(entries[j])
  BY DEF Reading, Delivers
<1>8. ASSUME NEW i \in 1..z
      PROVE  /\ \A t \in DOMAIN out[i].text : out[i].text[t] = <<out[i].text[1][1], <<"head", "rest">>[t]>>
             /\ line[i] \in DOMAIN log
             /\ out[i].stream = IF tty THEN "stdout" ELSE log[line[i]].stream
             /\ options.since # NotGiven => log[line[i]].time >= options.since
  <2>1. picks[i] \in 1..m BY <1>3
  <2>2. \A t \in DOMAIN out[i].text : out[i].text[t] = <<out[i].text[1][1], <<"head", "rest">>[t]>>
    BY <1>4, <1>6, <2>1, TextIs DEF LineIn
  <2> QED BY <1>1, <1>3, <1>4, <1>5, <2>1, <2>2
<1>9. ASSUME NEW i \in 1..z, NEW j \in 1..z, i < j
      PROVE  /\ line[i] # line[j]
             /\ log[line[i]].time <= log[line[j]].time
             /\ out[i].stream = out[j].stream => line[i] < line[j]
  <2> PICK a \in 1..m : a = picks[i] BY <1>3
  <2> PICK b \in 1..m : b = picks[j] BY <1>3
  <2> PICK k \in 1..n : k = LineIn(entries[a]) BY <1>5
  <2> PICK l \in 1..n : l = LineIn(entries[b]) BY <1>5
  <2>0. n \in Nat BY DEF Reading
  <2>1. <<a, b>> \in ByTime(time) BY <1>9 DEF Picks
  <2>2. time[a] < time[b] \/ (time[a] = time[b] /\ a < b) BY <2>1, ByTimeIs, <1>2
  <2>3. time[a] = log[off + k].time /\ time[b] = log[off + l].time /\ time[a] \in Nat /\ time[b] \in Nat BY <1>5
  <2>4. off + k \in 1..Len(log) /\ off + l \in 1..Len(log) BY <1>5
  <2>5. line[i] = off + k /\ line[j] = off + l /\ out[i] = entries[a] /\ out[j] = entries[b] BY <1>4
  <2>6. k # l
    <3>1. a # b BY <2>2, <2>3
    <3> QED BY <1>2, <1>7, <3>1
  <2>7. entries[a].stream = entries[b].stream => k < l
    <3>1. CASE a < b BY <1>7, <3>1
    <3>2. CASE time[a] < time[b]
      <4>1. l < k => log[off + l].time <= log[off + k].time
        <5>1. l < k => off + l < off + k BY <1>2, <2>0
        <5> QED BY <2>4, <5>1, LogIs
      <4> QED BY <2>0, <2>3, <2>6, <3>2, <4>1
    <3> QED BY <2>2, <3>1, <3>2
  <2>8. line[i] # line[j] /\ (out[i].stream = out[j].stream => line[i] < line[j])
    BY <1>2, <2>0, <2>5, <2>6, <2>7
  <2>9. log[line[i]].time <= log[line[j]].time BY <2>2, <2>3, <2>5
  <2> QED BY <2>8, <2>9
<1> QED BY <1>4, <1>8, <1>9 DEF Sound

IsImage(I, f, z) == I = {f[i] : i \in 1..z}

LEMMA ImageSize ==
    ASSUME NEW z \in Nat, NEW T, NEW f \in [1..z -> T],
           \A i, j \in 1..z : i < j => f[i] # f[j],
           NEW I, IsImage(I, f, z)
    PROVE  Cardinality(I) = z
<1>1. IsFiniteSet(1..z) /\ Cardinality(1..z) = z
  <2>1. 1 \in Int /\ z \in Int OBVIOUS
  <2>2. IsFiniteSet(1..z) /\ Cardinality(1..z) = IF 1 > z THEN 0 ELSE z - 1 + 1 BY <2>1, FS_Interval
  <2> QED BY <2>2
<1>0. I = {f[i] : i \in 1..z} BY DEF IsImage
<1>2. f \in [1..z -> I] BY <1>0
<1>3. \A i, j \in 1..z : f[i] = f[j] => i = j
  <2> SUFFICES ASSUME NEW i \in 1..z, NEW j \in 1..z, f[i] = f[j] PROVE i = j OBVIOUS
  <2>1. ~(i < j) /\ ~(j < i) OBVIOUS
  <2> QED BY <2>1
<1>4. DOMAIN f = 1..z /\ \A x \in I : \E i \in 1..z : f[i] = x BY <1>0
<1>5. f \in Bijection(1..z, I) BY <1>2, <1>3, <1>4 DEF Bijection, Injection, Surjection, IsInjective
<1>6. ExistsBijection(1..z, I) BY <1>5 DEF ExistsBijection
<1> QED BY <1>1, <1>6, FS_Bijection

(* The lines of the log that were asked for. *)
Wanted(log, options) == {l \in DOMAIN log : options.since = NotGiven \/ log[l].time >= options.since}

FromEntries(D, W, off, entries) == \A l \in D : \E e \in W : l = off + LineIn(entries[e])

(* If nothing was cut off, the entries the caller wants are the lines of   *)
(* the log he wants and the engine sent.                                   *)
LEMMA WantsAreWanted ==
    ASSUME NEW log \in Logs, NEW off, NEW sent, NEW n, NEW entries, NEW m, NEW tty, NEW cut, NEW time,
           Reading(log, off, sent, n, entries, m, tty, cut, time), ~cut,
           NEW options \in Options
    PROVE  /\ Cardinality(Wants(options, time, m)) = Cardinality(Wanted(log, options) \ (1..off))
           /\ FromEntries(Wanted(log, options) \ (1..off), Wants(options, time, m), off, entries)
<1> DEFINE W == Wants(options, time, m)
           D == Wanted(log, options) \ (1..off)
           f == [e \in W |-> off + LineIn(entries[e])]
<1>1. Len(log) \in Nat /\ DOMAIN log = 1..Len(log) BY LogIs
<1>2. n \in Nat /\ off \in Nat /\ n = Len(log) - off BY DEF Reading
<1>3. \A i \in 1..m : /\ LineIn(entries[i]) \in 1..n
                      /\ off + LineIn(entries[i]) \in 1..Len(log)
                      /\ time[i] = log[off + LineIn(entries[i])].time
  BY ReadingTimes
<1>4. /\ m \in Nat
      /\ \A i, j \in 1..m : i < j => LineIn(entries[i]) # LineIn(entries[j])
      /\ \A l \in 1..n : \E i \in 1..m : LineIn(entries[i]) = l
  BY DEF Reading, Delivers
<1>5. ASSUME NEW e \in W PROVE e \in 1..m /\ off + LineIn(entries[e]) \in D
  <2>1. e \in 1..m /\ (options.since = NotGiven \/ time[e] >= options.since) BY DEF Wants
  <2>2. off + LineIn(entries[e]) \in Wanted(log, options) BY <1>1, <1>3, <2>1 DEF Wanted
  <2>3. off + LineIn(entries[e]) \notin 1..off BY <1>2, <1>3, <2>1
  <2> QED BY <2>1, <2>2, <2>3
<1>6. ASSUME NEW l \in D PROVE \E e \in W : l = off + LineIn(entries[e])
  <2>1. l \in 1..Len(log) /\ l \notin 1..off /\ (options.since = NotGiven \/ log[l].time >= options.since)
    BY <1>1 DEF Wanted
  <2>2. l - off \in 1..n BY <1>1, <1>2, <2>1
  <2>3. PICK e \in 1..m : LineIn(entries[e]) = l - off BY <1>4, <2>2
  <2>4. l = off + LineIn(entries[e]) BY <1>2, <2>1, <2>3
  <2>5. e \in W BY <1>3, <2>1, <2>4 DEF Wants
  <2> QED BY <2>4, <2>5
<1>7. ASSUME NEW i \in W, NEW j \in W, f[i] = f[j] PROVE i = j
  <2>1. i \in 1..m /\ j \in 1..m BY <1>5
  <2>2. LineIn(entries[i]) \in 1..n /\ LineIn(entries[j]) \in 1..n BY <1>3, <2>1
  <2>3. off + LineIn(entries[i]) = off + LineIn(entries[j]) BY <1>7
  <2>4. LineIn(entries[i]) = LineIn(entries[j]) BY <1>2, <2>2, <2>3
  <2>5. ~(i < j) /\ ~(j < i) BY <1>4, <2>1, <2>4
  <2> QED BY <1>4, <2>1, <2>5
<1>8. f \in [W -> D] BY <1>5
<1>9. \A l \in D : \E e \in W : f[e] = l BY <1>6
<1>10. DOMAIN f = W OBVIOUS
<1>11. IsFiniteSet(W)
  <2>1. 1 \in Int /\ m \in Int BY <1>4
  <2>2. IsFiniteSet(1..m) BY <2>1, FS_Interval
  <2>3. W \in SUBSET (1..m) BY <1>5
  <2> QED BY <2>2, <2>3, FS_Subset
<1>12. Cardinality(W) = Cardinality(D)
  <2> HIDE DEF f, W, D
  <2>1. f \in Bijection(W, D) BY <1>7, <1>8, <1>9, <1>10 DEF Bijection, Injection, Surjection, IsInjective
  <2>2. ExistsBijection(W, D) BY <2>1 DEF ExistsBijection
  <2> QED BY <1>11, <2>2, FS_Bijection
<1>13. FromEntries(D, W, off, entries) BY <1>6 DEF FromEntries
<1> QED BY <1>12, <1>13

(* Where in the log the engine began, given what the caller asked for.     *)
Since(log, options, off) ==
    /\ options.since # NotGiven => \A i \in 1..off : log[i].time < options.since
    /\ options.since = NotGiven =>
           off = IF options.tail # NotGiven /\ Len(log) > options.tail THEN Len(log) - options.tail ELSE 0

LEMMA AsManyAsWanted ==
    ASSUME NEW log \in Logs, NEW options \in Options, NEW off \in 0..Len(log), Since(log, options, off)
    PROVE  HowMany(options, Cardinality(Wanted(log, options) \ (1..off)))
               = HowMany(options, Cardinality(Wanted(log, options)))
<1> DEFINE W == Wanted(log, options)
<1>1. Len(log) \in Nat /\ DOMAIN log = 1..Len(log) BY LogIs
<1> PICK k \in Nat : k = Len(log) BY <1>1
<1>2. CASE options.since # NotGiven
  <2>1. \A i \in 1..k : log[i].time \in Nat BY LogIs
  <2>2. options.since \in Nat
    <3>1. MaxTime \in Nat BY LogAssumption
    <3> QED BY <1>2, <3>1 DEF Options
  <2>3. \A i \in 1..off : i \in 1..k /\ log[i].time < options.since BY <1>2 DEF Since
  <2>4. \A i \in 1..off : i \notin W BY <1>2, <2>1, <2>2, <2>3 DEF Wanted
  <2>5. W \ (1..off) = W BY <2>4
  <2> QED BY <2>5
<1>3. CASE options.since = NotGiven
  <2>1. W = 1..k BY <1>1, <1>3 DEF Wanted
  <2>2. off = IF options.tail # NotGiven /\ k > options.tail THEN k - options.tail ELSE 0 BY <1>3 DEF Since
  <2>3. W \ (1..off) = off + 1..k BY <2>1
  <2>4. Cardinality(W) = k
    <3>1. 1 \in Int /\ k \in Int OBVIOUS
    <3>2. Cardinality(1..k) = IF 1 > k THEN 0 ELSE k - 1 + 1 BY <3>1, FS_Interval
    <3> QED BY <2>1, <3>2
  <2>5. Cardinality(off + 1..k) = k - off
    <3>1. off \in Nat /\ off <= k OBVIOUS
    <3> QED BY <3>1, AscendingInterval
  <2>6. options.tail # NotGiven => options.tail \in Nat
    <3>1. MaxTail \in Nat BY LogAssumption
    <3> QED BY <3>1 DEF Options
  <2>7. HowMany(options, k - off) = HowMany(options, k)
    <3>1. CASE options.tail = NotGiven
      <4>1. k - off = k BY <2>2, <3>1
      <4> QED BY <4>1
    <3>2. CASE options.tail # NotGiven
      <4> PICK t \in Nat : t = options.tail BY <2>6, <3>2
      <4>1. off = IF k > t THEN k - t ELSE 0 BY <2>2, <3>2
      <4>2. HowMany(options, k - off) = IF t < k - off THEN t ELSE k - off BY <3>2 DEF HowMany
      <4>3. HowMany(options, k) = IF t < k THEN t ELSE k BY <3>2 DEF HowMany
      <4> QED BY <4>1, <4>2, <4>3
    <3> QED BY <3>1, <3>2
  <2>8. HowMany(options, Cardinality(W \ (1..off))) = HowMany(options, Cardinality(W))
    <3> HIDE DEF W
    <3> QED BY <2>3, <2>4, <2>5, <2>7
  <2> QED BY <2>8
<1> QED BY <1>2, <1>3
LEMMA CompleteOut ==
    ASSUME NEW log \in Logs, NEW off, NEW sent, NEW n, NEW entries, NEW m, NEW tty, NEW cut, NEW time,
           Reading(log, off, sent, n, entries, m, tty, cut, time), ~cut,
           NEW options \in Options, Since(log, options, off),
           NEW picks, NEW z, NEW out, Picks(picks, z, out, entries, m, time, options),
           z = HowMany(options, Cardinality(Wants(options, time, m))),
           NEW line, Located(line, out, z, entries, picks, off)
    PROVE  Complete(log, options, out, line)
<1> DEFINE W == Wants(options, time, m)
           wanted == Wanted(log, options)
           returned == {line[i] : i \in 1..z}
<1>1. Len(log) \in Nat /\ DOMAIN log = 1..Len(log) BY LogIs
<1>2. z \in Nat /\ off \in 0..Len(log) /\ m \in Nat BY DEF Located, Reading, Delivers, EndOf
<1>3. \A i \in 1..z : picks[i] \in W /\ picks[i] \in 1..m BY DEF Picks, Wants
<1>4. DOMAIN out = 1..z /\ \A i \in 1..z : out[i] = entries[picks[i]] /\ line[i] = off + LineIn(entries[picks[i]])
  BY DEF Located
<1>5. /\ time \in [1..m -> Nat]
      /\ \A i \in 1..m : /\ LineIn(entries[i]) \in Int
                         /\ off + LineIn(entries[i]) \in off + 1..Len(log)
                         /\ off + LineIn(entries[i]) \in 1..Len(log)
                         /\ time[i] = log[off + LineIn(entries[i])].time
  <2>1. n \in Nat BY DEF Reading
  <2>2. \A i \in 1..m : /\ LineIn(entries[i]) \in 1..n
                        /\ off + LineIn(entries[i]) \in 1..Len(log)
    BY ReadingTimes
  <2>3. \A i \in 1..m : LineIn(entries[i]) \in Int /\ off + LineIn(entries[i]) \in off + 1..Len(log)
    BY <1>1, <1>2, <2>1, <2>2
  <2> QED BY <2>3, ReadingTimes
<1>6. \A i \in 1..z : Len(out[i].text) = 2
  <2> SUFFICES ASSUME NEW i \in 1..z PROVE Len(out[i].text) = 2 OBVIOUS
  <2>1. entries[picks[i]].text = Whole(LineIn(entries[picks[i]])) BY <1>3 DEF Reading, Delivers
  <2>2. out[i].text = Whole(LineIn(entries[picks[i]])) BY <1>4, <2>1
  <2> QED BY <2>2 DEF Whole
<1>7. returned \subseteq wanted
  <2> SUFFICES ASSUME NEW i \in 1..z PROVE line[i] \in wanted OBVIOUS
  <2>1. picks[i] \in 1..m /\ (options.since = NotGiven \/ time[picks[i]] >= options.since)
    BY <1>3 DEF Wants
  <2>2. off + LineIn(entries[picks[i]]) \in 1..Len(log) BY <1>5, <2>1
  <2> QED BY <1>1, <1>4, <1>5, <2>1, <2>2 DEF Wanted
<1>8. \A i, j \in 1..z : i < j => line[i] # line[j]
  <2>1. Sound(log, options, out, line, tty) BY SoundOut
  <2> QED BY <1>4, <2>1 DEF Sound
<1>9. Cardinality(returned) = z
  <2>1. \A i \in 1..z : line[i] \in wanted BY <1>7
  <2>2. line \in [1..z -> wanted] BY <2>1 DEF Located
  <2> HIDE DEF wanted
  <2>3. IsImage(returned, line, z) BY DEF IsImage
  <2> HIDE DEF returned
  <2> QED BY <1>2, <1>8, <2>2, <2>3, ImageSize
<1>10. z = HowMany(options, Cardinality(wanted))
  <2>1. Cardinality(W) = Cardinality(wanted \ (1..off)) BY WantsAreWanted
  <2>2. HowMany(options, Cardinality(wanted \ (1..off))) = HowMany(options, Cardinality(wanted))
    BY <1>2, AsManyAsWanted
  <2>3. z = HowMany(options, Cardinality(W)) OBVIOUS
  <2> HIDE DEF W, wanted
  <2> QED BY <2>1, <2>2, <2>3
<1>11. ASSUME NEW i \in wanted \ returned, NEW j \in returned PROVE log[i].time <= log[j].time
  <2>1. PICK k \in 1..z : j = line[k] OBVIOUS
  <2> PICK b \in 1..m : b = picks[k] /\ b \in W BY <1>3
  <2>2. j = off + LineIn(entries[b]) /\ j \in off + 1..Len(log) /\ time[b] = log[j].time BY <1>4, <1>5, <2>1
  <2>3. i \in 1..Len(log) BY <1>1 DEF Wanted
  <2>4. CASE i \in 1..off
    <3>1. i < j /\ i \in 1..Len(log) /\ j \in 1..Len(log) BY <1>1, <1>2, <2>2, <2>3, <2>4
    <3> QED BY <3>1, LogIs
  <2>5. CASE i \notin 1..off
    <3>0. i \in Wanted(log, options) \ (1..off) BY <2>5
    <3>1. PICK e \in W : i = off + LineIn(entries[e])
      <4>1. FromEntries(wanted \ (1..off), W, off, entries) BY WantsAreWanted
      <4> HIDE DEF W
      <4> QED BY <3>0, <4>1 DEF FromEntries
    <3>2. e \in 1..m BY DEF Wants
    <3>3. time[e] = log[i].time /\ time[e] \in Nat /\ time[b] \in Nat BY <1>5, <3>1, <3>2
    <3>4. \A h \in 1..z : picks[h] # e
      <4> SUFFICES ASSUME NEW h \in 1..z, picks[h] = e PROVE FALSE OBVIOUS
      <4>1. line[h] = i BY <1>4, <3>1
      <4> QED BY <4>1
    <3>5. <<e, b>> \in ByTime(time) BY <3>4 DEF Picks
    <3>6. time[e] <= time[b]
      <4>1. e \in Nat /\ b \in Nat BY <3>2
      <4>2. time[e] < time[b] \/ (time[e] = time[b] /\ e < b) BY <3>5, <4>1, ByTimeIs
      <4> QED BY <3>3, <4>2
    <3> QED BY <2>2, <3>3, <3>6
  <2> QED BY <2>4, <2>5
<1>12. Wanted(log, options) = {i \in DOMAIN log : options.since = NotGiven \/ log[i].time >= options.since}
  BY DEF Wanted
<1>13. {line[i] : i \in DOMAIN out} = returned BY <1>4
<1> HIDE DEF wanted, returned
<1>14. /\ \A i \in DOMAIN out : Len(out[i].text) = 2
       /\ Cardinality(returned) = IF options.tail # NotGiven /\ options.tail < Cardinality(wanted)
                                  THEN options.tail ELSE Cardinality(wanted)
  BY <1>4, <1>6, <1>9, <1>10 DEF HowMany
<1> QED BY <1>7, <1>11, <1>12, <1>13, <1>14 DEF Complete, wanted

-----------------------------------------------------------------------------
(* What the decoder has made of the pieces D.  In every stream a line is   *)
(* open while its head has come and its rest has not.                      *)
Open(l, D) == 2 * l - 1 \in D /\ 2 * l \notin D

Closed(D, streams, n) ==
    /\ D \subseteq 1..2 * n
    /\ \A a, b \in 1..2 * n : a < b /\ streams[LineOf(a)] = streams[LineOf(b)] /\ b \in D => a \in D

Finished(entries, m, streams, n, D) ==
    /\ \A i \in 1..m :
           LET l == LineIn(entries[i]) IN
           /\ l \in 1..n /\ 2 * l \in D
           /\ entries[i] = [stream |-> streams[l], text |-> Whole(l)]
    /\ \A l \in 1..n : 2 * l \in D => \E i \in 1..m : LineIn(entries[i]) = l
    /\ \A i, j \in 1..m :
           i < j /\ entries[i].stream = entries[j].stream => LineIn(entries[i]) < LineIn(entries[j])

Shown(acc, streams, n, D) ==
    /\ acc \in Accs
    /\ \A s \in Streams : acc.buffers[s] = <<>> \/
           \E l \in 1..n : acc.buffers[s] = HeadOf(l) /\ streams[l] = s /\ Open(l, D)
    /\ \A l \in 1..n : Open(l, D) => acc.buffers[streams[l]] = HeadOf(l)
    /\ Finished(acc.entries, Len(acc.entries), streams, n, D)

LEMMA LineOfIs ==
    ASSUME NEW l \in Nat
    PROVE  LineOf(2 * l) = l /\ LineOf(2 * l - 1) = l /\ 2 * l % 2 = 0 /\ (2 * l - 1) % 2 = 1
BY DEF LineOf

LEMMA PieceIs ==
    ASSUME NEW n \in Nat, NEW p \in 1..2 * n
    PROVE  \E l \in 1..n : \/ p = 2 * l - 1 /\ Piece(p) = <<<<l, "head">>>> /\ LineOf(p) = l
                           \/ p = 2 * l /\ Piece(p) = <<<<l, "rest">>, Newline>> /\ LineOf(p) = l
<1>1. CASE p % 2 = 1
  <2>1. LineOf(p) \in 1..n /\ p = 2 * LineOf(p) - 1 BY <1>1 DEF LineOf
  <2>2. Piece(p) = <<<<LineOf(p), "head">>>> BY <1>1 DEF Piece
  <2> QED BY <2>1, <2>2
<1>2. CASE p % 2 # 1
  <2>1. LineOf(p) \in 1..n /\ p = 2 * LineOf(p) BY <1>2 DEF LineOf
  <2>2. Piece(p) = <<<<LineOf(p), "rest">>, Newline>> BY <1>2 DEF Piece
  <2> QED BY <2>1, <2>2
<1> QED BY <1>1, <1>2

LEMMA HeadShows ==
    ASSUME NEW n \in Nat, NEW streams \in [1..n -> Streams], NEW D, NEW l \in 1..n,
           Closed(D, streams, n), NEW E, E = D \union {2 * l - 1}, Closed(E, streams, n), 2 * l - 1 \notin D,
           NEW acc, Shown(acc, streams, n, D),
           NEW next, next = AppendToken(acc, streams[l], <<l, "head">>)
    PROVE  Shown(next, streams, n, E)
<1> DEFINE s == streams[l]
<1>1. s \in Streams OBVIOUS
<1> PICK token \in Tokens : token = <<l, "head">> /\ token # Newline BY DEF Tokens, Newline
<1>2. acc \in Accs BY DEF Shown
<1>3. /\ next \in Accs
      /\ \A r \in Streams : r # s => next.buffers[r] = acc.buffers[r]
      /\ next.entries = acc.entries /\ next.buffers[s] = Append(acc.buffers[s], token)
  <2>1. next = AppendToken(acc, s, token) OBVIOUS
  <2> HIDE DEF s
  <2>2. next \in Accs /\ AfterToken(next, acc, s, token) BY <1>1, <1>2, <2>1, AppendTokenGives
  <2> QED BY <2>2 DEF AfterToken
<1>4. 2 * l \notin D /\ 2 * l \notin E
  <2>1. LineOf(2 * l) = l /\ LineOf(2 * l - 1) = l /\ 2 * l \in 1..2 * n /\ 2 * l - 1 \in 1..2 * n BY LineOfIs
  <2>2. 2 * l \notin D BY <2>1 DEF Closed
  <2> QED BY <2>1, <2>2
<1>5. \A k \in 1..n : streams[k] = s => ~Open(k, D)
  <2> SUFFICES ASSUME NEW k \in 1..n, streams[k] = s, Open(k, D) PROVE FALSE OBVIOUS
  <2>1. /\ LineOf(2 * l) = l /\ LineOf(2 * l - 1) = l /\ 2 * l \in 1..2 * n /\ 2 * l - 1 \in 1..2 * n
        /\ LineOf(2 * k) = k /\ LineOf(2 * k - 1) = k /\ 2 * k \in 1..2 * n /\ 2 * k - 1 \in 1..2 * n
    BY LineOfIs
  <2>2. k # l BY DEF Open
  <2>3. CASE k < l
    <3>1. 2 * k < 2 * l - 1 BY <2>3
    <3>2. 2 * k \in E BY <2>1, <3>1 DEF Closed
    <3>3. 2 * k # 2 * l - 1 BY <3>1
    <3> QED BY <3>2, <3>3 DEF Open
  <2>4. CASE l < k
    <3>1. 2 * l - 1 < 2 * k - 1 BY <2>4
    <3> QED BY <2>1, <3>1 DEF Closed, Open
  <2> QED BY <2>2, <2>3, <2>4
<1>6. acc.buffers[s] = <<>> BY <1>1, <1>5 DEF Shown
<1>7. next.buffers[s] = HeadOf(l)
  <2>1. Append(<<>>, token) = <<token>> OBVIOUS
  <2>2. next.buffers[s] = <<token>> BY <1>3, <1>6, <2>1
  <2>3. HeadOf(l) = <<token>> BY DEF HeadOf
  <2> QED BY <2>2, <2>3
<1>8. Open(l, E) BY <1>4 DEF Open
<1>9. \A k \in 1..n : k # l => (Open(k, E) <=> Open(k, D)) /\ (2 * k \in E <=> 2 * k \in D)
  <2>1. \A k \in 1..n : 2 * k # 2 * l - 1 OBVIOUS
  <2>2. \A k \in 1..n : k # l => 2 * k - 1 # 2 * l - 1 OBVIOUS
  <2> QED BY <2>1, <2>2 DEF Open
<1>10. ASSUME NEW r \in Streams, next.buffers[r] # <<>>
       PROVE  \E k \in 1..n : next.buffers[r] = HeadOf(k) /\ streams[k] = r /\ Open(k, E)
  <2>1. CASE r = s BY <1>7, <1>8, <2>1
  <2>2. CASE r # s
    <3>1. next.buffers[r] = acc.buffers[r] BY <1>3, <2>2
    <3>2. PICK k \in 1..n : acc.buffers[r] = HeadOf(k) /\ streams[k] = r /\ Open(k, D)
      BY <1>10, <3>1 DEF Shown
    <3>3. k # l BY <2>2, <3>2
    <3> QED BY <1>9, <3>1, <3>2, <3>3
  <2> QED BY <2>1, <2>2
<1>11. ASSUME NEW k \in 1..n, Open(k, E) PROVE next.buffers[streams[k]] = HeadOf(k)
  <2>1. CASE k = l BY <1>7, <2>1
  <2>2. CASE k # l
    <3>1. Open(k, D) BY <1>9, <1>11, <2>2
    <3>2. streams[k] # s BY <1>5, <3>1
    <3> QED BY <1>3, <3>1, <3>2 DEF Shown
  <2> QED BY <2>1, <2>2
<1>12. Finished(next.entries, Len(next.entries), streams, n, E)
  <2>1. \A k \in 1..n : 2 * k \in E <=> 2 * k \in D BY <1>4, <1>9
  <2>2. Finished(acc.entries, Len(acc.entries), streams, n, D) BY DEF Shown
  <2>3. Finished(acc.entries, Len(acc.entries), streams, n, E) BY <2>1, <2>2 DEF Finished
  <2> QED BY <1>3, <2>3
<1> HIDE DEF s
<1> QED BY <1>3, <1>10, <1>11, <1>12 DEF Shown

OneMore(more, entries, streams, n, l, D, E) ==
    /\ n \in Nat /\ streams \in [1..n -> Streams]
    /\ l \in 1..n /\ 2 * l \notin D /\ E = D \union {2 * l} /\ Closed(D, streams, n)
    /\ entries \in Seq(Entries) /\ Finished(entries, Len(entries), streams, n, D)
    /\ more = Append(entries, [stream |-> streams[l], text |-> Whole(l)])

LEMMA OneMoreFinished ==
    ASSUME NEW n, NEW streams, NEW D, NEW l, NEW E, NEW entries, NEW more,
           OneMore(more, entries, streams, n, l, D, E)
    PROVE  Finished(more, Len(more), streams, n, E)
<1> DEFINE m == Len(entries)
           entry == [stream |-> streams[l], text |-> Whole(l)]
<1>0. /\ n \in Nat /\ streams \in [1..n -> Streams]
      /\ l \in 1..n /\ 2 * l \notin D /\ E = D \union {2 * l} /\ Closed(D, streams, n)
      /\ entries \in Seq(Entries) /\ Finished(entries, m, streams, n, D)
      /\ more = Append(entries, entry)
  BY DEF OneMore
<1> USE <1>0
<1>1. m \in Nat OBVIOUS
<1>2. entry \in Entries
  <2>1. <<l, "head">> \in Tokens /\ <<l, "rest">> \in Tokens BY DEF Tokens
  <2>2. Whole(l) \in Seq(Tokens) BY <2>1 DEF Whole
  <2> QED BY <2>2 DEF Entries
<1>3. LineIn(entry) = l BY DEF LineIn, Whole
<1>4. Len(more) = m + 1 /\ more[m + 1] = entry /\ \A i \in 1..m : more[i] = entries[i]
  <2> HIDE DEF entry
  <2> QED BY <1>2
<1> HIDE DEF m, entry
<1>5. ASSUME NEW i \in 1..m
      PROVE  /\ LineIn(entries[i]) \in 1..n /\ 2 * LineIn(entries[i]) \in D
             /\ entries[i] = [stream |-> streams[LineIn(entries[i])], text |-> Whole(LineIn(entries[i]))]
  BY DEF Finished
<1>6. entry.stream = streams[l] BY DEF entry
<1>7. ASSUME NEW i \in 1..m + 1
      PROVE  /\ LineIn(more[i]) \in 1..n /\ 2 * LineIn(more[i]) \in E
             /\ more[i] = [stream |-> streams[LineIn(more[i])], text |-> Whole(LineIn(more[i]))]
  <2>1. CASE i = m + 1 BY <1>3, <1>4, <2>1 DEF entry
  <2>2. CASE i # m + 1
    <3>1. i \in 1..m BY <1>1, <2>2
    <3> QED BY <1>4, <1>5, <3>1
  <2> QED BY <2>1, <2>2
<1>8. ASSUME NEW k \in 1..n, 2 * k \in E PROVE \E i \in 1..m + 1 : LineIn(more[i]) = k
  <2>1. CASE k = l
    <3>1. m + 1 \in 1..m + 1 BY <1>1
    <3> QED BY <1>3, <1>4, <2>1, <3>1
  <2>2. CASE k # l
    <3>1. 2 * k \in D BY <1>8, <2>2
    <3>2. PICK i \in 1..m : LineIn(entries[i]) = k BY <3>1 DEF Finished
    <3>3. i \in 1..m + 1 BY <1>1
    <3> QED BY <1>4, <3>2, <3>3
  <2> QED BY <2>1, <2>2
<1>9. ASSUME NEW i \in 1..m + 1, NEW j \in 1..m + 1, i < j, more[i].stream = more[j].stream
      PROVE  LineIn(more[i]) < LineIn(more[j])
  <2>1. i \in 1..m BY <1>1, <1>9
  <2>2. CASE j # m + 1
    <3>1. j \in 1..m BY <1>1, <2>2
    <3> QED BY <1>4, <1>9, <2>1, <3>1 DEF Finished
  <2>3. CASE j = m + 1
    <3> PICK k \in 1..n : k = LineIn(entries[i]) BY <1>5, <2>1
    <3>1. more[i] = entries[i] /\ more[j] = entry BY <1>4, <2>1, <2>3
    <3>2. 2 * k \in D /\ entries[i].stream = streams[k]
      <4>1. 2 * k \in D /\ entries[i] = [stream |-> streams[k], text |-> Whole(k)] BY <1>5, <2>1
      <4> QED BY <4>1
    <3>3. streams[k] = streams[l] BY <1>6, <1>9, <3>1, <3>2
    <3>4. k < l
      <4> SUFFICES ASSUME k >= l PROVE FALSE OBVIOUS
      <4>1. k # l BY <3>2
      <4>2. 2 * l < 2 * k /\ 2 * l \in 1..2 * n /\ 2 * k \in 1..2 * n BY <4>1
      <4>3. LineOf(2 * l) = l /\ LineOf(2 * k) = k BY LineOfIs
      <4> QED BY <3>2, <3>3, <4>2, <4>3 DEF Closed
    <3> QED BY <1>3, <3>1, <3>4
  <2> QED BY <2>2, <2>3
<1> QED BY <1>4, <1>7, <1>8, <1>9 DEF Finished

LEMMA RestShows ==
    ASSUME NEW n \in Nat, NEW streams \in [1..n -> Streams], NEW D, NEW l \in 1..n,
           Closed(D, streams, n), NEW E, E = D \union {2 * l}, Closed(E, streams, n), 2 * l \notin D,
           NEW acc, Shown(acc, streams, n, D),
           NEW mid, mid = AppendToken(acc, streams[l], <<l, "rest">>),
           NEW next, next = AppendToken(mid, streams[l], Newline)
    PROVE  Shown(next, streams, n, E) /\ mid \in Accs
<1> DEFINE s == streams[l]
<1>1. s \in Streams /\ Newline \in Tokens BY DEF Tokens, Newline
<1> PICK token \in Tokens : token = <<l, "rest">> /\ token # Newline BY DEF Tokens, Newline
<1>2. acc \in Accs BY DEF Shown
<1>3. Open(l, D)
  <2>1. /\ LineOf(2 * l) = l /\ LineOf(2 * l - 1) = l /\ 2 * l \in 1..2 * n /\ 2 * l - 1 \in 1..2 * n
        /\ 2 * l - 1 < 2 * l /\ 2 * l - 1 # 2 * l
    BY LineOfIs
  <2>2. 2 * l \in E OBVIOUS
  <2>3. 2 * l - 1 \in E BY <2>1, <2>2 DEF Closed
  <2> QED BY <2>1, <2>3 DEF Open
<1>4. acc.buffers[s] = HeadOf(l) BY <1>3 DEF Shown
<1>5. /\ mid \in Accs
      /\ \A r \in Streams : r # s => mid.buffers[r] = acc.buffers[r]
      /\ mid.entries = acc.entries /\ mid.buffers[s] = Append(acc.buffers[s], token)
  <2>1. mid = AppendToken(acc, s, token) OBVIOUS
  <2> HIDE DEF s
  <2>2. mid \in Accs /\ AfterToken(mid, acc, s, token) BY <1>1, <1>2, <2>1, AppendTokenGives
  <2> QED BY <2>2 DEF AfterToken
<1>6. mid.buffers[s] = Whole(l) /\ Whole(l) # <<>>
  <2> PICK head \in Tokens : head = <<l, "head">>
    <3>1. l \in Nat OBVIOUS
    <3>2. <<l, "head">> \in Tokens BY <3>1, TokensAre
    <3> QED BY <3>2
  <2>1. Append(HeadOf(l), token) = Whole(l)
    <3>1. HeadOf(l) = <<head>> /\ Whole(l) = <<head, token>> BY DEF HeadOf, Whole
    <3>2. Append(<<head>>, token) = <<head, token>> BY PairIs
    <3> QED BY <3>1, <3>2
  <2>2. Whole(l) # <<>> BY DEF Whole
  <2> QED BY <1>4, <1>5, <2>1, <2>2
<1>7. /\ next \in Accs
      /\ \A r \in Streams : r # s => next.buffers[r] = mid.buffers[r]
      /\ next.buffers[s] = <<>>
      /\ next.entries = Append(mid.entries, [stream |-> s, text |-> mid.buffers[s]])
  <2>1. next = AppendToken(mid, s, Newline) OBVIOUS
  <2> HIDE DEF s
  <2>2. next \in Accs /\ AfterToken(next, mid, s, Newline) BY <1>1, <1>5, <2>1, AppendTokenGives
  <2> QED BY <1>6, <2>2 DEF AfterToken
<1>8. Finished(next.entries, Len(next.entries), streams, n, E)
  <2>1. next.entries = Append(acc.entries, [stream |-> s, text |-> Whole(l)]) BY <1>5, <1>6, <1>7
  <2>2. Finished(acc.entries, Len(acc.entries), streams, n, D) /\ acc.entries \in Seq(Entries)
    BY <1>2 DEF Shown, Accs
  <2> PICK es \in Seq(Entries) : es = acc.entries BY <2>2
  <2> PICK more : more = next.entries OBVIOUS
  <2>3. OneMore(more, es, streams, n, l, D, E) BY <2>1, <2>2 DEF OneMore
  <2>4. Finished(more, Len(more), streams, n, E) BY <2>3, OneMoreFinished
  <2> QED BY <2>4
<1>9. \A k \in 1..n : k # l => (Open(k, E) <=> Open(k, D))
  <2>1. \A k \in 1..n : 2 * k - 1 # 2 * l OBVIOUS
  <2>2. \A k \in 1..n : k # l => 2 * k # 2 * l OBVIOUS
  <2> QED BY <2>1, <2>2 DEF Open
<1>10. ~Open(l, E) BY DEF Open
<1>11. ASSUME NEW r \in Streams, next.buffers[r] # <<>>
       PROVE  \E k \in 1..n : next.buffers[r] = HeadOf(k) /\ streams[k] = r /\ Open(k, E)
  <2>1. r # s BY <1>7, <1>11
  <2>2. next.buffers[r] = acc.buffers[r] BY <1>5, <1>7, <2>1
  <2>3. PICK k \in 1..n : acc.buffers[r] = HeadOf(k) /\ streams[k] = r /\ Open(k, D)
    BY <1>11, <2>2 DEF Shown
  <2>4. k # l BY <2>1, <2>3
  <2> QED BY <1>9, <2>2, <2>3, <2>4
<1>12. ASSUME NEW k \in 1..n, Open(k, E) PROVE next.buffers[streams[k]] = HeadOf(k)
  <2>1. k # l BY <1>10, <1>12
  <2>2. Open(k, D) BY <1>9, <1>12, <2>1
  <2>3. acc.buffers[streams[k]] = HeadOf(k) BY <2>2 DEF Shown
  <2>4. streams[k] # s
    <3> SUFFICES ASSUME streams[k] = s PROVE FALSE OBVIOUS
    <3>1. HeadOf(k) = HeadOf(l) BY <1>4, <2>3
    <3>2. HeadOf(k)[1][1] = k /\ HeadOf(l)[1][1] = l BY DEF HeadOf
    <3> QED BY <2>1, <3>1, <3>2
  <2> QED BY <1>5, <1>7, <2>3, <2>4
<1> HIDE DEF s
<1> QED BY <1>5, <1>7, <1>8, <1>11, <1>12 DEF Shown

LEMMA PieceShows ==
    ASSUME NEW n \in Nat, NEW streams \in [1..n -> Streams], NEW D, NEW p \in 1..2 * n,
           Closed(D, streams, n), NEW E, E = D \union {p}, Closed(E, streams, n), p \notin D,
           NEW acc, Shown(acc, streams, n, D)
    PROVE  Shown(AppendText(acc, streams[LineOf(p)], Piece(p)), streams, n, E) /\ Piece(p) \in Seq(Tokens)
<1> PICK l \in 1..n : \/ p = 2 * l - 1 /\ Piece(p) = <<<<l, "head">>>> /\ LineOf(p) = l
                      \/ p = 2 * l /\ Piece(p) = <<<<l, "rest">>, Newline>> /\ LineOf(p) = l
  BY PieceIs
<1> PICK s \in Streams : s = streams[l] OBVIOUS
<1>1. acc \in Accs BY DEF Shown
<1>2. CASE p = 2 * l - 1 /\ Piece(p) = <<<<l, "head">>>> /\ LineOf(p) = l
  <2> PICK token \in Tokens : token = <<l, "head">>
    <3> HIDE <1>2
    <3>1. l \in Nat OBVIOUS
    <3>2. <<l, "head">> \in Tokens BY <3>1, TokensAre
    <3> QED BY <3>2
  <2>1. AppendText(acc, s, <<token>>) = AppendToken(acc, s, token) BY <1>1, TextOne
  <2> PICK next : next = AppendToken(acc, s, token) OBVIOUS
  <2>2. Shown(next, streams, n, E) BY <1>2, HeadShows
  <2>3. Piece(p) = <<token>> BY <1>2
  <2>4. <<token>> \in Seq(Tokens) OBVIOUS
  <2> QED BY <1>2, <2>1, <2>2, <2>3, <2>4
<1>3. CASE p = 2 * l /\ Piece(p) = <<<<l, "rest">>, Newline>> /\ LineOf(p) = l
  <2> PICK token \in Tokens : token = <<l, "rest">>
    <3> HIDE <1>3
    <3>1. l \in Nat OBVIOUS
    <3>2. <<l, "rest">> \in Tokens BY <3>1, TokensAre
    <3> QED BY <3>2
  <2> PICK mid : mid = AppendToken(acc, s, token) OBVIOUS
  <2> PICK next : next = AppendToken(mid, s, Newline) OBVIOUS
  <2>1. Shown(next, streams, n, E) /\ mid \in Accs BY <1>3, RestShows
  <2>2. Newline \in Tokens BY DEF Tokens, Newline
  <2>3. Piece(p) = <<token>> \o <<Newline>> BY <1>3
  <2>4. <<token>> \in Seq(Tokens) /\ <<Newline>> \in Seq(Tokens) /\ <<token>> \o <<Newline>> \in Seq(Tokens)
    BY <2>2
  <2>5. AppendText(acc, s, <<token>> \o <<Newline>>) = AppendText(AppendText(acc, s, <<token>>), s, <<Newline>>)
    BY <1>1, <2>4, TextConcat
  <2>6. AppendText(acc, s, <<token>>) = mid BY <1>1, TextOne
  <2>7. AppendText(mid, s, <<Newline>>) = next BY <2>1, <2>2, TextOne
  <2> QED BY <1>3, <2>1, <2>3, <2>4, <2>5, <2>6, <2>7
<1> QED BY <1>2, <1>3

-----------------------------------------------------------------------------
(* A frame's payload is its pieces one after the other. *)
Flattens(h, seqs, c, T) ==
    /\ h \in [1..c -> Seq(T)]
    /\ h[1] = seqs[1]
    /\ \A t \in 1..c - 1 : h[t + 1] = h[t] \o seqs[t + 1]
    /\ FlattenSeq(seqs) = h[c]

LEMMA FlattenTrace ==
    ASSUME NEW T, NEW c \in Nat \ {0}, NEW seqs \in [1..c -> Seq(T)]
    PROVE  \E h : Flattens(h, seqs, c, T)
<1> DEFINE G == [t \in 1 + 1..c |-> [x \in Seq(T) |-> x \o seqs[t]]]
           h == CHOOSE g : g = [i \in 1..c |-> IF i = 1 THEN seqs[1] ELSE g[i - 1] \o seqs[i]]
<1>1. \A t \in 1..c : seqs[t] \in Seq(T) OBVIOUS
<1>2. G \in [1 + 1..c -> [Seq(T) -> Seq(T)]]
  <2>1. \A t \in 1 + 1..c : \A x \in Seq(T) : x \o seqs[t] \in Seq(T) OBVIOUS
  <2> QED BY <2>1
<1>3. PICK g : g \in [1..c -> Seq(T)] /\ g[1] = seqs[1] /\ \A t \in 1 + 1..c : g[t] = G[t][g[t - 1]]
  <2> PICK a \in Seq(T) : a = seqs[1] OBVIOUS
  <2>1. 1 \in Nat /\ c \in Nat /\ 1 <= c OBVIOUS
  <2> HIDE DEF G
  <2>2. PICK g : Iterates(g, Seq(T), 1, c, a, G) BY <1>2, <2>1, Recursion
  <2> QED BY <2>2 DEF Iterates
<1>4. \A t \in 1..c : t # 1 => t \in 1 + 1..c /\ t - 1 \in 1..c OBVIOUS
<1>5. \A t \in 1..c : t # 1 => g[t] = g[t - 1] \o seqs[t]
  <2>1. \A t \in 1 + 1..c : g[t - 1] \in Seq(T) => G[t][g[t - 1]] = g[t - 1] \o seqs[t] OBVIOUS
  <2> HIDE DEF G
  <2> QED BY <1>3, <1>4, <2>1
<1>6. g = [i \in 1..c |-> IF i = 1 THEN seqs[i] ELSE g[i - 1] \o seqs[i]]
  <2> HIDE DEF G
  <2> QED BY <1>3, <1>5
<1> DEFINE f == CHOOSE e : e = [i \in 1..c |-> IF i = 1 THEN seqs[i] ELSE e[i - 1] \o seqs[i]]
<1>7. f = [i \in 1..c |-> IF i = 1 THEN seqs[i] ELSE f[i - 1] \o seqs[i]]
  BY <1>6
<1>8. FlattenSeq(seqs) = f[c]
  <2>1. Len(seqs) = c /\ c # 0 OBVIOUS
  <2> QED BY <2>1 DEF FlattenSeq
<1> HIDE DEF f
<1> DEFINE S == {k \in 1..c : f[k] = g[k]}
<1>9. \A k \in 1..c : k \in S
  <2>1. 1 \in S BY <1>3, <1>7
  <2>2. ASSUME NEW k \in 1..c - 1, k \in S PROVE k + 1 \in S
    <3> PICK j \in 1..c : j = k + 1 /\ j # 1 /\ j - 1 = k OBVIOUS
    <3>1. f[j] = f[j - 1] \o seqs[j] BY <1>7
    <3>2. g[j] = g[j - 1] \o seqs[j] BY <1>5
    <3>3. f[j - 1] = g[j - 1] BY <2>2
    <3>4. f[j] = g[j]
      <4> HIDE DEF G
      <4> QED BY <3>1, <3>2, <3>3
    <3> QED BY <3>4
  <2>3. 1 \in Nat /\ c \in Nat OBVIOUS
  <2> HIDE DEF S
  <2> QED BY <2>1, <2>2, <2>3, UpTo
<1>10. FlattenSeq(seqs) = g[c] BY <1>8, <1>9
<1>11. \A t \in 1..c - 1 : g[t + 1] = g[t] \o seqs[t + 1]
  <2> SUFFICES ASSUME NEW t \in 1..c - 1 PROVE g[t + 1] = g[t] \o seqs[t + 1] OBVIOUS
  <2> PICK j \in 1..c : j = t + 1 /\ j # 1 /\ j - 1 = t OBVIOUS
  <2>1. g[j] = g[j - 1] \o seqs[j] BY <1>5
  <2>2. g[j] = g[t] \o seqs[j] BY <2>1
  <2> QED BY <2>2
<1> HIDE DEF G
<1>12. Flattens(g, seqs, c, T) BY <1>3, <1>10, <1>11 DEF Flattens
<1> QED BY <1>12

-----------------------------------------------------------------------------
(* The pieces in the order in which they come. *)
Came(o, k) == {o[j] : j \in 1..k}

Ordered(o, streams, n) ==
    /\ o \in [1..2 * n -> 1..2 * n]
    /\ \A i, j \in 1..2 * n : o[i] = o[j] => i = j
    /\ \A p \in 1..2 * n : \E i \in 1..2 * n : o[i] = p
    /\ \A i, j \in 1..2 * n : i < j /\ streams[LineOf(o[i])] = streams[LineOf(o[j])] => o[i] < o[j]

LEMMA OrdersIs ==
    ASSUME NEW n \in Nat, NEW streams \in [1..n -> Streams], NEW o \in Orders(streams)
    PROVE  Ordered(o, streams, n)
<1>1. Len(streams) = n OBVIOUS
<1> DEFINE N == 2 * n
<1>2. N \in Nat OBVIOUS
<1>3. o \in Injection(1..N, 1..N) BY <1>1 DEF Orders
<1>4. \A i, j \in DOMAIN o : i < j /\ streams[LineOf(o[i])] = streams[LineOf(o[j])] => o[i] < o[j]
  BY DEF Orders
<1> HIDE DEF N
<1>5. o \in [1..N -> 1..N] /\ \A i, j \in 1..N : o[i] = o[j] => i = j
  BY <1>3 DEF Injection, IsInjective
<1>6. IsFiniteSet(1..N)
  <2>1. 1 \in Int /\ N \in Int BY <1>2
  <2> QED BY <2>1, FS_Interval
<1>7. o \in Surjection(1..N, 1..N) BY <1>3, <1>6, FS_Injection
<1>8. \A p \in 1..N : \E i \in 1..N : o[i] = p BY <1>7 DEF Surjection
<1> QED BY <1>4, <1>5, <1>8 DEF N, Ordered

LEMMA CameClosed ==
    ASSUME NEW n \in Nat, NEW streams \in [1..n -> Streams], NEW o, Ordered(o, streams, n),
           NEW k \in 0..2 * n
    PROVE  /\ Closed(Came(o, k), streams, n)
           /\ k < 2 * n => /\ Came(o, k + 1) = Came(o, k) \union {o[k + 1]} /\ o[k + 1] \notin Came(o, k)
                           /\ o[k + 1] \in 1..2 * n
<1>1. Came(o, k) \subseteq 1..2 * n BY DEF Came, Ordered
<1>2. ASSUME NEW a \in 1..2 * n, NEW b \in 1..2 * n, a < b, streams[LineOf(a)] = streams[LineOf(b)], b \in Came(o, k)
      PROVE  a \in Came(o, k)
  <2>1. PICK j \in 1..k : o[j] = b BY <1>2 DEF Came
  <2>2. PICK i \in 1..2 * n : o[i] = a BY DEF Ordered
  <2>3. j \in 1..2 * n OBVIOUS
  <2>4. i # j BY <1>2, <2>1, <2>2
  <2>5. ~(j < i)
    <3> SUFFICES ASSUME j < i PROVE FALSE OBVIOUS
    <3>1. o[j] < o[i] BY <1>2, <2>1, <2>2, <2>3 DEF Ordered
    <3> QED BY <1>2, <2>1, <2>2, <3>1
  <2>6. i \in 1..k BY <2>3, <2>4, <2>5
  <2> QED BY <2>2, <2>6 DEF Came
<1>3. ASSUME k < 2 * n
      PROVE  /\ Came(o, k + 1) = Came(o, k) \union {o[k + 1]} /\ o[k + 1] \notin Came(o, k)
             /\ o[k + 1] \in 1..2 * n
  <2>1. 1..k + 1 = 1..k \union {k + 1} /\ k + 1 \in 1..2 * n BY <1>3
  <2>2. Came(o, k + 1) = Came(o, k) \union {o[k + 1]} BY <2>1 DEF Came
  <2>3. o[k + 1] \notin Came(o, k)
    <3> SUFFICES ASSUME NEW j \in 1..k, o[j] = o[k + 1] PROVE FALSE BY DEF Came
    <3>1. j \in 1..2 * n /\ j # k + 1 OBVIOUS
    <3> QED BY <2>1, <3>1 DEF Ordered
  <2> QED BY <2>1, <2>2, <2>3 DEF Ordered
<1> QED BY <1>1, <1>2, <1>3 DEF Closed

Follows(j, k, n) == k \in 0..2 * n /\ j \in 0..2 * n /\ j = k + 1

LEMMA NextShows ==
    ASSUME NEW n \in Nat, NEW streams \in [1..n -> Streams], NEW o, Ordered(o, streams, n),
           NEW k, NEW j, Follows(j, k, n),
           NEW acc, Shown(acc, streams, n, Came(o, k))
    PROVE  /\ Shown(AppendText(acc, streams[LineOf(o[j])], Piece(o[j])), streams, n, Came(o, j))
           /\ Piece(o[j]) \in Seq(Tokens)
<1>0. k \in 0..2 * n /\ j \in 0..2 * n /\ j = k + 1 BY DEF Follows
<1> USE <1>0
<1> PICK p : p = o[j] OBVIOUS
<1> PICK D : D = Came(o, k) OBVIOUS
<1> PICK E : E = Came(o, j) OBVIOUS
<1>1. Closed(D, streams, n) /\ Closed(E, streams, n) BY CameClosed
<1>2. k < 2 * n OBVIOUS
<1>3. E = D \union {p} /\ p \notin D /\ p \in 1..2 * n BY <1>2, CameClosed
<1>4. Shown(acc, streams, n, D) OBVIOUS
<1>5. Shown(AppendText(acc, streams[LineOf(p)], Piece(p)), streams, n, E) /\ Piece(p) \in Seq(Tokens)
  BY <1>1, <1>3, <1>4, PieceShows
<1> QED BY <1>5

(* A frame of the pieces after the first a of the order up to the b-th. *)
FrameOf(frame, streams, o, a, b) ==
    /\ frame = [stream |-> frame.stream, payload |-> frame.payload]
    /\ \A k \in 1..b - a : streams[LineOf(o[a + k])] = frame.stream
    /\ frame.payload = FlattenSeq([k \in 1..b - a |-> Piece(o[a + k])])

FrameReads(h, frame, o, a, c) ==
    /\ frame.stream \in Streams
    /\ h \in [1..c -> Seq(Tokens)]
    /\ h[1] = Piece(o[a + 1])
    /\ \A t \in 1..c - 1 : h[t + 1] = h[t] \o Piece(o[a + (t + 1)])
    /\ frame.payload = h[c]

LEMMA FrameTrace ==
    ASSUME NEW n \in Nat, NEW streams \in [1..n -> Streams], NEW o, Ordered(o, streams, n),
           NEW a \in 0..2 * n, NEW b \in 0..2 * n, a < b, NEW frame, FrameOf(frame, streams, o, a, b),
           NEW c, c = b - a
    PROVE  \E h : FrameReads(h, frame, o, a, c)
<1> DEFINE seqs == [k \in 1..c |-> Piece(o[a + k])]
           s == frame.stream
<1>1. c \in Nat \ {0} OBVIOUS
<1>2. ASSUME NEW k \in 1..c
      PROVE  o[a + k] \in 1..2 * n /\ streams[LineOf(o[a + k])] = s
  <2>1. a + k \in 1..2 * n /\ k \in 1..b - a OBVIOUS
  <2>2. streams[LineOf(o[a + k])] = s BY <2>1 DEF FrameOf
  <2> PICK j \in 1..2 * n : j = a + k BY <2>1
  <2>3. o[j] \in 1..2 * n BY DEF Ordered
  <2> QED BY <2>2, <2>3
<1>3. \A p \in 1..2 * n : Piece(p) \in Seq(Tokens) /\ LineOf(p) \in 1..n
  <2> SUFFICES ASSUME NEW p \in 1..2 * n PROVE Piece(p) \in Seq(Tokens) /\ LineOf(p) \in 1..n OBVIOUS
  <2> PICK l \in 1..n : \/ p = 2 * l - 1 /\ Piece(p) = <<<<l, "head">>>> /\ LineOf(p) = l
                        \/ p = 2 * l /\ Piece(p) = <<<<l, "rest">>, Newline>> /\ LineOf(p) = l
    BY PieceIs
  <2>1. l \in Nat /\ <<l, "head">> \in Tokens /\ <<l, "rest">> \in Tokens /\ Newline \in Tokens BY TokensAre
  <2>2. <<<<l, "head">>>> \in Seq(Tokens) /\ <<<<l, "rest">>, Newline>> \in Seq(Tokens) BY <2>1
  <2> QED BY <2>2
<1>4. s \in Streams
  <2>1. 1 \in 1..c OBVIOUS
  <2> QED BY <1>2, <1>3, <2>1
<1>5. seqs \in [1..c -> Seq(Tokens)] BY <1>2, <1>3
<1>6. PICK h : Flattens(h, seqs, c, Tokens)
  <2> HIDE DEF seqs
  <2> QED BY <1>1, <1>5, FlattenTrace
<1>7. frame.payload = h[c]
  <2>1. frame.payload = FlattenSeq(seqs) BY DEF FrameOf
  <2> HIDE DEF seqs
  <2> QED BY <1>6, <2>1 DEF Flattens
<1>8. /\ h \in [1..c -> Seq(Tokens)]
      /\ h[1] = Piece(o[a + 1])
      /\ \A t \in 1..c - 1 : h[t + 1] = h[t] \o Piece(o[a + (t + 1)])
  <2>1. 1 \in 1..c /\ \A t \in 1..c - 1 : t + 1 \in 1..c BY <1>1
  <2> QED BY <1>6, <2>1 DEF Flattens
<1> HIDE DEF seqs
<1>9. FrameReads(h, frame, o, a, c) BY <1>4, <1>7, <1>8 DEF FrameReads
<1> QED BY <1>9

LEMMA FrameTyped ==
    ASSUME NEW n \in Nat, NEW streams \in [1..n -> Streams], NEW o, Ordered(o, streams, n),
           NEW a \in 0..2 * n, NEW b \in 0..2 * n, a < b, NEW frame, FrameOf(frame, streams, o, a, b)
    PROVE  frame.stream \in Streams /\ frame.payload \in Seq(Tokens)
<1> PICK c \in Nat \ {0} : c = b - a OBVIOUS
<1> PICK h : FrameReads(h, frame, o, a, c) BY FrameTrace
<1>1. c \in 1..c OBVIOUS
<1> QED BY <1>1 DEF FrameReads

LEMMA FrameShows ==
    ASSUME NEW n \in Nat, NEW streams \in [1..n -> Streams], NEW o, Ordered(o, streams, n),
           NEW a \in 0..2 * n, NEW b \in 0..2 * n, a < b,
           NEW acc, Shown(acc, streams, n, Came(o, a)),
           NEW frame, FrameOf(frame, streams, o, a, b)
    PROVE  Shown(AppendText(acc, frame.stream, frame.payload), streams, n, Came(o, b))
<1> PICK c \in Nat \ {0} : c = b - a OBVIOUS
<1> DEFINE s == frame.stream
<1>1. acc \in Accs BY DEF Shown
<1> PICK h : FrameReads(h, frame, o, a, c) BY FrameTrace
<1>8. /\ h \in [1..c -> Seq(Tokens)] /\ s \in Streams
      /\ h[1] = Piece(o[a + 1])
      /\ \A t \in 1..c - 1 : h[t + 1] = h[t] \o Piece(o[a + (t + 1)])
      /\ frame.payload = h[c]
  BY DEF FrameReads
<1>2. ASSUME NEW k \in 1..c
      PROVE  a + k \in 0..2 * n /\ streams[LineOf(o[a + k])] = s
  <2>1. a + k \in 0..2 * n /\ k \in 1..b - a OBVIOUS
  <2> QED BY <2>1 DEF FrameOf
<1> HIDE DEF s
<1> DEFINE S == {k \in 1..c : Shown(AppendText(acc, s, h[k]), streams, n, Came(o, a + k))}
<1>9. 1 \in S
  <2> PICK j \in 0..2 * n : j = a + 1 BY <1>2
  <2>1. 1 \in 1..c OBVIOUS
  <2>2. streams[LineOf(o[j])] = s /\ h[1] = Piece(o[j]) BY <1>2, <1>8, <2>1
  <2>a. Follows(j, a, n) BY DEF Follows
  <2>3. Shown(AppendText(acc, streams[LineOf(o[j])], Piece(o[j])), streams, n, Came(o, j)) BY <2>a, NextShows
  <2> QED BY <2>1, <2>2, <2>3
<1>10. ASSUME NEW t \in 1..c - 1, t \in S PROVE t + 1 \in S
  <2> PICK k \in 0..2 * n : k = a + t BY <1>2
  <2>0. t + 1 \in 1..c OBVIOUS
  <2> PICK j \in 0..2 * n : j = k + 1 /\ j = a + (t + 1) BY <1>2, <2>0
  <2> PICK mid : mid = AppendText(acc, s, h[t]) OBVIOUS
  <2> PICK u \in Seq(Tokens) : u = h[t] BY <1>8
  <2>1. Shown(mid, streams, n, Came(o, k)) BY <1>10
  <2>2. Shown(AppendText(mid, streams[LineOf(o[j])], Piece(o[j])), streams, n, Came(o, j))
        /\ Piece(o[j]) \in Seq(Tokens)
    <3>1. Follows(j, k, n) BY DEF Follows
    <3> HIDE DEF S
    <3> QED BY <2>1, <3>1, NextShows
  <2>3. streams[LineOf(o[j])] = s BY <1>2, <2>0
  <2> PICK v \in Seq(Tokens) : v = Piece(o[j]) BY <2>2
  <2>4. AppendText(acc, s, u \o v) = AppendText(AppendText(acc, s, u), s, v) BY <1>1, <1>8, TextConcat
  <2>5. h[t + 1] = u \o v BY <1>8
  <2>6. AppendText(acc, s, h[t + 1]) = AppendText(mid, s, v) BY <2>4, <2>5
  <2> QED BY <2>0, <2>2, <2>3, <2>6
<1>11. c \in S
  <2>1. 1 \in Nat /\ c \in Nat /\ c \in 1..c OBVIOUS
  <2> HIDE DEF S
  <2> QED BY <1>9, <1>10, <2>1, UpTo
<1>12. a + c = b OBVIOUS
<1> QED BY <1>8, <1>11, <1>12 DEF s

-----------------------------------------------------------------------------
(* The frames cut the order of the pieces into intervals: the f-th frame   *)
(* is of those after cuts[f - 1] up to cuts[f].                            *)
Partitions(cuts, frames, m, streams, n, o) ==
    /\ m \in Nat /\ DOMAIN frames = 1..m /\ Len(frames) = m
    /\ cuts \in [0..m -> 0..2 * n] /\ cuts[0] = 0 /\ cuts[m] = 2 * n
    /\ \A f \in 1..m : cuts[f - 1] < cuts[f] /\ FrameOf(frames[f], streams, o, cuts[f - 1], cuts[f])

OneStream(streams, o, a, c) == \A k \in 1..c : streams[LineOf(o[a + k])] = streams[LineOf(o[a + 1])]

LEMMA NoChangeNoOther ==
    ASSUME NEW a \in Nat, NEW c \in Nat \ {0}, NEW N \in Nat, a + c <= N,
           NEW streams, NEW o, DOMAIN o = 1..N, a + 2..a + c \intersect Changes(streams, o) = {}
    PROVE  OneStream(streams, o, a, c)
<1> DEFINE S == {k \in 1..c : streams[LineOf(o[a + k])] = streams[LineOf(o[a + 1])]}
<1>1. 1 \in S OBVIOUS
<1>2. ASSUME NEW k \in 1..c - 1, k \in S PROVE k + 1 \in S
  <2> PICK j \in 1..N : j = a + k + 1 /\ j # 1 /\ j - 1 = a + k /\ j \in a + 2..a + c OBVIOUS
  <2>1. j \notin Changes(streams, o) OBVIOUS
  <2>2. streams[LineOf(o[j])] = streams[LineOf(o[j - 1])] BY <2>1 DEF Changes
  <2>3. k + 1 \in 1..c /\ a + (k + 1) = j OBVIOUS
  <2>4. streams[LineOf(o[a + k])] = streams[LineOf(o[a + 1])] BY <1>2
  <2>5. streams[LineOf(o[a + (k + 1)])] = streams[LineOf(o[a + 1])] BY <2>2, <2>3, <2>4
  <2> QED BY <2>3, <2>5
<1>3. \A k \in 1..c : k \in S
  <2>1. 1 \in Nat /\ c \in Nat OBVIOUS
  <2> HIDE DEF S
  <2> QED BY <1>1, <1>2, <2>1, UpTo
<1> QED BY <1>3 DEF OneStream

LEMMA NoChangeBetween ==
    ASSUME NEW N \in Nat, NEW a \in Nat, NEW z \in 0..N, a < z,
           NEW streams, NEW o, DOMAIN o = 1..N,
           \A j \in 1..N : a + 1 < j /\ j < z + 1 => j \notin Changes(streams, o)
    PROVE  OneStream(streams, o, a, z - a)
<1> PICK c \in Nat \ {0} : c = z - a OBVIOUS
<1>1. a + c <= N /\ a + 2..a + c \intersect Changes(streams, o) = {} OBVIOUS
<1>2. OneStream(streams, o, a, c) BY <1>1, NoChangeNoOther
<1> QED BY <1>2

LEMMA FramedIs ==
    ASSUME NEW n \in Nat, NEW streams \in [1..n -> Streams], NEW o, Ordered(o, streams, n),
           NEW starts \in SUBSET DOMAIN o, Changes(streams, o) \subseteq starts,
           NEW frames, frames = Framed(streams, o, starts)
    PROVE  \E m, cuts : Partitions(cuts, frames, m, streams, n, o)
<1> PICK N \in Nat : N = 2 * n OBVIOUS
<1> DEFINE b == Ascending(starts)
<1>1. o \in [1..N -> 1..N] /\ DOMAIN o = 1..N BY DEF Ordered
<1>2. IsFiniteSet(1..N) /\ Cardinality(1..N) = N
  <2>1. 1 \in Int /\ N \in Int OBVIOUS
  <2>2. IsFiniteSet(1..N) /\ Cardinality(1..N) = IF 1 > N THEN 0 ELSE N - 1 + 1 BY <2>1, FS_Interval
  <2> QED BY <2>2
<1>3. starts \in SUBSET (1..N) /\ starts \in SUBSET Nat /\ IsFiniteSet(starts)
  <2>1. starts \in SUBSET (1..N) BY <1>1
  <2> QED BY <1>2, <2>1, FS_Subset
<1> PICK m \in Nat : m = Cardinality(starts) BY <1>3, FS_CardinalityType
<1>4. /\ b \in [1..m -> starts]
      /\ \A i, j \in 1..m : i < j => b[i] < b[j]
      /\ \A x \in starts : \E k \in 1..m : b[k] = x
  <2>1. Rises(b, starts) BY <1>3, AscendingRises
  <2> HIDE DEF b
  <2> QED BY <2>1 DEF Rises
<1> DEFINE past(f) == IF f = m THEN N + 1 ELSE b[f + 1]
           cuts == [f \in 0..m |-> IF f = m THEN N ELSE b[f + 1] - 1]
<1>5. frames = [f \in 1..m |->
                   [stream |-> streams[LineOf(o[b[f]])],
                    payload |-> FlattenSeq([k \in 1..past(f) - b[f] |-> Piece(o[b[f] + k - 1])])]]
  <2>1. DOMAIN b = 1..m /\ Len(b) = m
    <3> HIDE DEF b
    <3> QED BY <1>4
  <2>2. Cardinality(DOMAIN o) = N BY <1>1, <1>2
  <2>3. frames = LET begins == b
                     to(f) == IF f = Len(begins) THEN Cardinality(DOMAIN o) + 1 ELSE begins[f + 1]
                 IN  [f \in DOMAIN begins |->
                        [stream |-> streams[LineOf(o[begins[f]])],
                         payload |-> FlattenSeq([k \in 1..to(f) - begins[f] |-> Piece(o[begins[f] + k - 1])])]]
    BY DEF Framed
  <2> HIDE DEF b
  <2> QED BY <2>1, <2>2, <2>3
<1> HIDE DEF b
<1>6. \A f \in 1..m : b[f] \in 1..N BY <1>3, <1>4
<1>7. \A f \in 1..m : f # m => f + 1 \in 1..m /\ b[f] < b[f + 1]
  <2>1. \A f \in 1..m : f # m => f + 1 \in 1..m /\ f < f + 1 OBVIOUS
  <2> QED BY <1>4, <2>1
<1>8. \A f \in 1..m : past(f) - 1 = cuts[f] /\ cuts[f - 1] = b[f] - 1
  <2>1. \A f \in 1..m : f \in 0..m /\ f - 1 \in 0..m /\ f - 1 # m /\ f - 1 + 1 = f OBVIOUS
  <2>2. \A f \in 1..m : f # m => b[f + 1] \in 1..N BY <1>6, <1>7
  <2> QED BY <2>1, <2>2
<1>9. ASSUME N > 0 PROVE m > 0 /\ b[1] = 1
  <2>1. 1 \in starts
    <3>1. 1 \in DOMAIN o BY <1>1, <1>9
    <3> QED BY <3>1 DEF Changes
  <2>2. PICK k \in 1..m : b[k] = 1 BY <1>4, <2>1
  <2>3. 1 \in 1..m BY <2>2
  <2>4. k = 1
    <3> SUFFICES ASSUME 1 < k PROVE FALSE OBVIOUS
    <3>1. b[1] < b[k] BY <1>4, <2>3
    <3> QED BY <1>6, <2>2, <2>3, <3>1
  <2> QED BY <2>2, <2>4
<1>10. cuts \in [0..m -> 0..N] /\ cuts[m] = N /\ cuts[0] = 0
  <2>1. ASSUME NEW f \in 0..m PROVE cuts[f] \in 0..N
    <3>1. CASE f = m BY <3>1
    <3>2. CASE f # m
      <4>1. f + 1 \in 1..m BY <3>2
      <4>2. b[f + 1] \in 1..N BY <1>6, <4>1
      <4> QED BY <3>2, <4>2
    <3> QED BY <3>1, <3>2
  <2>2. cuts[m] = N OBVIOUS
  <2>3. cuts[0] = 0
    <3>1. CASE m = 0
      <4>1. N = 0 BY <1>9, <3>1
      <4> QED BY <3>1, <4>1
    <3>2. CASE m # 0
      <4>1. N > 0 BY <1>6, <3>2
      <4>2. 0 \in 0..m /\ 0 + 1 = 1 OBVIOUS
      <4> QED BY <1>9, <3>2, <4>1, <4>2
    <3> QED BY <3>1, <3>2
  <2> QED BY <2>1, <2>2, <2>3
<1>11. \A f \in 1..m : cuts[f - 1] < cuts[f]
  <2>1. \A f \in 1..m : b[f] - 1 < past(f) - 1 BY <1>6, <1>7
  <2> HIDE DEF cuts, past
  <2> QED BY <1>8, <2>1
<1>12. ASSUME NEW f \in 1..m, NEW j \in 1..N, b[f] < j, j < past(f) PROVE j \notin starts
  <2> SUFFICES ASSUME j \in starts PROVE FALSE OBVIOUS
  <2>1. PICK i \in 1..m : b[i] = j BY <1>4
  <2>2. f < i
    <3> SUFFICES ASSUME i <= f PROVE FALSE OBVIOUS
    <3>1. i = f \/ b[i] < b[f] BY <1>4
    <3> QED BY <1>6, <1>12, <2>1, <3>1
  <2>3. f # m BY <2>2
  <2>4. f + 1 \in 1..m /\ j < b[f + 1] BY <1>12, <2>3
  <2>5. i = f + 1 \/ f + 1 < i BY <2>2
  <2>6. i = f + 1 \/ b[f + 1] < b[i] BY <1>4, <2>4, <2>5
  <2> QED BY <1>6, <2>1, <2>4, <2>6
<1>13. ASSUME NEW f \in 1..m PROVE FrameOf(frames[f], streams, o, cuts[f - 1], cuts[f])
  <2> PICK a \in Nat : a = b[f] - 1 BY <1>6
  <2> PICK z \in 0..N : z = cuts[f]
    <3>1. f \in 0..m OBVIOUS
    <3> HIDE DEF cuts, past
    <3> QED BY <1>10, <3>1
  <2> PICK p \in Nat : p = past(f)
    <3>1. past(f) \in Nat BY <1>6, <1>7
    <3> HIDE DEF cuts, past
    <3> QED BY <3>1
  <2>1. a = cuts[f - 1] /\ p = z + 1 /\ b[f] = a + 1 /\ a < z
    <3>1. p - 1 = cuts[f] /\ cuts[f - 1] = b[f] - 1
      <4>1. past(f) - 1 = cuts[f] /\ cuts[f - 1] = b[f] - 1 BY <1>8
      <4> HIDE DEF cuts, past
      <4> QED BY <4>1
    <3> HIDE DEF cuts, past
    <3>2. cuts[f - 1] < cuts[f] BY <1>11
    <3>3. b[f] \in 1..N BY <1>6
    <3> QED BY <3>1, <3>2, <3>3
  <2> HIDE DEF cuts
  <2>0. frames[f] = [stream |-> frames[f].stream, payload |-> frames[f].payload] BY <1>5
  <2>2. frames[f].stream = streams[LineOf(o[a + 1])]
    <3>1. frames[f].stream = streams[LineOf(o[b[f]])] BY <1>5
    <3> HIDE DEF past
    <3> QED BY <2>1, <3>1
  <2>3. frames[f].payload = FlattenSeq([k \in 1..z - a |-> Piece(o[a + k])])
    <3>1. frames[f].payload = FlattenSeq([k \in 1..past(f) - b[f] |-> Piece(o[b[f] + k - 1])]) BY <1>5
    <3> HIDE DEF past
    <3>2. past(f) - b[f] = z - a BY <2>1
    <3>3. \A k \in 1..z - a : b[f] + k - 1 = a + k BY <2>1
    <3>4. [k \in 1..past(f) - b[f] |-> Piece(o[b[f] + k - 1])] = [k \in 1..z - a |-> Piece(o[a + k])]
      BY <3>2, <3>3
    <3> QED BY <3>1, <3>4
  <2> HIDE DEF past
  <2>4. \A j \in 1..N : a + 1 < j /\ j < z + 1 => j \notin Changes(streams, o)
    <3> SUFFICES ASSUME NEW j \in 1..N, a + 1 < j, j < z + 1 PROVE j \notin Changes(streams, o) OBVIOUS
    <3>1. b[f] < j /\ j < past(f) BY <2>1
    <3> QED BY <1>12, <3>1
  <2>5. OneStream(streams, o, a, z - a)
    <3>1. a \in Nat /\ z \in 0..N /\ a < z BY <2>1
    <3>2. DOMAIN o = 1..N BY <1>1
    <3> HIDE DEF b
    <3> QED BY <2>4, <3>1, <3>2, NoChangeBetween
  <2> QED BY <2>0, <2>1, <2>2, <2>3, <2>5 DEF FrameOf, OneStream
<1>14. DOMAIN frames = 1..m /\ Len(frames) = m BY <1>5
<1> HIDE DEF cuts, past
<1>15. Partitions(cuts, frames, m, streams, n, o) BY <1>10, <1>11, <1>13, <1>14 DEF Partitions
<1> QED BY <1>15

-----------------------------------------------------------------------------
(* The decoder goes from frame to frame. *)
Nothing == [entries |-> <<>>, buffers |-> [s \in Streams |-> <<>>]]

Decodes(h, frames, m, out) ==
    /\ h \in [0..m -> Accs]
    /\ h[0] = Nothing
    /\ \A f \in 1..m : h[f] = AppendText(h[f - 1], frames[f].stream, frames[f].payload)
    /\ out = Flush(h[m])

LEMMA DemuxTrace ==
    ASSUME ~WideChars, NEW tty \in BOOLEAN, NEW wire, NEW frames, frames = Received(wire, tty),
           NEW m \in Nat, m = Len(frames),
           \A f \in 1..m : frames[f].stream \in Streams /\ frames[f].payload \in Seq(Tokens)
                           /\ (tty => frames[f].stream = "stdout")
    PROVE  \E h : Decodes(h, frames, m, Demux(wire, tty))
<1> DEFINE next(acc, f) == AppendText(acc, frames[f].stream, frames[f].payload)
           G == [f \in 0 + 1..m |-> [x \in Accs |-> next(x, f)]]
           h == CHOOSE g : g = [f \in 0..m |->
                    IF f = 0 THEN Nothing
                    ELSE IF tty THEN AppendText(g[f - 1], "stdout", frames[f].payload)
                    ELSE AppendText(g[f - 1], frames[f].stream, DecodeFrame(frames[f].payload))]
<1>1. G \in [0 + 1..m -> [Accs -> Accs]]
  <2>1. \A f \in 0 + 1..m : \A x \in Accs : next(x, f) \in Accs
    <3> SUFFICES ASSUME NEW f \in 0 + 1..m, NEW x \in Accs PROVE next(x, f) \in Accs OBVIOUS
    <3>1. frames[f].stream \in Streams /\ frames[f].payload \in Seq(Tokens) OBVIOUS
    <3> QED BY <3>1, TextType
  <2> HIDE DEF next
  <2> QED BY <2>1
<1>2. Nothing \in Accs
  <2>1. <<>> \in Seq(Entries) /\ [s \in Streams |-> <<>>] \in [Streams -> Seq(Tokens)] OBVIOUS
  <2> QED BY <2>1 DEF Nothing, Accs
<1>3. PICK g : g \in [0..m -> Accs] /\ g[0] = Nothing /\ \A f \in 1..m : g[f] = G[f][g[f - 1]]
  <2>1. 0 \in Nat /\ 0 <= m /\ 0 + 1 = 1 OBVIOUS
  <2> HIDE DEF G
  <2> PICK a \in Accs : a = Nothing BY <1>2
  <2>2. PICK g : Iterates(g, Accs, 0, m, a, G) BY <1>1, <2>1, Recursion
  <2> QED BY <2>1, <2>2 DEF Iterates
<1>4. \A f \in 0..m : f # 0 => f \in 1..m /\ f - 1 \in 0..m OBVIOUS
<1>5. \A f \in 1..m : g[f] = next(g[f - 1], f)
  <2>1. \A f \in 1..m : g[f - 1] \in Accs BY <1>3
  <2>2. \A f \in 1..m : G[f][g[f - 1]] = next(g[f - 1], f) BY <2>1
  <2> HIDE DEF G, next
  <2> QED BY <1>3, <2>2
<1>6. \A f \in 1..m : DecodeFrame(frames[f].payload) = frames[f].payload
  <2> SUFFICES ASSUME NEW f \in 1..m PROVE DecodeFrame(frames[f].payload) = frames[f].payload OBVIOUS
  <2> PICK p \in Seq(Tokens) : p = frames[f].payload OBVIOUS
  <2>1. DecodeFrame(p) = [t \in DOMAIN p |-> p[t]] BY DEF DecodeFrame
  <2>2. [t \in DOMAIN p |-> p[t]] = p OBVIOUS
  <2> QED BY <2>1, <2>2
<1>7. g = [f \in 0..m |->
              IF f = 0 THEN Nothing
              ELSE IF tty THEN AppendText(g[f - 1], "stdout", frames[f].payload)
              ELSE AppendText(g[f - 1], frames[f].stream, DecodeFrame(frames[f].payload))]
  <2>1. \A f \in 1..m : tty => next(g[f - 1], f) = AppendText(g[f - 1], "stdout", frames[f].payload) OBVIOUS
  <2>2. \A f \in 1..m : next(g[f - 1], f) = AppendText(g[f - 1], frames[f].stream, DecodeFrame(frames[f].payload))
    BY <1>6
  <2> HIDE DEF next, G
  <2> QED BY <1>3, <1>4, <1>5, <2>1, <2>2
<1>8. h = [f \in 0..m |->
              IF f = 0 THEN Nothing
              ELSE IF tty THEN AppendText(h[f - 1], "stdout", frames[f].payload)
              ELSE AppendText(h[f - 1], frames[f].stream, DecodeFrame(frames[f].payload))]
  <2> HIDE DEF G, next
  <2> QED BY <1>7
<1>9. Demux(wire, tty) = Flush(h[m]) BY DEF Demux, Nothing
<1> HIDE DEF h
<1> DEFINE S == {f \in 0..m : h[f] = g[f]}
<1>10. \A f \in 0..m : f \in S
  <2>1. 0 \in S BY <1>3, <1>8
  <2>2. ASSUME NEW f \in 0..m - 1, f \in S PROVE f + 1 \in S
    <3> PICK j \in 0..m : j = f + 1 /\ j # 0 /\ j - 1 = f OBVIOUS
    <3>1. h[j - 1] = g[j - 1] BY <2>2
    <3>2. h[j] = g[j] BY <1>7, <1>8, <3>1
    <3> QED BY <3>2
  <2>3. 0 \in Nat OBVIOUS
  <2> HIDE DEF S
  <2> QED BY <2>1, <2>2, <2>3, UpTo
<1>11. Demux(wire, tty) = Flush(g[m])
  <2>1. m \in 0..m OBVIOUS
  <2> HIDE DEF G, next
  <2> QED BY <1>9, <1>10, <2>1
<1>12. Decodes(g, frames, m, Demux(wire, tty)) BY <1>3, <1>5, <1>11 DEF Decodes
<1> QED BY <1>12

LEMMA NothingShows ==
    ASSUME NEW n \in Nat, NEW streams \in [1..n -> Streams], NEW o
    PROVE  Shown(Nothing, streams, n, Came(o, 0))
<1>1. Came(o, 0) = {} BY DEF Came
<1>2. Nothing \in Accs
  <2>1. <<>> \in Seq(Entries) /\ [s \in Streams |-> <<>>] \in [Streams -> Seq(Tokens)] OBVIOUS
  <2> QED BY <2>1 DEF Nothing, Accs
<1>3. Nothing.entries = <<>> /\ \A s \in Streams : Nothing.buffers[s] = <<>> BY DEF Nothing
<1>4. Len(<<>>) = 0 OBVIOUS
<1>5. Finished(<<>>, 0, streams, n, {}) BY DEF Finished
<1>6. \A l \in 1..n : ~Open(l, {}) BY DEF Open
<1>7. Shown(Nothing, streams, n, {}) BY <1>2, <1>3, <1>4, <1>5, <1>6 DEF Shown
<1> QED BY <1>1, <1>7

Steps(h, frames, q) ==
    h[0] = Nothing /\ \A f \in 1..q : h[f] = AppendText(h[f - 1], frames[f].stream, frames[f].payload)

LEMMA DecodedShows ==
    ASSUME NEW n \in Nat, NEW streams \in [1..n -> Streams], NEW o, Ordered(o, streams, n),
           NEW cuts, NEW frames, NEW m, Partitions(cuts, frames, m, streams, n, o),
           NEW q \in 0..m, NEW h, Steps(h, frames, q)
    PROVE  Shown(h[q], streams, n, Came(o, cuts[q]))
<1>0. h[0] = Nothing /\ \A f \in 1..q : h[f] = AppendText(h[f - 1], frames[f].stream, frames[f].payload)
  BY DEF Steps
<1>1. m \in Nat /\ cuts \in [0..m -> 0..2 * n] /\ cuts[0] = 0 BY DEF Partitions
<1>2. \A f \in 1..m : cuts[f - 1] < cuts[f] /\ FrameOf(frames[f], streams, o, cuts[f - 1], cuts[f])
  BY DEF Partitions
<1> DEFINE S == {f \in 0..q : Shown(h[f], streams, n, Came(o, cuts[f]))}
<1>3. 0 \in S
  <2>1. Shown(h[0], streams, n, Came(o, 0)) BY <1>0, NothingShows
  <2> QED BY <1>1, <2>1
<1>4. ASSUME NEW k \in 0..q - 1, k \in S PROVE k + 1 \in S
  <2> PICK j \in 1..q : j = k + 1 /\ j - 1 = k /\ j \in 1..m /\ k \in 0..m /\ j \in 0..m BY <1>1
  <2> PICK a \in 0..2 * n : a = cuts[k] BY <1>1
  <2> PICK b \in 0..2 * n : b = cuts[j] BY <1>1
  <2> PICK acc : acc = h[k] OBVIOUS
  <2> PICK frame : frame = frames[j] OBVIOUS
  <2>1. a < b /\ FrameOf(frame, streams, o, a, b) BY <1>2
  <2>2. Shown(acc, streams, n, Came(o, a)) BY <1>4
  <2>3. Shown(AppendText(acc, frame.stream, frame.payload), streams, n, Came(o, b)) BY <2>1, <2>2, FrameShows
  <2>4. h[j] = AppendText(acc, frame.stream, frame.payload) BY <1>0
  <2>5. Shown(h[j], streams, n, Came(o, cuts[j])) BY <2>3, <2>4
  <2> QED BY <2>5
<1>5. \A f \in 0..q : f \in S
  <2>1. 0 \in Nat /\ q \in Nat BY <1>1
  <2> HIDE DEF S
  <2> QED BY <1>3, <1>4, <2>1, UpTo
<1>6. q \in 0..q BY <1>1
<1> QED BY <1>5, <1>6

-----------------------------------------------------------------------------
(* At the end what is left in the buffers becomes entries. *)
Presentable(entries, m, streams, n) ==
    /\ \A i \in 1..m :
           LET l == LineIn(entries[i]) IN
           l \in 1..n /\ entries[i].text \in {HeadOf(l), Whole(l)} /\ entries[i].stream = streams[l]
    /\ \A i, j \in 1..m :
           i < j /\ entries[i].stream = entries[j].stream => LineIn(entries[i]) < LineIn(entries[j])

Flushable(acc, streams, n) ==
    /\ acc \in Accs
    /\ \A s \in Streams : acc.buffers[s] = <<>> \/
           \E l \in 1..n : /\ acc.buffers[s] = HeadOf(l) /\ streams[l] = s
                           /\ \A i \in 1..Len(acc.entries) :
                                  acc.entries[i].stream = s => LineIn(acc.entries[i]) < l
    /\ Presentable(acc.entries, Len(acc.entries), streams, n)

LEMMA NewlineFlushes ==
    ASSUME NEW n \in Nat, NEW streams \in [1..n -> Streams], NEW acc, Flushable(acc, streams, n),
           NEW s \in Streams
    PROVE  Flushable(AppendToken(acc, s, Newline), streams, n)
<1> PICK next : next = AppendToken(acc, s, Newline) OBVIOUS
<1>1. acc \in Accs /\ Newline \in Tokens BY TokensAre DEF Flushable
<1>2. next \in Accs /\ AfterToken(next, acc, s, Newline) BY <1>1, AppendTokenGives
<1>3. CASE acc.buffers[s] = <<>>
  <2>1. next = acc BY <1>2, <1>3 DEF AfterToken
  <2> QED BY <2>1
<1>4. CASE acc.buffers[s] # <<>>
  <2>1. PICK l \in 1..n : /\ acc.buffers[s] = HeadOf(l) /\ streams[l] = s
                          /\ \A i \in 1..Len(acc.entries) :
                                 acc.entries[i].stream = s => LineIn(acc.entries[i]) < l
    BY <1>4 DEF Flushable
  <2> PICK entry \in Entries : entry = [stream |-> s, text |-> HeadOf(l)]
    <3>1. acc.buffers[s] \in Seq(Tokens) BY <1>1 DEF Accs
    <3> QED BY <2>1, <3>1 DEF Entries
  <2> PICK es \in Seq(Entries) : es = acc.entries BY <1>1 DEF Accs
  <2> PICK m \in Nat : m = Len(es) OBVIOUS
  <2> PICK more : more = next.entries OBVIOUS
  <2>2. /\ \A r \in Streams : r # s => next.buffers[r] = acc.buffers[r]
        /\ next.buffers[s] = <<>>
        /\ more = Append(es, entry)
    BY <1>2, <1>4, <2>1 DEF AfterToken
  <2>3. Len(more) = m + 1 /\ more[m + 1] = entry /\ \A i \in 1..m : more[i] = es[i] BY <2>2
  <2>4. entry.stream = s /\ entry.text = HeadOf(l) /\ LineIn(entry) = l BY DEF LineIn, HeadOf
  <2>5. \A i \in 1..m : es[i].stream = s => LineIn(es[i]) < l BY <2>1
  <2>6. Presentable(es, m, streams, n) BY DEF Flushable
  <2>7. Presentable(more, m + 1, streams, n)
    <3>1. ASSUME NEW i \in 1..m + 1
          PROVE  /\ LineIn(more[i]) \in 1..n
                 /\ more[i].text \in {HeadOf(LineIn(more[i])), Whole(LineIn(more[i]))}
                 /\ more[i].stream = streams[LineIn(more[i])]
      <4>1. CASE i = m + 1 BY <2>1, <2>3, <2>4, <4>1
      <4>2. CASE i # m + 1
        <5>1. i \in 1..m /\ more[i] = es[i] BY <2>3, <4>2
        <5> QED BY <2>6, <5>1 DEF Presentable
      <4> QED BY <4>1, <4>2
    <3>2. ASSUME NEW i \in 1..m + 1, NEW j \in 1..m + 1, i < j, more[i].stream = more[j].stream
          PROVE  LineIn(more[i]) < LineIn(more[j])
      <4>1. i \in 1..m /\ more[i] = es[i] BY <2>3, <3>2
      <4>2. CASE j = m + 1 BY <2>3, <2>4, <2>5, <3>2, <4>1, <4>2
      <4>3. CASE j # m + 1
        <5>1. j \in 1..m /\ more[j] = es[j] BY <2>3, <4>3
        <5> QED BY <2>6, <3>2, <4>1, <5>1 DEF Presentable
      <4> QED BY <4>2, <4>3
    <3> QED BY <3>1, <3>2 DEF Presentable
  <2>8. ASSUME NEW r \in Streams, next.buffers[r] # <<>>
        PROVE  \E k \in 1..n : /\ next.buffers[r] = HeadOf(k) /\ streams[k] = r
                               /\ \A i \in 1..m + 1 : more[i].stream = r => LineIn(more[i]) < k
    <3>1. r # s /\ next.buffers[r] = acc.buffers[r] BY <2>2, <2>8
    <3>2. PICK k \in 1..n : /\ acc.buffers[r] = HeadOf(k) /\ streams[k] = r
                            /\ \A i \in 1..m : es[i].stream = r => LineIn(es[i]) < k
      BY <2>8, <3>1 DEF Flushable
    <3>3. ASSUME NEW i \in 1..m + 1, more[i].stream = r PROVE LineIn(more[i]) < k
      <4>1. i # m + 1 BY <2>3, <2>4, <3>1, <3>3
      <4>2. i \in 1..m /\ more[i] = es[i] BY <2>3, <4>1
      <4> QED BY <3>2, <3>3, <4>2
    <3> QED BY <3>1, <3>2, <3>3
  <2>9. Flushable(next, streams, n) BY <1>2, <2>3, <2>7, <2>8 DEF Flushable
  <2> QED BY <2>9
<1> QED BY <1>3, <1>4

LEMMA FlushIs ==
    ASSUME NEW acc \in Accs
    PROVE  Flush(acc) = AppendToken(AppendToken(acc, "stdout", Newline), "stderr", Newline).entries
<1>1. "stdout" \in Streams /\ "stderr" \in Streams /\ Newline \in Tokens BY TokensAre DEF Streams
<1> PICK mid : mid = AppendToken(acc, "stdout", Newline) OBVIOUS
<1>2. mid \in Accs BY <1>1, AppendTokenGives
<1>3. AppendText(acc, "stdout", <<Newline>>) = mid BY <1>1, TextOne
<1>4. AppendText(mid, "stderr", <<Newline>>) = AppendToken(mid, "stderr", Newline) BY <1>1, <1>2, TextOne
<1> QED BY <1>3, <1>4 DEF Flush

LEMMA ShownIsFlushable ==
    ASSUME NEW n \in Nat, NEW streams \in [1..n -> Streams], NEW D, Closed(D, streams, n),
           NEW acc, Shown(acc, streams, n, D)
    PROVE  Flushable(acc, streams, n)
<1> PICK es : es = acc.entries OBVIOUS
<1>1. acc \in Accs /\ Finished(es, Len(es), streams, n, D) /\ es \in Seq(Entries) BY DEF Shown, Accs
<1> PICK m \in Nat : m = Len(es) BY <1>1
<1>2. ASSUME NEW i \in 1..m
      PROVE  /\ LineIn(es[i]) \in 1..n /\ 2 * LineIn(es[i]) \in D
             /\ es[i].text = Whole(LineIn(es[i])) /\ es[i].stream = streams[LineIn(es[i])]
  <2> PICK l : l = LineIn(es[i]) OBVIOUS
  <2>1. l \in 1..n /\ 2 * l \in D /\ es[i] = [stream |-> streams[l], text |-> Whole(l)]
    BY <1>1 DEF Finished
  <2>2. es[i].text = Whole(l) /\ es[i].stream = streams[l] BY <2>1
  <2> QED BY <2>1, <2>2
<1>3. Presentable(es, m, streams, n) BY <1>1, <1>2 DEF Presentable, Finished
<1>4. ASSUME NEW s \in Streams, acc.buffers[s] # <<>>
      PROVE  \E l \in 1..n : /\ acc.buffers[s] = HeadOf(l) /\ streams[l] = s
                             /\ \A i \in 1..m : es[i].stream = s => LineIn(es[i]) < l
  <2>1. PICK l \in 1..n : acc.buffers[s] = HeadOf(l) /\ streams[l] = s /\ Open(l, D) BY <1>4 DEF Shown
  <2>2. ASSUME NEW i \in 1..m, es[i].stream = s PROVE LineIn(es[i]) < l
    <3> PICK k \in 1..n : k = LineIn(es[i]) BY <1>2
    <3>1. 2 * k \in D /\ streams[k] = s /\ 2 * l \notin D BY <1>2, <2>1, <2>2 DEF Open
    <3> SUFFICES ASSUME l <= k PROVE FALSE OBVIOUS
    <3>2. l # k BY <3>1
    <3>3. 2 * l < 2 * k /\ 2 * l \in 1..2 * n /\ 2 * k \in 1..2 * n BY <3>2
    <3>4. LineOf(2 * l) = l /\ LineOf(2 * k) = k BY LineOfIs
    <3> QED BY <2>1, <3>1, <3>3, <3>4 DEF Closed
  <2> QED BY <2>1, <2>2
<1> QED BY <1>1, <1>3, <1>4 DEF Flushable

(* When not everything came, heads may be left. *)
LEMMA CutDelivers ==
    ASSUME NEW n \in Nat, NEW streams \in [1..n -> Streams], NEW acc, Flushable(acc, streams, n),
           NEW cut, cut
    PROVE  \E m : Delivers(Flush(acc), m, streams, n, cut)
<1>1. "stdout" \in Streams /\ "stderr" \in Streams BY DEF Streams
<1> PICK x : x = AppendToken(acc, "stdout", Newline) OBVIOUS
<1> PICK y : y = AppendToken(x, "stderr", Newline) OBVIOUS
<1>2. Flushable(x, streams, n) BY <1>1, NewlineFlushes
<1>3. Flushable(y, streams, n) BY <1>1, <1>2, NewlineFlushes
<1> PICK es : es = y.entries OBVIOUS
<1>4. Flush(acc) = es BY FlushIs DEF Flushable
<1>5. es \in Seq(Entries) /\ Presentable(es, Len(es), streams, n) BY <1>3 DEF Flushable, Accs
<1> PICK m \in Nat : m = Len(es) BY <1>5
<1>6. es \in [1..m -> Entries] BY <1>5
<1>7. ASSUME NEW i \in 1..m
      PROVE  /\ LineIn(es[i]) \in 1..n
             /\ es[i].text \in {HeadOf(LineIn(es[i])), Whole(LineIn(es[i]))}
             /\ es[i].stream = streams[LineIn(es[i])]
  BY <1>5 DEF Presentable
<1>8. ASSUME NEW i \in 1..m, NEW j \in 1..m, i < j
      PROVE  /\ LineIn(es[i]) # LineIn(es[j])
             /\ es[i].stream = es[j].stream => LineIn(es[i]) < LineIn(es[j])
  <2>1. es[i].stream = es[j].stream => LineIn(es[i]) < LineIn(es[j]) BY <1>5, <1>8 DEF Presentable
  <2>2. LineIn(es[i]) # LineIn(es[j])
    <3> SUFFICES ASSUME LineIn(es[i]) = LineIn(es[j]) PROVE FALSE OBVIOUS
    <3>1. es[i].stream = es[j].stream BY <1>7
    <3> QED BY <1>7, <2>1, <3>1
  <2> QED BY <2>1, <2>2
<1>9. Delivers(es, m, streams, n, cut) BY <1>6, <1>7, <1>8 DEF Delivers
<1> QED BY <1>4, <1>9

LEMMA AllCame ==
    ASSUME NEW n \in Nat, NEW streams, NEW o, Ordered(o, streams, n)
    PROVE  Came(o, 2 * n) = 1..2 * n
<1> PICK N \in Nat : N = 2 * n OBVIOUS
<1>1. o \in [1..N -> 1..N] /\ \A p \in 1..N : \E i \in 1..N : o[i] = p BY DEF Ordered
<1>2. {o[j] : j \in 1..N} = 1..N BY <1>1
<1> QED BY <1>2 DEF Came

LEMMA AllEmpty ==
    ASSUME NEW n \in Nat, NEW streams \in [1..n -> Streams], NEW acc, Shown(acc, streams, n, 1..2 * n)
    PROVE  acc \in Accs /\ (\A s \in Streams : acc.buffers[s] = <<>>) /\ Flush(acc) = acc.entries
<1>1. acc \in Accs BY DEF Shown
<1>2. \A l \in 1..n : ~Open(l, 1..2 * n) BY DEF Open
<1>3. \A s \in Streams : acc.buffers[s] = <<>> BY <1>2 DEF Shown
<1>4. "stdout" \in Streams /\ "stderr" \in Streams /\ Newline \in Tokens BY TokensAre DEF Streams
<1>5. AppendToken(acc, "stdout", Newline) = acc BY <1>3, <1>4 DEF AppendToken
<1>6. AppendToken(acc, "stderr", Newline) = acc BY <1>3, <1>4 DEF AppendToken
<1> QED BY <1>1, <1>3, <1>5, <1>6, FlushIs

LEMMA AllDelivers ==
    ASSUME NEW n \in Nat, NEW streams \in [1..n -> Streams], NEW acc, Shown(acc, streams, n, 1..2 * n),
           NEW cut
    PROVE  \E m : Delivers(Flush(acc), m, streams, n, cut)
<1> PICK es : es = acc.entries OBVIOUS
<1> PICK D : D = 1..2 * n OBVIOUS
<1>1. Flush(acc) = es BY AllEmpty
<1>2. acc \in Accs /\ Finished(es, Len(es), streams, n, D) /\ es \in Seq(Entries) BY DEF Shown, Accs
<1> PICK m \in Nat : m = Len(es) BY <1>2
<1>3. es \in [1..m -> Entries] BY <1>2
<1>4. ASSUME NEW i \in 1..m
      PROVE  /\ LineIn(es[i]) \in 1..n
             /\ es[i].text = Whole(LineIn(es[i])) /\ es[i].stream = streams[LineIn(es[i])]
  <2> PICK l : l = LineIn(es[i]) OBVIOUS
  <2>1. l \in 1..n /\ es[i] = [stream |-> streams[l], text |-> Whole(l)] BY <1>2 DEF Finished
  <2>2. es[i].text = Whole(l) /\ es[i].stream = streams[l] BY <2>1
  <2> QED BY <2>1, <2>2
<1>5. ASSUME NEW i \in 1..m, NEW j \in 1..m, i < j
      PROVE  /\ LineIn(es[i]) # LineIn(es[j])
             /\ es[i].stream = es[j].stream => LineIn(es[i]) < LineIn(es[j])
  <2>1. es[i].stream = es[j].stream => LineIn(es[i]) < LineIn(es[j]) BY <1>2, <1>5 DEF Finished
  <2>2. LineIn(es[i]) # LineIn(es[j])
    <3> SUFFICES ASSUME LineIn(es[i]) = LineIn(es[j]) PROVE FALSE OBVIOUS
    <3>1. es[i].stream = es[j].stream BY <1>4
    <3> QED BY <1>4, <2>1, <3>1
  <2> QED BY <2>1, <2>2
<1>6. \A l \in 1..n : \E i \in 1..m : LineIn(es[i]) = l
  <2>1. \A l \in 1..n : 2 * l \in D OBVIOUS
  <2> QED BY <1>2, <2>1 DEF Finished
<1>7. Delivers(es, m, streams, n, cut) BY <1>3, <1>4, <1>5, <1>6 DEF Delivers
<1> QED BY <1>1, <1>7

(* A log that ends without a newline reads like one that ends with it.     *)
LEMMA UnendedFlushes ==
    ASSUME NEW acc \in Accs, NEW s \in Streams, NEW next, next = AppendToken(acc, s, Newline),
           \A r \in Streams : next.buffers[r] = <<>>
    PROVE  Flush(acc) = next.entries
<1>1. "stdout" \in Streams /\ "stderr" \in Streams /\ Newline \in Tokens BY TokensAre DEF Streams
<1>2. next \in Accs /\ AfterToken(next, acc, s, Newline) BY <1>1, AppendTokenGives
<1>3. \A r \in Streams : AppendToken(next, r, Newline) = next BY DEF AppendToken
<1>4. \A r \in Streams : r # s => acc.buffers[r] = <<>> BY <1>2 DEF AfterToken
<1>5. \A r \in Streams : r # s => AppendToken(acc, r, Newline) = acc BY <1>4 DEF AppendToken
<1>6. s = "stdout" \/ s = "stderr" BY DEF Streams
<1>7. "stdout" # "stderr" OBVIOUS
<1>8. AppendToken(AppendToken(acc, "stdout", Newline), "stderr", Newline) = next
  BY <1>1, <1>3, <1>5, <1>6, <1>7
<1> QED BY <1>8, FlushIs

-----------------------------------------------------------------------------
(* Whatever of the frames arrives, the decoder delivers.                   *)
Sent(frames, m, cuts, streams, n, o, tty) ==
    /\ n \in Nat /\ streams \in [1..n -> Streams] /\ (tty => \A l \in 1..n : streams[l] = "stdout")
    /\ Ordered(o, streams, n) /\ Partitions(cuts, frames, m, streams, n, o)

LEMMA FramingIs ==
    ASSUME NEW n \in Nat, NEW streams \in [1..n -> Streams], NEW tty,
           tty => \A l \in 1..n : streams[l] = "stdout", NEW frames \in Framings(streams)
    PROVE  \E m, cuts, o : Sent(frames, m, cuts, streams, n, o, tty)
<1> PICK o \in Orders(streams) : frames \in {Framed(streams, o, starts) :
             starts \in {S \in SUBSET DOMAIN o : Changes(streams, o) \subseteq S}}
  BY DEF Framings
<1> PICK starts \in SUBSET DOMAIN o : Changes(streams, o) \subseteq starts /\ frames = Framed(streams, o, starts)
  OBVIOUS
<1>1. Ordered(o, streams, n) BY OrdersIs
<1> PICK m, cuts : Partitions(cuts, frames, m, streams, n, o) BY <1>1, FramedIs
<1> QED BY <1>1 DEF Sent

LEMMA SentTyped ==
    ASSUME NEW frames, NEW m, NEW cuts, NEW streams, NEW n, NEW o, NEW tty,
           Sent(frames, m, cuts, streams, n, o, tty), NEW f \in 1..m
    PROVE  /\ frames[f] = [stream |-> frames[f].stream, payload |-> frames[f].payload]
           /\ frames[f].stream \in Streams /\ frames[f].payload \in Seq(Tokens)
           /\ tty => frames[f].stream = "stdout"
<1> PICK frame : frame = frames[f] OBVIOUS
<1>1. /\ n \in Nat /\ streams \in [1..n -> Streams] /\ (tty => \A l \in 1..n : streams[l] = "stdout")
      /\ Ordered(o, streams, n)
  BY DEF Sent
<1>2. m \in Nat /\ cuts \in [0..m -> 0..2 * n] BY DEF Sent, Partitions
<1> PICK a \in 0..2 * n : a = cuts[f - 1] BY <1>2
<1> PICK b \in 0..2 * n : b = cuts[f] BY <1>2
<1>3. a < b /\ FrameOf(frame, streams, o, a, b) BY DEF Sent, Partitions
<1>4. frame.stream \in Streams /\ frame.payload \in Seq(Tokens) BY <1>1, <1>3, FrameTyped
<1>5. frame.stream = streams[LineOf(o[a + 1])]
  <2>1. 1 \in 1..b - a BY <1>3
  <2> QED BY <1>3, <2>1 DEF FrameOf
<1>6. LineOf(o[a + 1]) \in 1..n
  <2> PICK j \in 1..2 * n : j = a + 1 BY <1>1, <1>3
  <2> PICK p \in 1..2 * n : p = o[j] BY <1>1 DEF Ordered
  <2>1. LineOf(p) \in 1..n BY <1>1 DEF LineOf
  <2> QED BY <2>1
<1> QED BY <1>1, <1>3, <1>4, <1>5, <1>6 DEF FrameOf

LEMMA WholeDelivers ==
    ASSUME ~WideChars, NEW frames, NEW m, NEW cuts, NEW streams, NEW n, NEW o, NEW tty \in BOOLEAN,
           Sent(frames, m, cuts, streams, n, o, tty),
           NEW wire, Received(wire, tty) = frames, NEW cut
    PROVE  \E k : Delivers(Demux(wire, tty), k, streams, n, cut)
<1>1. n \in Nat /\ streams \in [1..n -> Streams] /\ Ordered(o, streams, n) BY DEF Sent
<1>2. m \in Nat /\ m = Len(frames) /\ Partitions(cuts, frames, m, streams, n, o) /\ cuts[m] = 2 * n
  BY DEF Sent, Partitions
<1>3. \A f \in 1..m : frames[f].stream \in Streams /\ frames[f].payload \in Seq(Tokens)
                      /\ (tty => frames[f].stream = "stdout")
  BY SentTyped
<1> PICK h : Decodes(h, frames, m, Demux(wire, tty)) BY <1>2, <1>3, DemuxTrace
<1>4. m \in 0..m /\ Demux(wire, tty) = Flush(h[m]) /\ Steps(h, frames, m)
  BY <1>2 DEF Decodes, Steps
<1>5. Shown(h[m], streams, n, Came(o, cuts[m])) BY <1>1, <1>2, <1>4, DecodedShows
<1>6. Shown(h[m], streams, n, 1..2 * n) BY <1>1, <1>2, <1>4, <1>5, AllCame
<1> PICK acc : acc = h[m] OBVIOUS
<1>7. \E k : Delivers(Flush(acc), k, streams, n, cut) BY <1>1, <1>6, AllDelivers
<1> QED BY <1>4, <1>7

LEMMA FrontDelivers ==
    ASSUME ~WideChars, NEW frames, NEW m, NEW cuts, NEW streams, NEW n, NEW o, NEW tty \in BOOLEAN,
           Sent(frames, m, cuts, streams, n, o, tty), m > 0,
           NEW wire, Received(wire, tty) = Front(frames), NEW cut, cut
    PROVE  \E k : Delivers(Demux(wire, tty), k, streams, n, cut)
<1>1. n \in Nat /\ streams \in [1..n -> Streams] /\ Ordered(o, streams, n) BY DEF Sent
<1>2. /\ m \in Nat /\ m = Len(frames) /\ DOMAIN frames = 1..m
      /\ Partitions(cuts, frames, m, streams, n, o) /\ cuts \in [0..m -> 0..2 * n]
  BY DEF Sent, Partitions
<1> PICK q \in Nat : q = m - 1 /\ q \in 0..m BY <1>2
<1> PICK front : front = Front(frames) OBVIOUS
<1>3. Len(front) = q /\ \A f \in 1..q : front[f] = frames[f]
  <2>1. front = [f \in 1..q |-> frames[f]]
    <3>1. front = SubSeq(frames, 1, q) BY <1>2 DEF Front
    <3> QED BY <1>2, <3>1
  <2> QED BY <2>1
<1>4. \A f \in 1..q : front[f].stream \in Streams /\ front[f].payload \in Seq(Tokens)
                      /\ (tty => front[f].stream = "stdout")
  <2> SUFFICES ASSUME NEW f \in 1..q
               PROVE  front[f].stream \in Streams /\ front[f].payload \in Seq(Tokens)
                      /\ (tty => front[f].stream = "stdout")
    OBVIOUS
  <2>1. f \in 1..m /\ front[f] = frames[f] BY <1>2, <1>3
  <2>2. frames[f].stream \in Streams /\ frames[f].payload \in Seq(Tokens) /\ (tty => frames[f].stream = "stdout")
    BY <2>1, SentTyped
  <2> QED BY <2>1, <2>2
<1> PICK h : Decodes(h, front, q, Demux(wire, tty)) BY <1>3, <1>4, DemuxTrace
<1>5. Demux(wire, tty) = Flush(h[q]) /\ Steps(h, frames, q) BY <1>3 DEF Decodes, Steps
<1>6. Shown(h[q], streams, n, Came(o, cuts[q])) BY <1>1, <1>2, <1>5, DecodedShows
<1> PICK acc : acc = h[q] OBVIOUS
<1> PICK c \in 0..2 * n : c = cuts[q] BY <1>2
<1> PICK D : D = Came(o, c) OBVIOUS
<1>7. Shown(acc, streams, n, D) BY <1>6
<1>8. Closed(D, streams, n) BY <1>1, CameClosed
<1>9. Flushable(acc, streams, n) BY <1>1, <1>7, <1>8, ShownIsFlushable
<1>10. \E k : Delivers(Flush(acc), k, streams, n, cut) BY <1>1, <1>9, CutDelivers
<1> QED BY <1>5, <1>10

LEMMA WithoutNewline ==
    ASSUME NEW p \in Seq(Tokens), NEW r, r = IF Last(p) = Newline THEN Front(p) ELSE p
    PROVE  r \in Seq(Tokens) /\ (r = p \/ p = r \o <<Newline>>)
<1>1. CASE Last(p) # Newline BY <1>1
<1>2. CASE p = <<>>
  <2>1. Front(p) = <<>> BY <1>2 DEF Front
  <2> QED BY <1>2, <2>1
<1>3. CASE p # <<>> /\ Last(p) = Newline
  <2> PICK k \in Nat : k = Len(p) - 1 BY <1>3
  <2>1. r = SubSeq(p, 1, k) BY <1>3 DEF Front
  <2>2. r \in Seq(Tokens) /\ Len(r) = k /\ \A i \in 1..k : r[i] = p[i] BY <2>1
  <2>3. p[k + 1] = Newline /\ Len(p) = k + 1 BY <1>3 DEF Last
  <2> PICK w \in Tokens : w = Newline BY TokensAre
  <2>4. r \o <<w>> = p
    <3> DEFINE u == r \o <<w>>
    <3>1. u \in Seq(Tokens) /\ Len(u) = k + 1 /\ u[k + 1] = w /\ \A i \in 1..k : u[i] = r[i]
      <4> HIDE <2>1
      <4> QED BY <2>2
    <3> HIDE DEF u
    <3>2. \A i \in 1..Len(p) : u[i] = p[i]
      <4> SUFFICES ASSUME NEW i \in 1..k + 1 PROVE u[i] = p[i] BY <2>3
      <4>1. i = k + 1 \/ i \in 1..k OBVIOUS
      <4> QED BY <2>2, <2>3, <3>1, <4>1
    <3>3. u = p BY <2>3, <3>1, <3>2, SeqEqual
    <3> QED BY <3>3 DEF u
  <2> QED BY <2>2, <2>4
<1> QED BY <1>1, <1>2, <1>3

IsFollowedBy(t, s, e, q) == Len(t) = q + 1 /\ t[q + 1] = e /\ \A i \in 1..q : t[i] = s[i]

LEMMA AppendFollows ==
    ASSUME NEW q \in Nat, NEW g, NEW s, s = [i \in 1..q |-> g[i]], NEW e
    PROVE  IsFollowedBy(Append(s, e), s, e, q)
<1> DEFINE T == {g[i] : i \in 1..q} \union {e}
<1>1. s \in [1..q -> T] /\ e \in T OBVIOUS
<1> HIDE DEF T
<1>2. s \in Seq(T) /\ Len(s) = q BY <1>1
<1> QED BY <1>1, <1>2 DEF IsFollowedBy

LEMMA TextNewline ==
    ASSUME NEW acc \in Accs, NEW s \in Streams, NEW r \in Seq(Tokens)
    PROVE  AppendText(acc, s, r \o <<Newline>>) = AppendToken(AppendText(acc, s, r), s, Newline)
<1> PICK w \in Tokens : w = Newline BY TokensAre
<1> PICK y \in Accs : y = AppendText(acc, s, r) BY TextType
<1>1. <<w>> \in Seq(Tokens) OBVIOUS
<1>2. AppendText(acc, s, r \o <<w>>) = AppendText(y, s, <<w>>) BY <1>1, TextConcat
<1>3. AppendText(y, s, <<w>>) = AppendToken(y, s, w) BY TextOne
<1> QED BY <1>2, <1>3

LEMMA UnendedDelivers ==
    ASSUME ~WideChars, NEW frames, NEW m, NEW cuts, NEW streams, NEW n, NEW o, NEW tty \in BOOLEAN,
           Sent(frames, m, cuts, streams, n, o, tty), m > 0,
           NEW wire, Received(wire, tty) = Unended(frames), NEW cut
    PROVE  \E k : Delivers(Demux(wire, tty), k, streams, n, cut)
<1>1. n \in Nat /\ streams \in [1..n -> Streams] /\ Ordered(o, streams, n) BY DEF Sent
<1>2. /\ m \in Nat /\ m = Len(frames) /\ DOMAIN frames = 1..m
      /\ Partitions(cuts, frames, m, streams, n, o) /\ cuts \in [0..m -> 0..2 * n] /\ cuts[m] = 2 * n
  BY DEF Sent, Partitions
<1> PICK q \in Nat : q = m - 1 /\ q \in 0..m /\ m = q + 1 BY <1>2
<1> PICK last : last = frames[m] OBVIOUS
<1> PICK s \in Streams : s = last.stream
  <2>1. m \in 1..m BY <1>2
  <2> QED BY <2>1, SentTyped
<1> PICK p \in Seq(Tokens) : p = last.payload
  <2>1. m \in 1..m BY <1>2
  <2> QED BY <2>1, SentTyped
<1>3. last = [stream |-> s, payload |-> p] /\ (tty => s = "stdout")
  <2>1. m \in 1..m BY <1>2
  <2>2. frames[m] = [stream |-> frames[m].stream, payload |-> frames[m].payload] /\ (tty => frames[m].stream = "stdout")
    BY <2>1, SentTyped
  <2> QED BY <2>2
<1> PICK front : front = Front(frames) OBVIOUS
<1>4. Len(front) = q /\ front = [f \in 1..q |-> frames[f]]
  <2>1. front = [f \in 1..q |-> frames[f]]
    <3>1. front = SubSeq(frames, 1, q) BY <1>2 DEF Front
    <3> QED BY <1>2, <3>1
  <2> QED BY <2>1
<1> PICK r \in Seq(Tokens) : r = IF Last(p) = Newline THEN Front(p) ELSE p BY WithoutNewline
<1>5. Unended(frames) = Append(front, [stream |-> s, payload |-> r])
  <2>1. Last(frames) = last BY <1>2 DEF Last
  <2>2. Unended(frames) = Append(front, [last EXCEPT !.payload = IF Last(@) = Newline THEN Front(@) ELSE @])
    BY <2>1 DEF Unended
  <2>3. [last EXCEPT !.payload = IF Last(@) = Newline THEN Front(@) ELSE @] = [stream |-> s, payload |-> r]
    BY <1>3
  <2> QED BY <2>2, <2>3
<1>6. r = p \/ p = r \o <<Newline>> BY WithoutNewline
<1> PICK us : us = Unended(frames) OBVIOUS
<1>7. Len(us) = m /\ (\A f \in 1..q : us[f] = frames[f]) /\ us[m] = [stream |-> s, payload |-> r]
  <2> PICK e : e = [stream |-> s, payload |-> r] OBVIOUS
  <2>1. us = Append(front, e) BY <1>5
  <2>2. IsFollowedBy(us, front, e, q) BY <1>4, <2>1, AppendFollows
  <2>3. Len(us) = q + 1 /\ us[q + 1] = e /\ \A f \in 1..q : us[f] = front[f] BY <2>2 DEF IsFollowedBy
  <2> QED BY <1>4, <2>3
<1>8. \A f \in 1..m : us[f].stream \in Streams /\ us[f].payload \in Seq(Tokens)
                      /\ (tty => us[f].stream = "stdout")
  <2> SUFFICES ASSUME NEW f \in 1..m
               PROVE  us[f].stream \in Streams /\ us[f].payload \in Seq(Tokens)
                      /\ (tty => us[f].stream = "stdout")
    OBVIOUS
  <2>1. CASE f = m
    <3>1. us[f].stream = s /\ us[f].payload = r BY <1>7, <2>1
    <3> QED BY <1>3, <1>6, <3>1
  <2>2. CASE f # m
    <3>1. us[f] = frames[f] BY <1>7, <2>2
    <3>2. frames[f].stream \in Streams /\ frames[f].payload \in Seq(Tokens) /\ (tty => frames[f].stream = "stdout")
      BY SentTyped
    <3> QED BY <3>1, <3>2
  <2> QED BY <2>1, <2>2
<1>9. us = Received(wire, tty) /\ m = Len(us) BY <1>7
<1> PICK h : Decodes(h, us, m, Demux(wire, tty)) BY <1>2, <1>8, <1>9, DemuxTrace
<1>10. Demux(wire, tty) = Flush(h[m]) /\ h \in [0..m -> Accs] BY DEF Decodes
<1>11. Steps(h, frames, q) BY <1>2, <1>7 DEF Decodes, Steps
<1> PICK x \in Accs : x = h[q] BY <1>10
<1> PICK y \in Accs : y = h[m] BY <1>2, <1>10
<1> PICK z : z = AppendText(x, s, p) OBVIOUS
<1>12. Shown(h[q], streams, n, Came(o, cuts[q])) BY <1>1, <1>2, <1>11, DecodedShows
<1>13. Shown(z, streams, n, 1..2 * n)
  <2> PICK a \in 0..2 * n : a = cuts[q] BY <1>2
  <2> PICK b \in 0..2 * n : b = cuts[m] BY <1>2
  <2>1. m \in 1..m BY <1>2
  <2>2. a < b /\ FrameOf(last, streams, o, a, b) BY <1>2, <2>1 DEF Partitions
  <2>3. Shown(x, streams, n, Came(o, a)) BY <1>12
  <2>4. Shown(AppendText(x, last.stream, last.payload), streams, n, Came(o, b)) BY <1>1, <2>2, <2>3, FrameShows
  <2>5. Came(o, b) = 1..2 * n BY <1>1, <1>2, AllCame
  <2> QED BY <2>4, <2>5
<1>14. y = AppendText(x, s, r)
  <2>1. m \in 1..m /\ m - 1 = q BY <1>2
  <2>2. h[m] = AppendText(h[m - 1], us[m].stream, us[m].payload) BY <2>1 DEF Decodes
  <2>3. us[m].stream = s /\ us[m].payload = r BY <1>7
  <2> QED BY <2>1, <2>2, <2>3
<1>15. z \in Accs /\ (\A t \in Streams : z.buffers[t] = <<>>) /\ Flush(z) = z.entries
  BY <1>1, <1>13, AllEmpty
<1>16. Flush(y) = Flush(z)
  <2>1. CASE r = p BY <1>14, <2>1
  <2>2. CASE p = r \o <<Newline>>
    <3>1. AppendText(x, s, r \o <<Newline>>) = AppendToken(AppendText(x, s, r), s, Newline) BY TextNewline
    <3>2. z = AppendToken(y, s, Newline) BY <1>14, <2>2, <3>1
    <3>3. Flush(y) = z.entries BY <1>15, <3>2, UnendedFlushes
    <3> QED BY <1>15, <3>3
  <2> QED BY <1>6, <2>1, <2>2
<1>17. \E k : Delivers(Flush(z), k, streams, n, cut) BY <1>1, <1>13, AllDelivers
<1> QED BY <1>10, <1>16, <1>17

LEMMA WireDelivers ==
    ASSUME ~WideChars, NEW tty \in BOOLEAN, NEW n \in Nat, NEW streams \in [1..n -> Streams],
           tty => \A l \in 1..n : streams[l] = "stdout", NEW wire \in Wires(streams)
    PROVE  \E k : Delivers(Demux(wire, tty), k, streams, n, wire.cut)
<1> PICK out : out = Demux(wire, tty) OBVIOUS
<1> PICK cut : cut = wire.cut OBVIOUS
<1>1. ASSUME NEW frames \in Framings(streams), frames # <<>>,
             NEW m, NEW cuts, NEW o, Sent(frames, m, cuts, streams, n, o, tty)
      PROVE  m > 0
  <2>0. Partitions(cuts, frames, m, streams, n, o) BY <1>1 DEF Sent
  <2>1. m \in Nat /\ DOMAIN frames = 1..m /\ Len(frames) = m BY <2>0 DEF Partitions
  <2> SUFFICES ASSUME m = 0 PROVE FALSE BY <2>1
  <2>2. \E o2 \in Orders(streams) : \E starts : frames = Framed(streams, o2, starts) BY DEF Framings
  <2>3. \E S, f : frames = [x \in S |-> f[x]] BY <2>2 DEF Framed
  <2>4. frames = [x \in 1..0 |-> 0] BY <2>1, <2>3
  <2> QED BY <1>1, <2>4
<1>2. CASE wire.frames \in Framings(streams) /\ wire.cut = FALSE
  <2> PICK frames : frames = wire.frames OBVIOUS
  <2> PICK m, cuts, o : Sent(frames, m, cuts, streams, n, o, tty) BY <1>2, FramingIs
  <2>1. Received(wire, tty) = frames BY <1>2 DEF Received
  <2> QED BY <2>1, WholeDelivers
<1>3. CASE wire.cut = FALSE /\ \E w \in Framings(streams) \ {<<>>} : wire.frames = Unended(w)
  <2> PICK frames \in Framings(streams) : frames # <<>> /\ wire.frames = Unended(frames) BY <1>3
  <2> PICK m, cuts, o : Sent(frames, m, cuts, streams, n, o, tty) BY FramingIs
  <2>1. Received(wire, tty) = Unended(frames) BY <1>3 DEF Received
  <2>2. m > 0 BY <1>1
  <2> QED BY <2>1, <2>2, UnendedDelivers
<1>4. CASE wire.cut = TRUE /\ wire.frames \in Framings(streams) \ {<<>>}
  <2> PICK frames \in Framings(streams) : frames = wire.frames /\ frames # <<>> BY <1>4
  <2> PICK m, cuts, o : Sent(frames, m, cuts, streams, n, o, tty) BY FramingIs
  <2>1. m > 0 BY <1>1
  <2>2. CASE tty
    <3>1. Received(wire, tty) = frames BY <2>2 DEF Received
    <3> QED BY <3>1, WholeDelivers
  <2>3. CASE ~tty
    <3>1. Received(wire, tty) = Front(frames) BY <1>4, <2>3 DEF Received
    <3>2. wire.cut BY <1>4
    <3> QED BY <2>1, <3>1, <3>2, FrontDelivers
  <2> QED BY <2>2, <2>3
<1>5. \/ wire.frames \in Framings(streams) /\ wire.cut = FALSE
      \/ wire.cut = FALSE /\ \E w \in Framings(streams) \ {<<>>} : wire.frames = Unended(w)
      \/ wire.cut = TRUE /\ wire.frames \in Framings(streams) \ {<<>>}
  BY DEF Wires
<1> QED BY <1>2, <1>3, <1>4, <1>5

-----------------------------------------------------------------------------
(* s is what is left of k elements of T once the first off are gone. *)
HasEnd(s, k, off, j, T) == s \in [1..j -> T] /\ Len(s) = j /\ j = k - off /\ j \in Nat

LEMMA EndHas ==
    ASSUME NEW T, NEW k \in Nat, NEW s \in [1..k -> T], NEW t, NEW off, EndOf(t, s, k, off)
    PROVE  \E j : HasEnd(t, k, off, j, T)
<1>1. /\ t \in [1..Len(t) -> T] /\ Len(t) = k - off /\ Len(t) \in Nat BY EndIs
<1> QED BY <1>1 DEF HasEnd

LEMMA SentIs ==
    ASSUME NEW log \in Logs, NEW off, NEW sent, EndOf(sent, log, Len(log), off), NEW tty \in BOOLEAN,
           NEW n, n = Len(sent)
    PROVE  /\ n \in Nat /\ off \in 0..Len(log) /\ n = Len(log) - off
           /\ StreamsOf(sent, tty) \in [1..n -> Streams]
           /\ tty => \A l \in 1..n : StreamsOf(sent, tty)[l] = "stdout"
<1>1. Len(log) \in Nat /\ log \in [1..Len(log) -> Lines] BY LogIs
<1> PICK k \in Nat : k = Len(log) BY <1>1
<1>e. log \in [1..k -> Lines] /\ EndOf(sent, log, k, off) BY <1>1
<1>3. off \in 0..k BY <1>e DEF EndOf
<1> PICK j : HasEnd(sent, k, off, j, Lines) BY <1>e, EndHas
<1>2. sent \in [1..n -> Lines] /\ n = k - off /\ n \in Nat BY DEF HasEnd
<1>4. StreamsOf(sent, tty) = [i \in 1..n |-> IF tty THEN "stdout" ELSE sent[i].stream]
  BY <1>2 DEF StreamsOf
<1>8. \A i \in 1..n : sent[i].stream \in Streams BY <1>2 DEF Lines
<1>9. "stdout" \in Streams BY DEF Streams
<1> QED BY <1>2, <1>3, <1>4, <1>8, <1>9

LEMMA ReplyDelivers ==
    ASSUME ~WideChars, NEW tty \in BOOLEAN, NEW reply \in Replies, reply.tty = tty,
           NEW n \in Nat, NEW streams \in [1..n -> Streams], reply.streams = streams,
           tty => \A l \in 1..n : streams[l] = "stdout"
    PROVE  \E k : Delivers(reply.entries, k, streams, n, reply.cut)
<1>1. reply \in RepliesTo(tty)
  <2>1. \A t \in BOOLEAN : \A r \in RepliesTo(t) : r.tty = t BY DEF RepliesTo
  <2>2. PICK t \in BOOLEAN : reply \in RepliesTo(t) BY DEF Replies
  <2>3. t = tty BY <2>1, <2>2
  <2> QED BY <2>2, <2>3
<1>2. PICK wire \in Wires(streams) : reply.entries = Demux(wire, tty) /\ reply.cut = wire.cut
  <2>1. PICK ss \in StreamSeqs(tty) :
            reply \in {[tty |-> tty, streams |-> ss, cut |-> w.cut, entries |-> Demux(w, tty)] : w \in Wires(ss)}
    BY <1>1 DEF RepliesTo
  <2>2. PICK w \in Wires(ss) : reply = [tty |-> tty, streams |-> ss, cut |-> w.cut, entries |-> Demux(w, tty)]
    BY <2>1
  <2>3. ss = streams BY <2>2
  <2> QED BY <2>2, <2>3
<1>3. \E k : Delivers(Demux(wire, tty), k, streams, n, wire.cut) BY WireDelivers
<1> QED BY <1>2, <1>3

(* Whatever the log, the options, the frames and where they are cut, what  *)
(* containerLogs returns is lines of the log, each once, with its stream,  *)
(* in order, and no line asked for is missing unless the data was cut off. *)
THEOREM ReadsRight ==
    ASSUME ~WideChars, NEW tty \in BOOLEAN
    PROVE  ReadRight(tty)
<1> SUFFICES ASSUME NEW log \in Logs, NEW options \in Options,
                    NEW sent, sent = EngineSends(log, options),
                    NEW reply \in Replies, reply.tty = tty, reply.streams = StreamsOf(sent, tty),
                    NEW out, out = ReadLogs(sent, options, reply),
                    NEW line, line = [i \in DOMAIN out |-> out[i].text[1][1] + Len(log) - Len(sent)]
             PROVE  Sound(log, options, out, line, tty) /\ (~reply.cut => Complete(log, options, out, line))
  BY DEF ReadRight
<1> PICK off \in 0..Len(log) :
        /\ EndOf(sent, log, Len(log), off)
        /\ options.since # NotGiven => \A i \in 1..off : log[i].time < options.since
        /\ options.since = NotGiven =>
               off = IF options.tail # NotGiven /\ Len(log) > options.tail THEN Len(log) - options.tail ELSE 0
  BY EngineSendsEnd
<1> PICK n : n = Len(sent) OBVIOUS
<1> PICK streams : streams = StreamsOf(sent, tty) OBVIOUS
<1> PICK entries : entries = reply.entries OBVIOUS
<1> PICK cut : cut = reply.cut OBVIOUS
<1>1. /\ n \in Nat /\ off \in Nat /\ n = Len(log) - off /\ Len(log) \in Nat /\ Len(log) - n = off
      /\ streams \in [1..n -> Streams] /\ (tty => \A l \in 1..n : streams[l] = "stdout")
  <2>1. Len(log) \in Nat BY LogIs
  <2>2. /\ n \in Nat /\ off \in 0..Len(log) /\ n = Len(log) - off
        /\ streams \in [1..n -> Streams] /\ (tty => \A l \in 1..n : streams[l] = "stdout")
    BY SentIs
  <2>3. off \in Nat /\ Len(log) - n = off BY <2>1, <2>2
  <2> QED BY <2>1, <2>2, <2>3
<1> PICK m : Delivers(entries, m, streams, n, cut) BY <1>1, ReplyDelivers
<1> PICK time : time = TimesOf(sent, entries) OBVIOUS
<1>2. Reading(log, off, sent, n, entries, m, tty, cut, time) BY <1>1 DEF Reading
<1>3. time \in [1..m -> Nat] BY <1>2, ReadingTimes
<1>4. m \in Nat /\ DOMAIN entries = 1..m BY DEF Delivers
<1> PICK q : Sorts(q, sent, entries, m, time) BY <1>3, <1>4, SortedIs DEF Timed
<1>5. out = FilterLogs(sent, SortByTime(sent, entries), options) BY DEF ReadLogs
<1>t. Timed(sent, entries, m, time) BY <1>3, <1>4 DEF Timed
<1> PICK z, picks : Chosen(out, z, picks, entries, m, time, options) BY <1>5, <1>t, FilteredIs
<1>p. Picks(picks, z, out, entries, m, time, options) /\ z \in Nat
      /\ z = HowMany(options, Cardinality(Wants(options, time, m)))
  BY DEF Chosen
<1> USE <1>p
<1>6. Located(line, out, z, entries, picks, off)
  <2>1. out = [i \in 1..z |-> entries[picks[i]]] BY DEF Picks
  <2>2. \A i \in 1..z : picks[i] \in 1..m BY DEF Picks, Wants
  <2>3. \A i \in 1..m : LineIn(entries[i]) \in 1..n BY DEF Delivers
  <2>4. ASSUME NEW i \in 1..z PROVE out[i].text[1][1] + Len(log) - Len(sent) = off + LineIn(entries[picks[i]])
    <3> PICK l \in 1..n : l = LineIn(entries[picks[i]]) BY <2>2, <2>3
    <3>1. out[i].text[1][1] = l BY <2>1 DEF LineIn
    <3>2. l + Len(log) - n = off + l BY <1>1
    <3> QED BY <3>1, <3>2
  <2>5. DOMAIN out = 1..z BY <2>1
  <2>6. line = [i \in 1..z |-> off + LineIn(entries[picks[i]])] BY <2>4, <2>5
  <2> QED BY <1>1, <2>1, <2>6 DEF Located
<1>7. Sound(log, options, out, line, tty) BY <1>2, <1>6, SoundOut
<1>8. Since(log, options, off) BY DEF Since
<1>9. ASSUME ~reply.cut PROVE Complete(log, options, out, line)
  <2>1. ~cut BY <1>9
  <2> QED BY <1>2, <1>6, <1>8, <2>1, CompleteOut
<1> QED BY <1>7, <1>9

=============================================================================
