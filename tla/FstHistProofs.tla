----------------------------- MODULE FstHistProofs -----------------------------
(****************************************************************************)
(* That the transducer is the dictionary of FstDict, for every alphabet and *)
(* every set of strings and keys: the words that lead to its states, the    *)
(* strings that are stored, and the answers of the three calls.             *)
(****************************************************************************)
EXTENDS FstHist, FstProofs, SequenceTheorems

\* The inductive invariant.  Every state has a word, the empty one for state 0.
Words ==
    /\ word \in [0..fst.len -> Seq(Char)]
    /\ word[0] = <<>>

\* Whatever begins the word of a state is the word of a state too, and the
\* next character leads on from there.
PrefixClosed ==
    \A t \in 0..fst.len : \A k \in 1..Len(word[t]) :
        \E s \in 0..fst.len : \E i \in DOMAIN trans[s] :
            /\ word[s] = SubSeq(word[t], 1, k - 1)
            /\ trans[s][i].chr = word[t][k]

\* The cursor of a call stands on the state for what the call has read.
Trail ==
    pc \in {"add", "lookup"} =>
        /\ at.pos <= Len(call.str) + 1
        /\ word[at.state] = SubSeq(call.str, 1, at.pos - 1)

\* The stored string w is extended by another stored string.
Extends(w) == \E v \in Stored : Begins(w, v) /\ v # w

\* A prefix lookup has passed no stored string but those that others extend.
Passed ==
    pc = "lookup" /\ call.op = "prefix" =>
        \A w \in Stored :
            Begins(w, call.str) /\ Len(w) < at.pos - 1 => Extends(w)

HInv ==
    /\ IInv
    /\ Words
    /\ WordsNameStates
    /\ PrefixClosed
    /\ Trail
    /\ WordsInUse
    /\ Passed

-----------------------------------------------------------------------------
\* The first n elements of a sequence.
LEMMA FirstOf ==
    ASSUME NEW S, NEW s \in Seq(S), NEW n \in 0..Len(s)
    PROVE  /\ SubSeq(s, 1, n) \in Seq(S)
           /\ Len(SubSeq(s, 1, n)) = n
           /\ \A i \in 1..n : SubSeq(s, 1, n)[i] = s[i]
  OBVIOUS

\* The first n elements are the first n - 1 and the n-th.
LEMMA FirstAppended ==
    ASSUME NEW S, NEW s \in Seq(S), NEW n \in 1..Len(s)
    PROVE  SubSeq(s, 1, n) = Append(SubSeq(s, 1, n - 1), s[n])
  <1> DEFINE p == SubSeq(s, 1, n - 1)
             q == SubSeq(s, 1, n)
  <1>1. p \in Seq(S) /\ Len(p) = n - 1 /\ \A i \in 1..n - 1 : p[i] = s[i]
    BY FirstOf
  <1>2. q \in Seq(S) /\ Len(q) = n /\ \A i \in 1..n : q[i] = s[i]
    BY FirstOf
  <1>3. Append(p, s[n]) \in Seq(S) /\ Len(Append(p, s[n])) = n
    BY <1>1
  <1>4. \A i \in 1..n : Append(p, s[n])[i] = q[i]
    BY <1>1, <1>2
  <1> HIDE DEF p, q
  <1>5. Append(p, s[n]) = q
    BY <1>2, <1>3, <1>4, SeqEqual
  <1> QED
    BY <1>5 DEF p, q

\* A sequence without its last element, and all of it.
LEMMA FirstOfAppended ==
    ASSUME NEW S, NEW s \in Seq(S), NEW e \in S, NEW n \in 0..Len(s)
    PROVE  SubSeq(Append(s, e), 1, n) = SubSeq(s, 1, n)
  <1> DEFINE p == SubSeq(Append(s, e), 1, n)
             q == SubSeq(s, 1, n)
  <1>1. Append(s, e) \in Seq(S) /\ n \in 0..Len(Append(s, e))
    OBVIOUS
  <1>2. p \in Seq(S) /\ Len(p) = n /\ \A i \in 1..n : p[i] = Append(s, e)[i]
    BY <1>1, FirstOf
  <1>3. q \in Seq(S) /\ Len(q) = n /\ \A i \in 1..n : q[i] = s[i]
    BY FirstOf
  <1>4. \A i \in 1..n : p[i] = q[i]
    BY <1>2, <1>3
  <1> HIDE DEF p, q
  <1>5. p = q
    BY <1>2, <1>3, <1>4, SeqEqual
  <1> QED
    BY <1>5 DEF p, q

\* The first m of the first n elements.
LEMMA FirstOfFirst ==
    ASSUME NEW S, NEW s \in Seq(S), NEW n \in 0..Len(s), NEW m \in 0..n
    PROVE  SubSeq(SubSeq(s, 1, n), 1, m) = SubSeq(s, 1, m)
  <1> DEFINE q == SubSeq(s, 1, n)
             r == SubSeq(q, 1, m)
             t == SubSeq(s, 1, m)
  <1>1. q \in Seq(S) /\ Len(q) = n /\ \A i \in 1..n : q[i] = s[i]
    BY FirstOf
  <1>2. t \in Seq(S) /\ Len(t) = m /\ \A i \in 1..m : t[i] = s[i]
    BY FirstOf
  <1> HIDE DEF q
  <1>3. r \in Seq(S) /\ Len(r) = m /\ \A i \in 1..m : r[i] = q[i]
    BY <1>1, FirstOf
  <1> HIDE DEF r, t
  <1>4. r = t
    BY <1>1, <1>2, <1>3, SeqEqual
  <1> QED
    BY <1>4 DEF q, r, t

\* All of a sequence.
LEMMA AllOf ==
    ASSUME NEW S, NEW s \in Seq(S)
    PROVE  SubSeq(s, 1, Len(s)) = s
  BY SubSeqFull

\* Begins, element by element.
LEMMA BeginsElements ==
    ASSUME NEW S, NEW p \in Seq(S), NEW k \in Seq(S)
    PROVE  Begins(p, k) <=> Len(p) <= Len(k) /\ \A i \in 1..Len(p) : p[i] = k[i]
  <1>1. ASSUME Begins(p, k)
        PROVE  Len(p) <= Len(k) /\ \A i \in 1..Len(p) : p[i] = k[i]
    <2>1. Len(p) \in 0..Len(k) /\ SubSeq(k, 1, Len(p)) = p
      BY <1>1 DEF Begins
    <2>2. \A i \in 1..Len(p) : SubSeq(k, 1, Len(p))[i] = k[i]
      BY <2>1, FirstOf
    <2> QED
      BY <2>1, <2>2
  <1>2. ASSUME Len(p) <= Len(k), \A i \in 1..Len(p) : p[i] = k[i]
        PROVE  Begins(p, k)
    <2> DEFINE q == SubSeq(k, 1, Len(p))
    <2>1. q \in Seq(S) /\ Len(q) = Len(p) /\ \A i \in 1..Len(p) : q[i] = k[i]
      BY <1>2, FirstOf
    <2> HIDE DEF q
    <2>2. q = p
      BY <1>2, <2>1, SeqEqual
    <2> QED
      BY <1>2, <2>2 DEF Begins, q
  <1> QED
    BY <1>1, <1>2

\* The first elements of a string begin it.
LEMMA BeginsFirst ==
    ASSUME NEW S, NEW k \in Seq(S), NEW n \in 0..Len(k)
    PROVE  Begins(SubSeq(k, 1, n), k)
  BY FirstOf DEF Begins

\* A string that begins another begins what that one begins.
LEMMA BeginsTransitive ==
    ASSUME NEW S, NEW p \in Seq(S), NEW q \in Seq(S), NEW r \in Seq(S),
           Begins(p, q), Begins(q, r)
    PROVE  Begins(p, r)
  <1>1. Len(p) <= Len(q) /\ \A i \in 1..Len(p) : p[i] = q[i]
    BY BeginsElements
  <1>2. Len(q) <= Len(r) /\ \A i \in 1..Len(q) : q[i] = r[i]
    BY BeginsElements
  <1>3. Len(p) <= Len(r) /\ \A i \in 1..Len(p) : p[i] = r[i]
    BY <1>1, <1>2
  <1> QED
    BY <1>3, BeginsElements

\* What begins a sequence and is as long is that sequence; what begins it and
\* is shorter is followed by a character of it.
LEMMA BeginsCut ==
    ASSUME NEW S, NEW p \in Seq(S), NEW k \in Seq(S), Begins(p, k)
    PROVE  /\ Len(p) = Len(k) => p = k
           /\ \A n \in 0..Len(p) : SubSeq(p, 1, n) = SubSeq(k, 1, n)
  <1>1. Len(p) \in 0..Len(k) /\ SubSeq(k, 1, Len(p)) = p
    BY DEF Begins
  <1>2. \A n \in 0..Len(p) : SubSeq(SubSeq(k, 1, Len(p)), 1, n) = SubSeq(k, 1, n)
    BY <1>1, FirstOfFirst
  <1>3. SubSeq(k, 1, Len(k)) = k
    BY AllOf
  <1> QED
    BY <1>1, <1>2, <1>3

\* Every string begins itself.
LEMMA BeginsSelf ==
    ASSUME NEW S, NEW p \in Seq(S)
    PROVE  Begins(p, p)
  BY AllOf DEF Begins

-----------------------------------------------------------------------------
\* The shape of the state, in one place.
LEMMA Shape ==
    ASSUME HInv
    PROVE  /\ fst.len \in Nat
           /\ DOMAIN word = 0..fst.len /\ DOMAIN trans = 0..fst.len
           /\ \A s \in 0..fst.len : word[s] \in Seq(Char)
           /\ \A s \in 0..fst.len : trans[s] \in Seq(Transitions)
           /\ call \in Calls /\ call.str \in Seq(Char)
           /\ at.state \in 0..fst.len /\ at.pos \in Nat /\ at.pos >= 1
           /\ Final \subseteq 0..fst.len
           /\ Stored \subseteq Seq(Char)
           /\ NUL \notin Char
  <1>1. fst.len \in Nat /\ DOMAIN trans = 0..fst.len /\ DOMAIN word = 0..fst.len
    BY DEF HInv, IInv, TypeOK, VecHeader, Words
  <1>2. \A s \in 0..fst.len : word[s] \in Seq(Char)
    BY DEF HInv, Words
  <1>3. \A s \in 0..fst.len : trans[s] \in Seq(Transitions)
    BY DEF HInv, IInv, TypeOK
  <1>4. call \in Calls /\ call.str \in Seq(Char)
    BY ApiAssumption DEF HInv, IInv, TypeOK, Calls
  <1>5. at.state \in 0..fst.len /\ at.pos \in Nat /\ at.pos >= 1
    BY DEF HInv, IInv, TypeOK, Cursor
  <1>6. Final \subseteq 0..fst.len
    BY <1>1 DEF Final
  <1>7. Stored \subseteq Seq(Char)
    BY <1>2, <1>6 DEF Stored
  <1> QED
    BY <1>1, <1>2, <1>3, <1>4, <1>5, <1>6, <1>7, ApiAssumption

\* A word names one state, and its value is the one kept there.
LEMMA OneState ==
    ASSUME HInv, NEW s \in 0..fst.len
    PROVE  /\ \A t \in 0..fst.len : word[t] = word[s] => t = s
           /\ word[s] \in Stored <=> s \in Final
           /\ s \in Final => Contents[word[s]] = ValueAt(s)
  <1>1. \A t \in 0..fst.len : word[t] = word[s] => t = s
    BY Shape DEF HInv, WordsNameStates
  <1>2. word[s] \in Stored <=> s \in Final
    BY <1>1, Shape DEF Stored
  <1>3. ASSUME s \in Final PROVE Contents[word[s]] = ValueAt(s)
    <2>1. (CHOOSE t \in Final : word[t] = word[s]) = s
      BY <1>1, <1>3, Shape
    <2> QED
      BY <1>2, <1>3, <2>1 DEF Contents
  <1> QED
    BY <1>1, <1>2, <1>3

\* The value of a stored string is what its one transition on NUL holds.
LEMMA ValueOf ==
    ASSUME HInv, NEW s \in 0..fst.len, NEW i \in DOMAIN trans[s],
           trans[s][i].chr = NUL
    PROVE  s \in Final /\ ValueAt(s) = trans[s][i].next
  <1>1. s \in Final
    BY Shape DEF Final
  <1>2. \A j \in DOMAIN trans[s] : trans[s][j].chr = NUL => j = i
    BY Shape DEF HInv, IInv, Tree, Deterministic
  <1> QED
    BY <1>1, <1>2 DEF ValueAt

\* A word that begins like the word of state s, and is longer, leads on from s.
LEMMA LeadsOn ==
    ASSUME HInv, NEW s \in 0..fst.len, NEW t \in 0..fst.len,
           Len(word[s]) < Len(word[t]), Begins(word[s], word[t])
    PROVE  \E i \in DOMAIN trans[s] :
               trans[s][i].chr = word[t][Len(word[s]) + 1]
  <1>1. word[s] \in Seq(Char) /\ word[t] \in Seq(Char)
    BY Shape
  <1> DEFINE k == Len(word[s]) + 1
  <1>2. k \in 1..Len(word[t]) /\ k - 1 = Len(word[s])
    BY <1>1
  <1>3. PICK u \in 0..fst.len : \E i \in DOMAIN trans[u] :
            /\ word[u] = SubSeq(word[t], 1, k - 1)
            /\ trans[u][i].chr = word[t][k]
    BY <1>2 DEF HInv, PrefixClosed
  <1>4. word[u] = word[s]
    BY <1>2, <1>3 DEF Begins
  <1>5. u = s
    BY <1>4, OneState
  <1> QED
    BY <1>3, <1>5

\* The child that a transition on a character leads to.
LEMMA ChildWord ==
    ASSUME HInv, NEW s \in 0..fst.len, NEW i \in DOMAIN trans[s],
           trans[s][i].chr # NUL
    PROVE  /\ trans[s][i].chr \in Char
           /\ trans[s][i].next \in 1..fst.len
           /\ word[trans[s][i].next] = Append(word[s], trans[s][i].chr)
  <1>1. trans[s] \in Seq(Transitions) /\ s \in DOMAIN trans /\ s \in DOMAIN word
    BY Shape
  <1>2. trans[s][i] \in Transitions
    BY <1>1
  <1>3. trans[s][i].chr \in Char
    BY <1>2 DEF Transitions
  <1>4. trans[s][i].next \in (s + 1)..fst.len
    BY <1>1 DEF HInv, IInv, Tree, Forward
  <1>5. word[trans[s][i].next] = Append(word[s], trans[s][i].chr)
    BY <1>1 DEF HInv, WordsNameStates
  <1> QED
    BY <1>3, <1>4, <1>5, Shape

\* Outside an addition, a transition on a character leads on to a stored
\* string that extends the word.
LEMMA ChildExtends ==
    ASSUME HInv, pc # "add", NEW s \in 0..fst.len, NEW i \in DOMAIN trans[s],
           trans[s][i].chr # NUL
    PROVE  Extends(word[s])
  <1> DEFINE c == trans[s][i].chr
             t == trans[s][i].next
  <1>1. c \in Char /\ t \in 1..fst.len /\ word[t] = Append(word[s], c)
    BY ChildWord
  <1>2. word[s] \in Seq(Char) /\ word[t] \in Seq(Char)
    BY <1>1, Shape
  <1>3. PICK v \in Stored : Begins(word[t], v)
    BY <1>1 DEF HInv, WordsInUse
  <1>4. v \in Seq(Char)
    BY Shape
  <1>5. Len(word[t]) = Len(word[s]) + 1 /\ Len(word[s]) \in Nat
    BY <1>1, <1>2
  <1>6. Begins(word[s], word[t])
    <2>1. SubSeq(word[t], 1, Len(word[s])) = SubSeq(word[s], 1, Len(word[s]))
      BY <1>1, <1>2, FirstOfAppended
    <2> QED
      BY <1>2, <1>5, <2>1, AllOf DEF Begins
  <1>7. Begins(word[s], v)
    BY <1>2, <1>3, <1>4, <1>6, BeginsTransitive
  <1>8. v # word[s]
    BY <1>3, <1>5 DEF Begins
  <1> QED
    BY <1>7, <1>8 DEF Extends

\* is_final_state on a state with transitions: its word is stored and no other
\* stored string extends it.
LEMMA FinalLeaf ==
    ASSUME HInv, NEW s \in 0..fst.len, trans[s] # <<>>, IsFinalState(s)
    PROVE  /\ s \in Final
           /\ ValueAt(s) = trans[s][1].next
           /\ ~Extends(word[s])
  <1>1. trans[s] \in Seq(Transitions) /\ word[s] \in Seq(Char)
    BY Shape
  <1>2. DOMAIN trans[s] = {1} /\ trans[s][1].chr = NUL
    BY <1>1 DEF IsFinalState
  <1>3. s \in Final /\ ValueAt(s) = trans[s][1].next
    BY <1>2, ValueOf
  <1>4. ASSUME NEW v \in Stored, Begins(word[s], v), v # word[s] PROVE FALSE
    <2>1. PICK t \in Final : v = word[t]
      BY DEF Stored
    <2>2. t \in 0..fst.len /\ word[t] \in Seq(Char)
      BY Shape
    <2>3. Len(word[s]) < Len(word[t])
      BY <1>1, <1>4, <2>1, <2>2, BeginsCut DEF Begins
    <2>4. PICK i \in DOMAIN trans[s] : trans[s][i].chr = word[t][Len(word[s]) + 1]
      BY <1>4, <2>1, <2>2, <2>3, LeadsOn
    <2>5. word[t][Len(word[s]) + 1] \in Char
      BY <1>1, <2>2, <2>3
    <2> QED
      BY <1>2, <2>4, <2>5, Shape
  <1> QED
    BY <1>3, <1>4 DEF Extends

\* And a stored word whose state is_final_state does not accept is extended.
LEMMA NotFinalExtends ==
    ASSUME HInv, pc # "add", NEW s \in Final, ~IsFinalState(s)
    PROVE  Extends(word[s])
  <1>1. s \in 0..fst.len /\ trans[s] \in Seq(Transitions)
    BY Shape
  <1>2. PICK i \in DOMAIN trans[s] : trans[s][i].chr = NUL
    BY DEF Final
  <1>3. PICK j \in DOMAIN trans[s] : j # i
    <2>1. DOMAIN trans[s] = 1..Len(trans[s]) /\ Len(trans[s]) \in Nat
      BY <1>1
    <2>2. Len(trans[s]) >= 2
      BY <1>2, <2>1 DEF IsFinalState
    <2>3. 1 \in DOMAIN trans[s] /\ 2 \in DOMAIN trans[s]
      BY <2>1, <2>2
    <2> QED
      BY <2>3
  <1>4. trans[s][j].chr # NUL
    BY <1>1, <1>2, <1>3, Shape DEF HInv, IInv, Tree, Deterministic
  <1> QED
    BY <1>1, <1>4, ChildExtends

-----------------------------------------------------------------------------
\* What the cursor has read, and what it is about to read.
LEMMA AtCursor ==
    ASSUME HInv, pc \in {"add", "lookup"}
    PROVE  /\ at.pos - 1 \in 0..Len(call.str)
           /\ Len(word[at.state]) = at.pos - 1
           /\ word[at.state] = SubSeq(call.str, 1, at.pos - 1)
           /\ Begins(word[at.state], call.str)
           /\ Chr = NUL => word[at.state] = call.str
           /\ Chr # NUL => /\ at.pos \in 1..Len(call.str)
                           /\ Chr = call.str[at.pos] /\ Chr \in Char
                           /\ SubSeq(call.str, 1, at.pos) = Append(word[at.state], Chr)
  <1>1. call.str \in Seq(Char) /\ at.pos \in Nat /\ at.pos >= 1
    BY Shape
  <1>2. /\ at.pos <= Len(call.str) + 1
        /\ word[at.state] = SubSeq(call.str, 1, at.pos - 1)
    BY DEF HInv, Trail
  <1>3. at.pos - 1 \in 0..Len(call.str)
    BY <1>1, <1>2
  <1>4. Len(word[at.state]) = at.pos - 1 /\ Begins(word[at.state], call.str)
    BY <1>1, <1>2, <1>3, FirstOf, BeginsFirst
  <1>5. CASE at.pos <= Len(call.str)
    <2>1. at.pos \in 1..Len(call.str) /\ Chr = call.str[at.pos]
      BY <1>1, <1>5 DEF Chr
    <2>2. Chr \in Char /\ Chr # NUL
      BY <1>1, <2>1, Shape
    <2>3. SubSeq(call.str, 1, at.pos) = Append(word[at.state], Chr)
      BY <1>1, <1>2, <2>1, FirstAppended
    <2> QED
      BY <1>2, <1>3, <1>4, <2>1, <2>2, <2>3
  <1>6. CASE at.pos = Len(call.str) + 1
    <2>1. Chr = NUL
      BY <1>1, <1>6 DEF Chr
    <2>2. word[at.state] = call.str
      BY <1>1, <1>2, <1>6, AllOf
    <2> QED
      BY <1>2, <1>3, <1>4, <2>1, <2>2
  <1>7. at.pos <= Len(call.str) \/ at.pos = Len(call.str) + 1
    BY <1>1, <1>2
  <1> QED
    BY <1>5, <1>6, <1>7

\* Where the cursor finds no transition for the next character, no state has a
\* word that begins with what comes next.
LEMMA NoFurther ==
    ASSUME HInv, pc \in {"add", "lookup"}, Chr # NUL,
           \A i \in DOMAIN trans[at.state] : trans[at.state][i].chr # Chr,
           NEW t \in 0..fst.len
    PROVE  ~Begins(SubSeq(call.str, 1, at.pos), word[t])
  <1> DEFINE s == at.state
             q == SubSeq(call.str, 1, at.pos)
  <1>1. s \in 0..fst.len /\ word[s] \in Seq(Char) /\ word[t] \in Seq(Char)
    BY Shape
  <1>2. /\ at.pos \in Nat \ {0} /\ Len(word[s]) = at.pos - 1
        /\ q = Append(word[s], Chr) /\ Chr \in Char
    BY AtCursor, Shape, SMTT(30)
  <1> SUFFICES ASSUME Begins(q, word[t]) PROVE FALSE
    OBVIOUS
  <1> HIDE DEF q, s
  <1>3. q \in Seq(Char) /\ Len(q) = at.pos /\ q[at.pos] = Chr
    BY <1>1, <1>2
  <1>4. at.pos <= Len(word[t]) /\ word[t][at.pos] = Chr
    <2>1. Len(q) <= Len(word[t]) /\ \A i \in 1..Len(q) : q[i] = word[t][i]
      BY <1>1, <1>3, BeginsElements
    <2>2. at.pos \in 1..Len(q)
      BY <1>2, <1>3
    <2> QED
      BY <1>3, <2>1, <2>2
  <1>5. Begins(word[s], q)
    BY <1>1, <1>2, <1>3, FirstOfAppended, AllOf DEF Begins
  <1>6. Begins(word[s], word[t])
    BY <1>1, <1>3, <1>5, BeginsTransitive
  <1>7. \E i \in DOMAIN trans[s] : trans[s][i].chr = word[t][Len(word[s]) + 1]
    <2>1. Len(word[s]) < Len(word[t])
      BY <1>1, <1>2, <1>4
    <2> QED
      BY <1>1, <1>6, <2>1, LeadsOn
  <1> QED
    BY <1>2, <1>4, <1>7 DEF s

\* A string that ends where the cursor stands is stored if there is a
\* transition on NUL, and only then.
LEMMA AtEnd ==
    ASSUME HInv, pc \in {"add", "lookup"}, Chr = NUL
    PROVE  call.str \in Stored <=>
               \E i \in DOMAIN trans[at.state] : trans[at.state][i].chr = NUL
  <1>1. word[at.state] = call.str /\ at.state \in 0..fst.len
    BY AtCursor, Shape
  <1>2. call.str \in Stored <=> at.state \in Final
    BY <1>1, OneState
  <1> QED
    BY <1>1, <1>2, Shape DEF Final

\* The strings that begin a key, against the cursor of its lookup: passed, or
\* at hand, or still to come.
LEMMA Candidates ==
    ASSUME HInv, pc \in {"add", "lookup"}, NEW w \in Stored, Begins(w, call.str)
    PROVE  \/ Len(w) < at.pos - 1
           \/ w = word[at.state] /\ at.state \in Final
           \/ /\ Chr # NUL
              /\ \E i \in DOMAIN trans[at.state] : trans[at.state][i].chr = Chr
  <1>1. w \in Seq(Char) /\ call.str \in Seq(Char) /\ at.state \in 0..fst.len
    BY Shape
  <1>2. at.pos - 1 \in 0..Len(call.str) /\ at.pos \in Nat
    BY AtCursor, Shape
  <1>3. CASE Len(w) = at.pos - 1
    <2>1. w = word[at.state]
      BY <1>3, AtCursor DEF Begins
    <2> QED
      BY <1>1, <2>1, OneState
  <1>4. CASE Len(w) > at.pos - 1
    <2>1. at.pos \in 1..Len(w) /\ Len(w) <= Len(call.str)
      BY <1>1, <1>2, <1>4 DEF Begins
    <2>2. Chr # NUL
      BY <1>1, <2>1, Shape DEF Chr
    <2>3. SubSeq(call.str, 1, at.pos) = SubSeq(w, 1, at.pos)
      <3>1. at.pos \in 0..Len(w)
        BY <2>1
      <3> QED
        BY <1>1, <3>1, BeginsCut
    <2>4. Begins(SubSeq(call.str, 1, at.pos), w)
      <3>1. at.pos \in 0..Len(w)
        BY <2>1
      <3> QED
        BY <1>1, <2>3, <3>1, BeginsFirst
    <2>5. PICK t \in Final : w = word[t]
      BY DEF Stored
    <2>6. t \in 0..fst.len
      BY Shape
    <2> QED
      BY <2>2, <2>4, <2>5, <2>6, NoFurther
  <1> QED
    BY <1>1, <1>2, <1>3, <1>4

-----------------------------------------------------------------------------
\* A step that leaves the transducer alone leaves the words and the strings.
LEMMA SameWords ==
    ASSUME HInv, Recorded, UNCHANGED <<fst, trans>>
    PROVE  /\ UNCHANGED word
           /\ Final' = Final /\ Stored' = Stored /\ Contents' = Contents
           /\ Words' /\ WordsNameStates' /\ PrefixClosed'
  <1>1. word' = [s \in 0..fst.len |-> word[s]]
    BY Shape DEF Recorded
  <1>2. word' = word
    BY <1>1 DEF HInv, Words
  <1>3. Final' = Final
    BY <1>2 DEF Final
  <1>4. Stored' = Stored
    BY <1>2, <1>3 DEF Stored
  <1>5. Contents' = Contents
    BY <1>2, <1>3, <1>4 DEF Contents, ValueAt
  <1>6. Words' /\ WordsNameStates' /\ PrefixClosed'
    BY <1>2 DEF HInv, Words, WordsNameStates, PrefixClosed
  <1> QED
    BY <1>2, <1>3, <1>4, <1>5, <1>6

\* A new transducer, whose one state has the empty word.
LEMMA HInitInv == HInit => HInv
  <1> SUFFICES ASSUME HInit PROVE HInv
    OBVIOUS
  <1>1. IInv /\ Init
    BY InitInv DEF HInit
  <1>2. fst.len = 0 /\ trans[0] = <<>> /\ DOMAIN trans = {0}
    BY <1>1 DEF Init, VecMakeRoom, VecAlloc, VecEmpty
  <1>3. DOMAIN word = {0} /\ word[0] = <<>> /\ word \in [0..0 -> Seq(Char)]
    BY DEF HInit
  <1>4. Final = {} /\ Stored = {}
    BY <1>2 DEF Final, Stored
  <1>5. WordsNameStates
    BY <1>2, <1>3 DEF WordsNameStates
  <1>6. PrefixClosed
    BY <1>2, <1>3 DEF PrefixClosed
  <1>7. Trail /\ Passed
    BY <1>1, <1>4 DEF Init, Trail, Passed
  <1>8. WordsInUse
    BY <1>2 DEF WordsInUse
  <1> QED
    BY <1>1, <1>2, <1>3, <1>5, <1>6, <1>7, <1>8 DEF HInv, Words

\* A call starts on state 0, having read nothing.
LEMMA InvokeHInv ==
    ASSUME HInv, IInv', Recorded, NEW c \in Calls, Invoke(c)
    PROVE  HInv'
  <1>1. /\ UNCHANGED <<fst, trans>> /\ pc = "idle" /\ pc' \in {"add", "lookup"}
        /\ call' = c /\ at' = Start
    BY DEF Invoke
  <1>2. /\ UNCHANGED word /\ Stored' = Stored
        /\ Words' /\ WordsNameStates' /\ PrefixClosed'
    BY <1>1, SameWords
  <1>3. c.str \in Seq(Char)
    BY ApiAssumption DEF Calls
  <1>4. Trail'
    <2>1. SubSeq(c.str, 1, 0) = <<>>
      BY <1>3
    <2>2. at'.state = 0 /\ at'.pos = 1 /\ at'.pos - 1 = 0
      BY <1>1 DEF Start
    <2>3. 1 <= Len(c.str) + 1
      BY <1>3
    <2>4. word'[0] = <<>>
      BY <1>2 DEF Words
    <2> QED
      BY <1>1, <2>1, <2>2, <2>3, <2>4 DEF Trail
  <1>5. WordsInUse'
    BY <1>1, <1>2 DEF HInv, WordsInUse
  <1>6. Passed'
    <2>1. \A w \in Stored : ~(Len(w) < at'.pos - 1)
      BY <1>1, Shape DEF Start
    <2> QED
      BY <1>2, <2>1 DEF Passed
  <1> QED
    BY <1>2, <1>4, <1>5, <1>6 DEF HInv

\* A call that answers and stores nothing: what has to be shown is that the
\* words of an addition are those of stored strings.
LEMMA AnswerHInv ==
    ASSUME HInv, IInv', Recorded, UNCHANGED <<fst, trans, call>>,
           pc' \notin {"add", "lookup"},
           pc = "add" => call.str \in Stored
    PROVE  HInv'
  <1>1. /\ UNCHANGED word /\ Stored' = Stored
        /\ Words' /\ WordsNameStates' /\ PrefixClosed'
    BY SameWords
  <1>2. Trail' /\ Passed'
    BY DEF Trail, Passed
  <1>3. WordsInUse'
    <2>1. \A s \in 1..fst.len : \E w \in Stored : Begins(word[s], w)
      BY DEF HInv, WordsInUse
    <2> QED
      BY <1>1, <2>1 DEF WordsInUse
  <1> QED
    BY <1>1, <1>2, <1>3 DEF HInv

\* A step along a transition reads one character; a prefix lookup that goes
\* past a stored string leaves one behind that another extends.
LEMMA FollowHInv ==
    ASSUME HInv, IInv', Recorded, UNCHANGED <<fst, trans>>,
           pc \in {"add", "lookup"}, Chr # NUL, Enext.err = "OK",
           Goto(Enext.nxt),
           pc = "lookup" => PastPrefixTest
    PROVE  HInv'
  <1>1. /\ UNCHANGED <<word, pc, call>> /\ Stored' = Stored
        /\ Words' /\ WordsNameStates' /\ PrefixClosed'
        /\ at' = [state |-> Enext.nxt, pos |-> at.pos + 1]
    BY SameWords DEF Goto
  <1>2. PICK i \in DOMAIN trans[at.state] :
            trans[at.state][i].chr = Chr /\ Enext.nxt = trans[at.state][i].next
    BY Turn DEF HInv
  <1>3. Trail'
    <2>1. word[Enext.nxt] = Append(word[at.state], Chr)
      BY <1>2, ChildWord, Shape
    <2>2. at.pos \in 1..Len(call.str)
          /\ SubSeq(call.str, 1, at.pos) = Append(word[at.state], Chr)
      BY AtCursor
    <2>3. at'.state = Enext.nxt /\ at'.pos = at.pos + 1 /\ at'.pos - 1 = at.pos
          /\ at'.pos <= Len(call.str) + 1
      BY <1>1, <2>2, Shape
    <2> QED
      BY <1>1, <2>1, <2>2, <2>3 DEF Trail
  <1>4. WordsInUse'
    BY <1>1 DEF HInv, WordsInUse
  <1>5. Passed'
    <2> SUFFICES ASSUME pc = "lookup", call.op = "prefix",
                        NEW w \in Stored, Begins(w, call.str), Len(w) < at.pos
                 PROVE  Extends(w)
      <3>1. at'.pos - 1 = at.pos
        BY <1>1, Shape
      <3>2. \A v : Extends(v) => Extends(v)'
        BY <1>1 DEF Extends
      <3> QED
        BY <1>1, <3>1, <3>2 DEF Passed
    <2>1. CASE Len(w) < at.pos - 1
      BY <2>1 DEF HInv, Passed
    <2>2. CASE Len(w) = at.pos - 1
      <3>1. w = word[at.state]
        BY <2>2, AtCursor DEF Begins
      <3>2. at.state \in Final
        BY <3>1, OneState, Shape
      <3>3. ~IsFinalState(at.state)
        BY DEF PastPrefixTest, AtPrefixTest
      <3> QED
        BY <3>1, <3>2, <3>3, NotFinalExtends
    <2> QED
      BY <2>1, <2>2, Shape
  <1> QED
    BY <1>1, <1>3, <1>4, <1>5 DEF HInv

\* A prefix lookup that answers ENOENT has been past every stored string that
\* begins the key, and others extend them all.
LEMMA MissedPrefixes ==
    ASSUME HInv, LookupMiss, NEW w \in Stored, Begins(w, call.str)
    PROVE  w # call.str /\ (call.op = "prefix" => Extends(w))
  <1>1. pc = "lookup" /\ PastPrefixTest
    BY DEF LookupMiss, PastPrefixTest
  <1>2. /\ Enext.err = "ENOENT"
        /\ \A i \in DOMAIN trans[at.state] : trans[at.state][i].chr # Chr
    BY <1>1, Turn DEF LookupMiss, HInv
  <1>3. w \in Seq(Char) /\ call.str \in Seq(Char)
    BY Shape
  <1>4. CASE Len(w) < at.pos - 1
    <2>1. Len(w) < Len(call.str)
      BY <1>1, <1>3, <1>4, AtCursor, Shape
    <2> QED
      BY <1>1, <1>3, <1>4, <2>1 DEF HInv, Passed
  <1>5. CASE w = word[at.state] /\ at.state \in Final
    <2>1. Chr # NUL
      BY <1>1, <1>2, <1>5, AtEnd, AtCursor
    <2>2. at.pos <= Len(call.str) /\ Len(w) = at.pos - 1
      BY <1>1, <1>5, <2>1, AtCursor
    <2>3. w # call.str
      BY <1>3, <2>2, Shape
    <2>4. call.op = "prefix" => ~IsFinalState(at.state)
      BY <1>1, <1>2, <2>1 DEF PastPrefixTest, AtPrefixTest
    <2> QED
      BY <1>1, <1>5, <2>3, <2>4, NotFinalExtends
  <1> QED
    BY <1>1, <1>2, <1>4, <1>5, Candidates

\* The answers of a lookup, and the death of the process.
LEMMA LookupAnswerHInv ==
    ASSUME HInv, IInv', Recorded,
           LookupFinal \/ LookupEnd \/ LookupMiss \/ LookupFault
    PROVE  HInv'
  <1>1. pc = "lookup" /\ UNCHANGED <<fst, trans, call>> /\ pc' \in {"idle", "fault"}
    BY DEF LookupFinal, LookupEnd, LookupMiss, LookupFault, PastPrefixTest,
           AtPrefixTest, Return
  <1> QED
    BY <1>1, AnswerHInv

\* A turn of the loop of fst_lookup that goes on.
LEMMA LookupFollowHInv ==
    ASSUME HInv, IInv', Recorded, LookupFollow
    PROVE  HInv'
  <1>1. /\ pc = "lookup" /\ PastPrefixTest /\ UNCHANGED <<fst, trans>>
        /\ Enext.err = "OK" /\ Chr # NUL
    BY DEF LookupFollow, PastPrefixTest
  <1>2. Enext.nxt # 0
    BY <1>1, Turn, Shape DEF HInv
  <1>3. Goto(Enext.nxt)
    BY <1>2 DEF LookupFollow
  <1> QED
    BY <1>1, <1>3, FollowHInv

\* EEXIST: the string is stored.
LEMMA AddFailStored ==
    ASSUME HInv, AddFail
    PROVE  call.str \in Stored /\ Return("EEXIST", UNDEF)
  <1>1. Enext.err = "OK" /\ Chr = NUL
        /\ \E i \in DOMAIN trans[at.state] : trans[at.state][i].chr = Chr
    BY Turn DEF AddFail, HInv
  <1>2. call.str \in Stored
    BY <1>1, AtEnd DEF AddFail
  <1> QED
    BY <1>1, <1>2 DEF AddFail

\* An addition that ends in EEXIST or EDOM.
LEMMA AddFailHInv ==
    ASSUME HInv, IInv', Recorded, AddFail
    PROVE  HInv'
  <1>1. UNCHANGED <<fst, trans, call>> /\ pc' = "idle"
    BY DEF AddFail, Return
  <1> QED
    BY <1>1, AddFailStored, AnswerHInv

\* A turn of the loop of fst_add_string that finds its state.
LEMMA AddFollowHInv ==
    ASSUME HInv, IInv', Recorded, AddFollow
    PROVE  HInv'
  BY FollowHInv DEF AddFollow

\* The end of an addition stores its string, which was not there, and keeps
\* all others and their values.
LEMMA AddFinalStores ==
    ASSUME HInv, Recorded, AddFinal
    PROVE  /\ UNCHANGED <<fst, word, call>> /\ Return("OK", UNDEF)
           /\ call.str \notin Stored
           /\ Final' = Final \cup {at.state}
           /\ Stored' = Stored \cup {call.str}
           /\ \A s \in Final : ValueAt(s)' = ValueAt(s)
           /\ \A s \in 0..fst.len : s = at.state => ValueAt(s)' = call.val
           /\ \A t \in 0..fst.len : \A i \in DOMAIN trans[t] :
                 i \in DOMAIN trans'[t] /\ trans'[t][i] = trans[t][i]
           /\ \A t \in 0..fst.len : \A i \in DOMAIN trans'[t] :
                 trans'[t][i].chr # NUL =>
                     i \in DOMAIN trans[t] /\ trans'[t][i] = trans[t][i]
  <1> DEFINE s == at.state
             n == Len(trans[s]) + 1
  <1>1. /\ pc = "add" /\ Return("OK", UNDEF) /\ UNCHANGED fst /\ Chr = NUL
        /\ \A i \in DOMAIN trans[s] : trans[s][i].chr # NUL
        /\ s \in 0..fst.len
        /\ trans' \in [0..fst.len -> Seq(Transitions)]
        /\ \A t \in DOMAIN trans \ {s} : trans'[t] = trans[t]
        /\ n \notin DOMAIN trans[s]
        /\ DOMAIN trans'[s] = DOMAIN trans[s] \cup {n}
        /\ \A i \in DOMAIN trans[s] : trans'[s][i] = trans[s][i]
        /\ trans'[s][n] = [chr |-> NUL, next |-> call.val]
    BY FinalAdded DEF HInv
  <1> HIDE DEF n
  <1>2. word' = word /\ call' = call /\ DOMAIN trans' = DOMAIN trans
    <2>1. word' = [t \in 0..fst.len |-> word[t]]
      BY <1>1, Shape DEF Recorded
    <2> QED
      BY <1>1, <2>1, Shape DEF HInv, Words, Return
  <1>3. call.str \notin Stored /\ word[s] = call.str
    BY <1>1, AtEnd, AtCursor
  <1>4. /\ \A t \in 0..fst.len : \A i \in DOMAIN trans[t] :
              i \in DOMAIN trans'[t] /\ trans'[t][i] = trans[t][i]
        /\ \A t \in 0..fst.len : \A i \in DOMAIN trans'[t] :
              \/ i \in DOMAIN trans[t] /\ trans'[t][i] = trans[t][i]
              \/ t = s /\ i = n
    BY <1>1, Shape
  <1>5. Final' = Final \cup {s}
    <2>1. \A t \in 0..fst.len \ {s} : t \in Final' <=> t \in Final
      BY <1>1, <1>2, Shape DEF Final
    <2>2. s \in Final'
      BY <1>1, <1>2, Shape DEF Final
    <2>3. Final' \subseteq 0..fst.len
      BY <1>2, Shape DEF Final
    <2> QED
      BY <1>1, <2>1, <2>2, <2>3, Shape
  <1>6. Stored' = Stored \cup {call.str}
    BY <1>2, <1>3, <1>5 DEF Stored
  <1>7. \A t \in Final : ValueAt(t)' = ValueAt(t)
    <2> TAKE t \in Final
    <2>1. t # s
      BY <1>1 DEF Final
    <2>2. trans'[t] = trans[t]
      BY <1>1, <2>1, Shape
    <2> QED
      BY <2>2 DEF ValueAt
  <1>8. \A t \in 0..fst.len : t = s => ValueAt(t)' = call.val
    <2> TAKE t \in 0..fst.len
    <2> HAVE t = s
    <2>1. n \in DOMAIN trans'[t] /\ trans'[t][n].chr = NUL
          /\ \A i \in DOMAIN trans'[t] : trans'[t][i].chr = NUL => i = n
      BY <1>1
    <2>2. (CHOOSE i \in DOMAIN trans'[t] : trans'[t][i].chr = NUL) = n
      BY <2>1
    <2>3. trans'[t][n].next = call.val
      BY <1>1
    <2> QED
      BY <2>2, <2>3 DEF ValueAt
  <1> QED
    BY <1>1, <1>2, <1>3, <1>4, <1>5, <1>6, <1>7, <1>8

\* ... and that is all it does to the dictionary.
LEMMA AddFinalContents ==
    ASSUME HInv, Recorded, AddFinal
    PROVE  Contents' = Extended(Contents, call.str, call.val)
  <1> DEFINE Added == [w \in DOMAIN Contents \cup {call.str} |->
                          IF w = call.str THEN call.val ELSE Contents[w]]
  <1>1. /\ pc = "add" /\ UNCHANGED <<fst, word, call>> /\ Return("OK", UNDEF)
        /\ call.str \notin Stored
        /\ Final' = Final \cup {at.state}
        /\ Stored' = Stored \cup {call.str}
        /\ \A s \in Final : ValueAt(s)' = ValueAt(s)
        /\ \A s \in 0..fst.len : s = at.state => ValueAt(s)' = call.val
    BY AddFinalStores DEF AddFinal
  <1>2. word[at.state] = call.str /\ at.state \in 0..fst.len
    BY AtCursor, Shape DEF AddFinal
  <1>3. ASSUME NEW w \in Stored'
        PROVE  Contents'[w] = Added[w]
    <2>1. PICK t \in Final' : word[t] = w
      BY <1>1 DEF Stored
    <2>2. t \in 0..fst.len /\ \A u \in 0..fst.len : word[u] = w => u = t
      BY <1>1, <1>2, <2>1, OneState, Shape
    <2>3. (CHOOSE u \in Final' : word'[u] = w) = t
      BY <1>1, <1>2, <2>1, <2>2, Shape
    <2>4. Contents'[w] = ValueAt(t)'
      BY <2>3 DEF Contents
    <2>5. CASE w = call.str
      <3>1. t = at.state
        BY <1>2, <2>2, <2>5
      <3> QED
        BY <1>1, <2>2, <2>4, <2>5, <3>1 DEF Contents
    <2>6. CASE w # call.str
      <3>1. t \in Final
        BY <1>1, <1>2, <2>1, <2>6
      <3>2. Contents[w] = ValueAt(t) /\ w \in Stored
        BY <2>1, <2>2, <3>1, OneState
      <3> QED
        BY <1>1, <2>4, <2>6, <3>1, <3>2 DEF Contents
    <2> QED
      BY <2>5, <2>6
  <1>4. Contents' = Added
    <2>1. DOMAIN Added = Stored' /\ DOMAIN Contents' = Stored'
      BY <1>1 DEF Contents
    <2>2. Contents' = [w \in Stored' |-> Contents'[w]]
      BY DEF Contents
    <2>3. Added = [w \in Stored' |-> Added[w]]
      BY <2>1
    <2> HIDE DEF Added
    <2> QED
      BY <1>3, <2>2, <2>3
  <1> QED
    BY <1>4 DEF Extended

\* The end of an addition.
LEMMA AddFinalHInv ==
    ASSUME HInv, IInv', Recorded, AddFinal
    PROVE  HInv'
  <1>1. /\ UNCHANGED <<fst, word, call>> /\ pc' = "idle" /\ ret'.err = "OK"
        /\ Stored' = Stored \cup {call.str}
        /\ \A t \in 0..fst.len : \A i \in DOMAIN trans[t] :
              i \in DOMAIN trans'[t] /\ trans'[t][i] = trans[t][i]
        /\ \A t \in 0..fst.len : \A i \in DOMAIN trans'[t] :
              trans'[t][i].chr # NUL =>
                  i \in DOMAIN trans[t] /\ trans'[t][i] = trans[t][i]
    BY AddFinalStores DEF Return, Answer
  <1>2. Words'
    BY <1>1 DEF HInv, Words
  <1>3. WordsNameStates'
    <2>1. \A s, t \in DOMAIN word : word[s] = word[t] => s = t
      BY DEF HInv, WordsNameStates
    <2>2. \A s \in 0..fst.len : \A i \in DOMAIN trans'[s] :
             trans'[s][i].chr # NUL =>
                 word[trans'[s][i].next] = Append(word[s], trans'[s][i].chr)
      <3> SUFFICES ASSUME NEW s \in 0..fst.len, NEW i \in DOMAIN trans'[s],
                          trans'[s][i].chr # NUL
                   PROVE  word[trans'[s][i].next] = Append(word[s], trans'[s][i].chr)
        OBVIOUS
      <3>1. i \in DOMAIN trans[s] /\ trans'[s][i] = trans[s][i]
        BY <1>1
      <3> QED
        BY <3>1, ChildWord
    <2> QED
      BY <1>1, <2>1, <2>2, Shape DEF WordsNameStates
  <1>4. PrefixClosed'
    <2> SUFFICES ASSUME NEW t \in 0..fst.len, NEW k \in 1..Len(word[t])
                 PROVE  \E s \in 0..fst.len : \E i \in DOMAIN trans'[s] :
                            /\ word[s] = SubSeq(word[t], 1, k - 1)
                            /\ trans'[s][i].chr = word[t][k]
      BY <1>1, ZenonT(40) DEF PrefixClosed
    <2>1. PICK s \in 0..fst.len : \E i \in DOMAIN trans[s] :
              /\ word[s] = SubSeq(word[t], 1, k - 1)
              /\ trans[s][i].chr = word[t][k]
      BY DEF HInv, PrefixClosed
    <2> QED
      BY <1>1, <2>1
  <1>5. Trail' /\ Passed'
    BY <1>1 DEF Trail, Passed
  <1>6. WordsInUse'
    BY <1>1 DEF HInv, WordsInUse
  <1> QED
    BY <1>2, <1>3, <1>4, <1>5, <1>6 DEF HInv

\* A new state has a word that no other has; what is stored stays as it is.
LEMMA AddNewStateWords ==
    ASSUME HInv, Recorded, AddNewState
    PROVE  /\ fst'.len = fst.len + 1
           /\ DOMAIN word' = 0..fst.len + 1
           /\ \A s \in 0..fst.len : word'[s] = word[s]
           /\ word'[fst.len + 1] = SubSeq(call.str, 1, at.pos)
           /\ Final' = Final /\ Stored' = Stored /\ Contents' = Contents
  <1> DEFINE s == at.state
             new == fst.len + 1
             n == Len(trans[s]) + 1
  <1>1. /\ Chr \in Char /\ s \in 0..fst.len /\ fst'.len = new
        /\ trans' \in [0..new -> Seq(Transitions)]
        /\ trans'[new] = <<>>
        /\ \A t \in DOMAIN trans \ {s} : trans'[t] = trans[t]
        /\ DOMAIN trans'[s] = DOMAIN trans[s] \cup {n}
        /\ \A i \in DOMAIN trans[s] : trans'[s][i] = trans[s][i]
        /\ trans'[s][n] = [chr |-> Chr, next |-> new]
        /\ n \notin DOMAIN trans[s]
    BY StateAdded DEF HInv
  <1> HIDE DEF n
  <1>2. fst.len \in Nat /\ new \notin 0..fst.len /\ 0..new = 0..fst.len \cup {new}
    BY Shape
  <1>3. /\ DOMAIN word' = 0..new
        /\ \A t \in 0..fst.len : word'[t] = word[t]
        /\ word'[new] = SubSeq(call.str, 1, at.pos)
    BY <1>1, <1>2, Shape DEF Recorded
  <1>4. \A t \in 0..fst.len :
           /\ DOMAIN trans[t] \subseteq DOMAIN trans'[t]
           /\ \A i \in DOMAIN trans[t] : trans'[t][i] = trans[t][i]
           /\ \A i \in DOMAIN trans'[t] :
                 trans'[t][i].chr = NUL => i \in DOMAIN trans[t]
    <2> TAKE t \in 0..fst.len
    <2>1. CASE t # s
      BY <1>1, <2>1, Shape
    <2>2. CASE t = s
      <3>1. trans'[s][n].chr # NUL
        BY <1>1, Shape
      <3> QED
        BY <1>1, <2>2, <3>1
    <2> QED
      BY <2>1, <2>2
  <1>5. Final' = Final
    <2>1. DOMAIN trans' = 0..fst.len \cup {new}
      BY <1>1, <1>2
    <2>2. new \notin Final'
      BY <1>1 DEF Final
    <2>3. \A t \in 0..fst.len : t \in Final' <=> t \in Final
      BY <1>4, <2>1, Shape DEF Final
    <2>4. Final' \subseteq 0..fst.len
      BY <2>1, <2>2 DEF Final
    <2> QED
      BY <2>3, <2>4, Shape
  <1>6. Stored' = Stored
    <2>1. \A t \in Final : word'[t] = word[t]
      BY <1>3, Shape
    <2> QED
      BY <1>5, <2>1 DEF Stored
  <1>7. \A t \in Final : ValueAt(t)' = ValueAt(t)
    <2> TAKE t \in Final
    <2>1. PICK j \in DOMAIN trans[t] : trans[t][j].chr = NUL
      BY DEF Final
    <2>2. /\ t \in 0..fst.len
          /\ \A i \in DOMAIN trans[t] : trans[t][i].chr = NUL => i = j
      BY <2>1, Shape DEF HInv, IInv, Tree, Deterministic
    <2>3. j \in DOMAIN trans'[t] /\ trans'[t][j] = trans[t][j]
          /\ \A i \in DOMAIN trans'[t] : trans'[t][i].chr = NUL => i = j
      BY <1>4, <2>1, <2>2
    <2>4. (CHOOSE i \in DOMAIN trans[t] : trans[t][i].chr = NUL) = j
      BY <2>1, <2>2
    <2>5. (CHOOSE i \in DOMAIN trans'[t] : trans'[t][i].chr = NUL) = j
      BY <2>1, <2>3
    <2> QED
      BY <2>3, <2>4, <2>5 DEF ValueAt
  <1>8. Contents' = Contents
    <2>1. \A w \in Stored : (CHOOSE t \in Final : word'[t] = w)
                                = (CHOOSE t \in Final : word[t] = w)
      <3> TAKE w \in Stored
      <3>1. PICK t \in Final : word[t] = w
        BY DEF Stored
      <3>2. \A u \in Final : word[u] = w <=> u = t
        BY <3>1, OneState, Shape
      <3>3. \A u \in Final : word'[u] = w <=> u = t
        BY <1>3, <3>2, Shape
      <3>4. (CHOOSE u \in Final : word'[u] = w) = t
        BY <3>1, <3>3
      <3>5. (CHOOSE u \in Final : word[u] = w) = t
        BY <3>1, <3>2
      <3> QED
        BY <3>4, <3>5
    <2>2. \A w \in Stored : (CHOOSE t \in Final : word[t] = w) \in Final
      BY DEF Stored
    <2>3. \A w \in Stored : ValueAt(CHOOSE t \in Final : word[t] = w)'
                              = ValueAt(CHOOSE t \in Final : word[t] = w)
      BY <1>5, <1>7, <2>1, <2>2
    <2> QED
      BY <1>5, <1>6, <2>3 DEF Contents
  <1> QED
    BY <1>1, <1>3, <1>5, <1>6, <1>8

\* A turn of the loop of fst_add_string that adds a state.
LEMMA AddNewStateHInv ==
    ASSUME HInv, IInv', Recorded, AddNewState
    PROVE  HInv'
  <1> DEFINE s == at.state
             new == fst.len + 1
             n == Len(trans[s]) + 1
             q == SubSeq(call.str, 1, at.pos)
  <1>1. /\ pc = "add" /\ Chr \in Char /\ Chr # NUL
        /\ s \in 0..fst.len /\ fst'.len = new
        /\ \A i \in DOMAIN trans[s] : trans[s][i].chr # Chr
        /\ Goto(new)
        /\ trans' \in [0..new -> Seq(Transitions)]
        /\ trans'[new] = <<>>
        /\ \A t \in DOMAIN trans \ {s} : trans'[t] = trans[t]
        /\ DOMAIN trans'[s] = DOMAIN trans[s] \cup {n}
        /\ \A i \in DOMAIN trans[s] : trans'[s][i] = trans[s][i]
        /\ trans'[s][n] = [chr |-> Chr, next |-> new]
        /\ n \notin DOMAIN trans[s]
    BY StateAdded, Shape DEF HInv, AddNewState
  <1> HIDE DEF n
  <1>2. /\ fst.len \in Nat /\ new \notin 0..fst.len
        /\ 0..new = 0..fst.len \cup {new} /\ 1..new = 1..fst.len \cup {new}
    <2>1. fst.len \in Nat
      BY Shape
    <2> QED
      BY <2>1
  <1>3. /\ DOMAIN word' = 0..new
        /\ \A t \in 0..fst.len : word'[t] = word[t]
        /\ word'[new] = q
        /\ Stored' = Stored
    BY AddNewStateWords
  <1>4. /\ at.pos \in 1..Len(call.str) /\ q = Append(word[s], Chr)
        /\ call.str \in Seq(Char) /\ at.pos \in Nat \ {0}
        /\ word[s] = SubSeq(call.str, 1, at.pos - 1)
        /\ word[s] \in Seq(Char)
    <2>1. call.str \in Seq(Char) /\ at.pos \in Nat \ {0} /\ word[s] \in Seq(Char)
      BY Shape
    <2>2. /\ at.pos \in 1..Len(call.str) /\ q = Append(word[s], Chr)
          /\ word[s] = SubSeq(call.str, 1, at.pos - 1)
      BY <1>1, AtCursor
    <2> QED
      BY <2>1, <2>2
  <1>5. q \in Seq(Char) /\ Len(q) = at.pos /\ q[at.pos] = Chr
    BY <1>1, <1>4, AtCursor, SMTT(30)
  <1>6. \A t \in 0..fst.len : ~Begins(q, word[t])
    BY <1>1, NoFurther
  <1>7. /\ pc' = "add" /\ call' = call /\ at' = [state |-> new, pos |-> at.pos + 1]
    BY <1>1 DEF Goto
  <1> HIDE DEF q
  <1>8. Words'
    <2>1. word' \in [0..new -> Seq(Char)]
      <3>1. \A t \in 0..new : word'[t] \in Seq(Char)
        BY <1>2, <1>3, <1>5, Shape
      <3>2. word' = [t \in 0..new |-> word'[t]]
        BY <1>3 DEF Recorded
      <3> QED
        BY <3>1, <3>2
    <2>2. word'[0] = <<>>
      BY <1>2, <1>3 DEF HInv, Words
    <2> QED
      BY <1>1, <2>1, <2>2 DEF Words
  <1>9. \A t \in 0..fst.len : word[t] # q
    BY <1>5, <1>6, BeginsSelf
  <1>10. WordsNameStates'
    <2>1. \A t, u \in DOMAIN word' : word'[t] = word'[u] => t = u
      <3>1. \A t, u \in 0..fst.len : word[t] = word[u] => t = u
        BY OneState
      <3> QED
        BY <1>2, <1>3, <1>9, <3>1
    <2>2. ASSUME NEW t \in DOMAIN word', NEW i \in DOMAIN trans'[t],
                 trans'[t][i].chr # NUL
          PROVE  word'[trans'[t][i].next] = Append(word'[t], trans'[t][i].chr)
      <3>1. t # new
        BY <1>1, <2>2
      <3>2. t \in 0..fst.len /\ word'[t] = word[t]
        BY <1>2, <1>3, <2>2, <3>1
      <3>3. CASE t = s /\ i = n
        <4>1. trans'[t][i].next = new /\ trans'[t][i].chr = Chr
          BY <1>1, <3>3
        <4> QED
          BY <1>3, <1>4, <3>2, <3>3, <4>1 DEF q
      <3>4. CASE ~(t = s /\ i = n)
        <4>1. i \in DOMAIN trans[t] /\ trans'[t][i] = trans[t][i]
          BY <1>1, <2>2, <3>2, <3>4, Shape
        <4>2. /\ trans[t][i].next \in 1..fst.len
              /\ word[trans[t][i].next] = Append(word[t], trans[t][i].chr)
          BY <2>2, <3>2, <4>1, ChildWord
        <4>3. word'[trans[t][i].next] = word[trans[t][i].next]
          BY <1>2, <1>3, <4>2, SMTT(30)
        <4> QED
          BY <3>2, <4>1, <4>2, <4>3
      <3> QED
        BY <3>3, <3>4
    <2> QED
      BY <2>1, <2>2 DEF WordsNameStates
  <1>11. PrefixClosed'
    <2> DEFINE Leads(p, c) ==
                 \E u \in 0..new : \E i \in DOMAIN trans'[u] :
                     word'[u] = p /\ trans'[u][i].chr = c
    <2>1. ASSUME NEW t \in 0..fst.len, NEW k \in 1..Len(word[t])
          PROVE  Leads(SubSeq(word[t], 1, k - 1), word[t][k])
      <3>1. PICK u \in 0..fst.len : \E i \in DOMAIN trans[u] :
                /\ word[u] = SubSeq(word[t], 1, k - 1)
                /\ trans[u][i].chr = word[t][k]
        BY <2>1 DEF HInv, PrefixClosed
      <3>2. PICK i \in DOMAIN trans[u] :
                /\ word[u] = SubSeq(word[t], 1, k - 1)
                /\ trans[u][i].chr = word[t][k]
        BY <3>1
      <3>3. i \in DOMAIN trans'[u] /\ trans'[u][i] = trans[u][i]
        BY <1>1, <3>2, Shape
      <3>4. u \in 0..new /\ word'[u] = word[u]
        BY <1>2, <1>3
      <3> QED
        BY <3>2, <3>3, <3>4
    <2>2. ASSUME NEW k \in 1..at.pos
          PROVE  Leads(SubSeq(q, 1, k - 1), q[k])
      <3>1. CASE k = at.pos
        <4>1. s \in 0..new /\ n \in DOMAIN trans'[s] /\ trans'[s][n].chr = q[k]
          BY <1>1, <1>2, <1>5, <3>1
        <4>2. word'[s] = SubSeq(q, 1, k - 1)
          <5>1. SubSeq(q, 1, k - 1) = SubSeq(call.str, 1, k - 1)
            BY <1>4, <3>1, FirstOfFirst DEF q
          <5> QED
            BY <1>1, <1>3, <1>4, <3>1, <5>1
        <4> QED
          BY <4>1, <4>2
      <3>2. CASE k < at.pos
        <4>1. Len(word[s]) = at.pos - 1 /\ k \in 1..Len(word[s])
          BY <1>1, <1>4, <3>2, AtCursor
        <4>2. SubSeq(q, 1, k - 1) = SubSeq(word[s], 1, k - 1)
          BY <1>1, <1>4, <4>1, FirstOfAppended
        <4>3. q[k] = word[s][k]
          BY <1>1, <1>4, <4>1
        <4> HIDE DEF Leads
        <4> QED
          BY <1>1, <2>1, <4>1, <4>2, <4>3
      <3>3. k = at.pos \/ k < at.pos
        BY <1>4
      <3> QED
        BY <3>1, <3>2, <3>3
    <2>3. ASSUME NEW t \in 0..new, NEW k \in 1..Len(word'[t])
          PROVE  Leads(SubSeq(word'[t], 1, k - 1), word'[t][k])
      <3> HIDE DEF Leads
      <3>1. CASE t = new
        <4>1. word'[t] = q /\ k \in 1..at.pos
          BY <1>3, <1>5, <3>1
        <4> QED
          BY <2>2, <4>1
      <3>2. CASE t # new
        <4>1. t \in 0..fst.len /\ word'[t] = word[t]
          BY <1>2, <1>3, <3>2
        <4> QED
          BY <2>1, <4>1
      <3> QED
        BY <3>1, <3>2
    <2>4. fst'.len = new
      BY <1>1
    <2> HIDE DEF new
    <2> QED
      BY <2>3, <2>4 DEF PrefixClosed
  <1>12. Trail'
    <2>1. at'.state = new /\ at'.pos = at.pos + 1 /\ at'.pos - 1 = at.pos
          /\ at'.pos <= Len(call.str) + 1
      BY <1>4, <1>7
    <2> QED
      BY <1>3, <1>7, <2>1 DEF Trail, q
  <1>13. WordsInUse'
    <2> SUFFICES ASSUME NEW t \in 1..new
                 PROVE  \/ \E w \in Stored : Begins(word'[t], w)
                        \/ Begins(word'[t], call.str)
      BY <1>1, <1>3, <1>7 DEF WordsInUse
    <2>1. CASE t = new
      <3>1. Begins(q, call.str)
        BY <1>4, BeginsFirst DEF q
      <3> QED
        BY <1>3, <2>1, <3>1
    <2>2. CASE t \in 1..fst.len
      BY <1>2, <1>3, <2>2 DEF HInv, WordsInUse
    <2> QED
      BY <1>2, <2>1, <2>2
  <1>14. Passed'
    BY <1>7 DEF Passed
  <1> QED
    BY <1>8, <1>10, <1>11, <1>12, <1>13, <1>14 DEF HInv

\* Every step keeps the invariant.
LEMMA HStepInv == HInv /\ IInv' /\ [HNext]_hvars => HInv'
  <1> SUFFICES ASSUME HInv, IInv', [HNext]_hvars PROVE HInv'
    OBVIOUS
  <1>1. CASE UNCHANGED hvars
    <2>1. Stored' = Stored
      BY <1>1 DEF hvars, Stored, Final
    <2>2. Words' /\ WordsNameStates' /\ PrefixClosed' /\ Trail' /\ WordsInUse'
      BY <1>1, <2>1
         DEF hvars, HInv, Words, WordsNameStates, PrefixClosed, Trail, WordsInUse
    <2>3. Passed'
      BY <1>1, <2>1 DEF hvars, HInv, Passed, Extends
    <2> QED
      BY <2>2, <2>3 DEF HInv
  <1>2. CASE HNext
    <2>1. Recorded
      BY <1>2 DEF HNext
    <2>2. CASE \E c \in Calls : Invoke(c)
      BY <2>1, <2>2, InvokeHInv
    <2>3. CASE AddFail \/ AddFinal \/ AddNewState \/ AddFollow
      BY <2>1, <2>3, AddFailHInv, AddFinalHInv, AddNewStateHInv, AddFollowHInv
    <2>4. CASE LookupFault \/ LookupFinal \/ LookupEnd \/ LookupMiss \/ LookupFollow
      BY <2>1, <2>4, LookupAnswerHInv, LookupFollowHInv
    <2> QED
      BY <1>2, <2>2, <2>3, <2>4 DEF HNext, Next, Step
  <1> QED
    BY <1>1, <1>2

\* The history variable only watches: what holds of Spec holds here.
LEMMA OnlyWatches == HSpec => Spec
  <1>1. HInit => Init
    BY DEF HInit
  <1>2. [HNext]_hvars => [Next]_vars
    BY DEF HNext, hvars, vars
  <1> QED
    BY <1>1, <1>2, PTL DEF HSpec, Spec

\* The inductive invariant holds throughout.
THEOREM HInvariance == HSpec => []HInv
  <1>1. HSpec => []IInv
    BY OnlyWatches, Invariance, PTL
  <1> QED
    BY <1>1, HInitInv, HStepInv, PTL DEF HSpec

\* However strings overlap, each state of the transducer stands for one prefix
\* of them, and fst_add_string never makes a second state for the same one.
THEOREM UniqueWords == HSpec => []WordsNameStates
  BY HInvariance, PTL DEF HInv

\* No state is left that leads to no stored string, not even by an addition
\* that ends in EEXIST.
THEOREM NoUselessStates == HSpec => []WordsInUse
  BY HInvariance, PTL DEF HInv

\* ENOENT is the answer to a prefix lookup only where no stored string begins
\* the key, if none of them begins another: MissedPrefixes, step by step.
LEMMA FoundStep == HInv /\ PrefixFound /\ [HNext]_hvars => PrefixFound'
  <1> SUFFICES ASSUME HInv, PrefixFound, [HNext]_hvars PROVE PrefixFound'
    OBVIOUS
  <1>1. CASE UNCHANGED hvars
    <2>1. Stored' = Stored
      BY <1>1 DEF hvars, Stored, Final
    <2> QED
      BY <1>1, <2>1 DEF hvars, PrefixFound, PrefixFree
  <1>2. CASE LookupMiss /\ Recorded
    <2>1. UNCHANGED <<fst, trans, call>> /\ Stored' = Stored
      BY <1>2, SameWords DEF LookupMiss, Return
    <2> SUFFICES ASSUME call.op = "prefix", PrefixFree,
                        NEW w \in Stored, Begins(w, call.str)
                 PROVE  FALSE
      <3>1. PrefixFree' => PrefixFree
        BY <2>1 DEF PrefixFree
      <3> QED
        BY <2>1, <3>1 DEF PrefixFound
    <2>2. Extends(w)
      BY <1>2, MissedPrefixes
    <2> QED
      BY <2>2 DEF Extends, PrefixFree
  <1>3. CASE ~LookupMiss /\ HNext
    <2>1. CASE pc' # "idle"
      BY <2>1 DEF PrefixFound
    <2>2. CASE pc' = "idle"
      <3>1. \/ pc = "add" /\ call' = call
            \/ ret'.err = "OK"
        BY <1>3, <2>2 DEF HNext, Next, Step, Invoke, AddFail, AddFinal, AddNewState,
               AddFollow, LookupFault, LookupFinal, LookupEnd, LookupFollow, Return,
               Answer, Goto, PastPrefixTest, AtPrefixTest
      <3>2. pc = "add" => call.op = "add"
        BY DEF HInv, IInv, Serving
      <3> QED
        BY <3>1, <3>2 DEF PrefixFound
    <2> QED
      BY <2>1, <2>2
  <1> QED
    BY <1>1, <1>2, <1>3 DEF HNext

\* fst_lookup_prefix finds the stored string that begins a key, whenever no
\* stored string begins another.
THEOREM PrefixLookupFinds == HSpec => []PrefixFound
  <1>1. HInit => PrefixFound
    BY DEF HInit, Init, PrefixFound, Pending, Answer
  <1> QED
    BY <1>1, HInvariance, FoundStep, PTL DEF HSpec

-----------------------------------------------------------------------------
\* The dictionary that the transducer implements.

\* The transducer and the dictionary speak of the same calls and answers.
LEMMA SameApi ==
    /\ Dict!UNDEF = UNDEF /\ Dict!Calls = Calls /\ Dict!Pending = Pending
    /\ \A err, val : Dict!Answer(err, val) = Answer(err, val)
    /\ \A p, k : Dict!Begins(p, k) <=> Begins(p, k)
  BY DEF UNDEF, Dict!UNDEF, Calls, Dict!Calls, Pending, Dict!Pending,
         Answer, Dict!Answer, Begins, Dict!Begins

\* A new transducer is the empty dictionary.
LEMMA EmptyContents == HInit => Contents = <<>>
  <1> SUFFICES ASSUME HInit PROVE Contents = <<>>
    OBVIOUS
  <1>1. Final = {}
    BY DEF HInit, Init, Final
  <1> QED
    BY <1>1 DEF Contents, Stored

\* An empty transducer is an empty dictionary.
LEMMA InitMaps == HInit => Dict!Init
  BY EmptyContents, SameApi DEF HInit, Init, Dict!Init

\* What answers a call answers it in the dictionary.
LEMMA SameReturn ==
    ASSUME NEW err, NEW val, Return(err, val)
    PROVE  Dict!Return(err, val)
  BY SameApi DEF Return, Dict!Return

\* No other stored string extends the leaves of the dictionary.
LEMMA LeafIs ==
    ASSUME NEW w
    PROVE  Dict!Leaf(w) <=> ~Extends(w)
  BY SameApi DEF Dict!Leaf, Extends, Contents

\* A call of libfst is a call of the dictionary.
LEMMA InvokeMaps ==
    ASSUME HInv, Recorded, NEW c \in Calls, Invoke(c)
    PROVE  Dict!Next
  <1>1. Contents' = Contents
    BY SameWords DEF Invoke
  <1>2. Dict!Invoke(c)
    BY <1>1, SameApi DEF Invoke, Dict!Invoke
  <1> QED
    BY <1>2, SameApi DEF Dict!Next

\* The end of fst_add_string adds the string, or says that it is there.
LEMMA AddMaps ==
    ASSUME HInv, Recorded, AddFail \/ AddFinal
    PROVE  Dict!Add
  <1>1. CASE AddFail
    <2>1. /\ call.str \in Stored /\ Return("EEXIST", UNDEF)
          /\ pc = "add" /\ UNCHANGED <<fst, trans>>
      BY <1>1, AddFailStored DEF AddFail
    <2>2. Contents' = Contents
      BY <2>1, SameWords
    <2>3. Dict!Return("EEXIST", UNDEF)
      BY <2>1, SameReturn
    <2>4. call.str \in DOMAIN Contents
      BY <2>1 DEF Contents
    <2> QED
      BY <2>1, <2>2, <2>3, <2>4, SameApi DEF Dict!Add
  <1>2. CASE AddFinal
    <2>1. /\ pc = "add" /\ Return("OK", UNDEF) /\ call.str \notin Stored
      BY <1>2, AddFinalStores DEF AddFinal
    <2>4. Contents' = Extended(Contents, call.str, call.val)
      BY <1>2, AddFinalContents
    <2>5. Dict!Return("OK", UNDEF)
      BY <2>1, SameReturn
    <2>6. call.str \notin DOMAIN Contents
      BY <2>1 DEF Contents
    <2> QED
      BY <2>1, <2>4, <2>5, <2>6, SameApi DEF Dict!Add, Extended
  <1> QED
    BY <1>1, <1>2

\* A prefix lookup stops at a leaf of the dictionary.
LEMMA LookupFinalMaps ==
    ASSUME HInv, Recorded, LookupFinal
    PROVE  Dict!PrefixHit
  <1> DEFINE p == word[at.state]
  <1>1. /\ pc = "lookup" /\ call.op = "prefix" /\ UNCHANGED <<fst, trans>>
        /\ trans[at.state] # <<>> /\ IsFinalState(at.state)
        /\ Return("OK", trans[at.state][1].next)
    BY DEF LookupFinal, AtPrefixTest
  <1>2. /\ at.state \in Final /\ ~Extends(p)
        /\ ValueAt(at.state) = trans[at.state][1].next
    BY <1>1, FinalLeaf, Shape
  <1>3. p \in DOMAIN Contents /\ Contents[p] = trans[at.state][1].next
    BY <1>2, OneState, Shape DEF Contents
  <1>4. Dict!Begins(p, call.str)
    BY <1>1, AtCursor, SameApi
  <1>5. Dict!Leaf(p)
    BY <1>2, LeafIs
  <1>6. Dict!Return("OK", Contents[p])
    BY <1>1, <1>3, SameReturn
  <1>7. Contents' = Contents
    BY <1>1, SameWords
  <1> HIDE DEF p
  <1> QED
    BY <1>1, <1>3, <1>4, <1>5, <1>6, <1>7 DEF Dict!PrefixHit

\* At the end of the key, the whole key was stored.
LEMMA LookupEndMaps ==
    ASSUME HInv, Recorded, LookupEnd
    PROVE  Dict!WholeHit
  <1>1. /\ pc = "lookup" /\ UNCHANGED <<fst, trans>>
        /\ Enext.err = "OK" /\ Chr = NUL /\ Return("OK", Enext.nxt)
    BY DEF LookupEnd, PastPrefixTest
  <1>2. PICK i \in DOMAIN trans[at.state] :
            trans[at.state][i].chr = NUL /\ Enext.nxt = trans[at.state][i].next
    BY <1>1, Turn DEF HInv
  <1>3. word[at.state] = call.str
    BY <1>1, AtCursor
  <1>4. at.state \in Final /\ ValueAt(at.state) = Enext.nxt
    BY <1>2, ValueOf, Shape
  <1>5. call.str \in DOMAIN Contents /\ Contents[call.str] = Enext.nxt
    BY <1>3, <1>4, OneState, Shape, ZenonT(40) DEF Contents
  <1>6. Dict!Return("OK", Contents[call.str])
    BY <1>1, <1>5, SameReturn
  <1>7. Contents' = Contents
    BY <1>1, SameWords
  <1> QED
    BY <1>1, <1>5, <1>6, <1>7 DEF Dict!WholeHit

\* ENOENT: the key is not stored, and no leaf begins it.
LEMMA LookupMissMaps ==
    ASSUME HInv, Recorded, LookupMiss
    PROVE  Dict!Miss
  <1>1. pc = "lookup" /\ UNCHANGED <<fst, trans>> /\ Return("ENOENT", UNDEF)
    BY Turn DEF LookupMiss, PastPrefixTest, HInv
  <1>2. DOMAIN Contents = Stored
    BY DEF Contents
  <1>3. call.str \notin Stored
    BY MissedPrefixes, BeginsSelf, Shape
  <1>4. call.op = "prefix" => \A p \in Stored : ~(Begins(p, call.str) /\ ~Extends(p))
    BY MissedPrefixes
  <1>5. Contents' = Contents
    BY <1>1, SameWords
  <1>6. Dict!Return("ENOENT", Dict!UNDEF)
    BY <1>1, SameReturn, SameApi
  <1>7. call.op = "prefix" =>
            \A p \in DOMAIN Contents : ~(Dict!Begins(p, call.str) /\ Dict!Leaf(p))
    BY <1>2, <1>4, LeafIs, SameApi
  <1> QED
    BY <1>1, <1>2, <1>3, <1>5, <1>6, <1>7 DEF Dict!Miss

\* The process dies where the dictionary promises nothing.
LEMMA LookupFaultMaps ==
    ASSUME HInv, IInv', Recorded, LookupFault
    PROVE  Dict!Fault
  <1>1. /\ pc = "lookup" /\ call.op = "prefix" /\ pc' = "fault"
        /\ UNCHANGED <<fst, trans, call, ret>>
    BY DEF LookupFault, AtPrefixTest
  <1>2. fst.len = 0 /\ trans[0] = <<>>
    BY <1>1 DEF IInv, FaultOnlyWhenEmpty
  <1>3. Final = {}
    BY <1>2, Shape DEF Final
  <1>4. DOMAIN Contents = {}
    BY <1>3 DEF Contents, Stored
  <1>5. Contents' = Contents
    BY <1>1, SameWords
  <1> QED
    BY <1>1, <1>4, <1>5 DEF Dict!Fault

\* A turn of a loop that does not answer is no step of the dictionary.
LEMMA TurnStutters ==
    ASSUME HInv, Recorded, AddNewState \/ AddFollow \/ LookupFollow
    PROVE  UNCHANGED Dict!vars
  <1>1. CASE AddNewState
    <2>1. UNCHANGED <<pc, call, ret>>
      BY <1>1 DEF AddNewState, Goto
    <2> QED
      BY <1>1, <2>1, AddNewStateWords DEF Dict!vars
  <1>2. CASE AddFollow
    <2>1. UNCHANGED <<fst, trans, pc, call, ret>>
      BY <1>2 DEF AddFollow, Goto
    <2> QED
      BY <2>1, SameWords DEF Dict!vars
  <1>3. CASE LookupFollow
    <2>1. Enext.nxt # 0
      BY <1>3, Turn, Shape DEF LookupFollow, PastPrefixTest, HInv
    <2>2. UNCHANGED <<fst, trans, pc, call, ret>>
      BY <1>3, <2>1 DEF LookupFollow, Goto
    <2> QED
      BY <2>2, SameWords DEF Dict!vars
  <1> QED
    BY <1>1, <1>2, <1>3

\* Every step of the transducer is a step of the dictionary or none.
LEMMA StepMaps == HInv /\ IInv' /\ [HNext]_hvars => [Dict!Next]_Dict!vars
  <1> SUFFICES ASSUME HInv, IInv', [HNext]_hvars PROVE [Dict!Next]_Dict!vars
    OBVIOUS
  <1>1. CASE UNCHANGED hvars
    <2>1. Final' = Final /\ Stored' = Stored
      BY <1>1 DEF hvars, Final, Stored
    <2>2. Contents' = Contents
      BY <1>1, <2>1 DEF hvars, Contents, ValueAt
    <2> QED
      BY <1>1, <2>2 DEF hvars, Dict!vars
  <1>2. CASE HNext
    <2>1. Recorded
      BY <1>2 DEF HNext
    <2>2. CASE \E c \in Calls : Invoke(c)
      BY <2>1, <2>2, InvokeMaps
    <2>3. CASE AddFail \/ AddFinal
      BY <2>1, <2>3, AddMaps DEF Dict!Next, Dict!Respond
    <2>4. CASE LookupFinal \/ LookupEnd \/ LookupMiss \/ LookupFault
      BY <2>1, <2>4, LookupFinalMaps, LookupEndMaps, LookupMissMaps, LookupFaultMaps
         DEF Dict!Next, Dict!Respond
    <2>5. CASE AddNewState \/ AddFollow \/ LookupFollow
      BY <2>1, <2>5, TurnStutters
    <2> QED
      BY <1>2, <2>2, <2>3, <2>4, <2>5 DEF HNext, Next, Step
  <1> QED
    BY <1>1, <1>2

\* libfst is a dictionary, for every alphabet and every set of strings and
\* keys: no call answers what the dictionary does not allow.
THEOREM Refinement == HSpec => Dict!Spec
  <1>1. HSpec => []IInv
    BY OnlyWatches, Invariance, PTL
  <1> QED
    BY <1>1, InitMaps, HInvariance, StepMaps, PTL DEF HSpec, Dict!Spec
==============================================================================
