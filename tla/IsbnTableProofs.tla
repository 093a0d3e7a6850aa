--------------------------- MODULE IsbnTableProofs ---------------------------
(****************************************************************************)
(* What holds of the range table builder for every set of documents,        *)
(* whatever elements they are made of: the tables stay inside their         *)
(* allocations, the depth of the walk is bounded, values are indexes, an    *)
(* entry's ranges are those of its group where no refused group is left     *)
(* over, and entries and ranges say what the document says. What is copied  *)
(* onto the stack fits if the prefixes do.                                  *)
(****************************************************************************)
EXTENDS IsbnTable, SharedProofs, SequenceTheorems, FiniteSetTheorems

\* A sequence, of whatever elements.
Sequence(s) == s \in Seq(Range(s))

\* The names of the elements that the functions under way were called for.
Levels == <<ROOT, "RegistrationGroups", "Group", "Rules", "Rule">>

Chain(f, p) ==
    /\ Len(f) \in 0..5
    /\ f = [k \in 1..Len(f) |-> [name |-> Levels[k], todo |-> f[k].todo]]
    /\ p = [k \in 1..Len(f) |-> Levels[k]]

\* The walk: which function is under way depends on the depth alone.
Nested ==
    /\ Chain(frames, path)
    /\ tpc = "doc" => Len(frames) = 0
    /\ tpc = "walk" => Len(frames) > 0
    /\ tpc = "prefix" => Len(frames) = 3
    /\ tpc = "done" => Len(frames) = 0
    /\ status \in {-1, 2}

\* Room in both tables.
TablesHold ==
    /\ Sequence(prefixes) /\ VecHolds(prefix_vec, prefix_nr)
    /\ Sequence(ranges) /\ VecHolds(ranges_vec, rule_nr)

\* cur_value counts the entries, and the transducer has all their prefixes.
Numbered ==
    /\ cur_value = prefix_nr
    /\ \A j \in 1..prefix_nr : prefixes[j].prefix \in DOMAIN dict
    /\ \A w \in DOMAIN dict : dict[w] \in Nat
    /\ ValuesAreIndexes

\* The group that the last entry came from.
LastGroup == IF prefix_nr = 0 THEN 0 ELSE source.prefixes[prefix_nr]

\* Where the next entry's ranges begin.
FirstRule == rule_nr - new_prefix.nrules

\* The groups whose ranges an entry of the prefix table gets: its own, and those
\* of refused prefixes since the entry before.
Owners(k) ==
    (IF k = 1 THEN 0 ELSE source.prefixes[k - 1]) + 1..source.prefixes[k]

\* What the code does with a refused group's rules: the next entry has them, in
\* front of its own.
RulesHandedOn ==
    \A k \in 1..prefix_nr :
        {r \in 1..rule_nr : source.ranges[r] \in Owners(k)}
            = prefixes[k].rule_idx + 1..prefixes[k].rule_idx + prefixes[k].nrules

\* Entries come from groups in the order of the document, one group each.
EntriesInOrder == \A k \in 1..prefix_nr : source.prefixes[k] \in Owners(k)

\* new_prefix counts the ranges since the last entry.  A group under way comes
\* after those of all entries; a new entry and its ranges are then of no group
\* that an earlier entry has.
Counts ==
    /\ source \in [group : Nat, ranges : Seq(Nat), prefixes : Seq(Nat)]
    /\ Len(source.ranges) = rule_nr /\ Len(source.prefixes) = prefix_nr
    /\ \A r \in 1..rule_nr : source.ranges[r] <= source.group
    /\ \A k \in 1..prefix_nr : source.prefixes[k] <= LastGroup
    /\ LastGroup <= source.group
    /\ Len(frames) >= 3 => LastGroup < source.group
    /\ new_prefix \in [rule_idx : Int, nrules : 0..rule_nr]
    /\ \/ new_prefix.rule_idx = FirstRule
       \/ new_prefix.rule_idx = UNDEF_INDEX /\ new_prefix.nrules = 0
    /\ {r \in 1..rule_nr : source.ranges[r] > LastGroup} = FirstRule + 1..rule_nr
    /\ RulesHandedOn /\ EntriesInOrder

TableIInv == Nested /\ TablesHold /\ Numbered /\ Counts

-----------------------------------------------------------------------------
\* What Append does to a sequence of whatever elements.
LEMMA AppendSequence ==
    ASSUME NEW s, Sequence(s), NEW e
    PROVE  /\ Len(s) \in Nat
           /\ Sequence(Append(s, e))
           /\ Len(Append(s, e)) = Len(s) + 1
           /\ Append(s, e)[Len(s) + 1] = e
           /\ \A k \in 1..Len(s) : Append(s, e)[k] = s[k]
  <1> DEFINE t == Append(s, e)
             S == Range(s) \cup {e}
  <1>1. s \in Seq(S)
    <2>1. s \in Seq(Range(s)) /\ Range(s) \subseteq S
      BY DEF Sequence
    <2> QED
      BY <2>1, SeqMonotonic
  <1>2. e \in S
    OBVIOUS
  <1> HIDE DEF S
  <1>3. /\ Len(s) \in Nat /\ t \in Seq(S) /\ Len(t) = Len(s) + 1
        /\ t[Len(s) + 1] = e /\ \A k \in 1..Len(s) : t[k] = s[k]
    BY <1>1, <1>2
  <1> HIDE DEF t
  <1>4. \A k \in 1..Len(t) : t[k] \in Range(t)
    BY <1>3 DEF Range
  <1>5. t = [k \in 1..Len(t) |-> t[k]]
    BY <1>3
  <1>6. Sequence(t)
    BY <1>3, <1>4, <1>5, IsASeq DEF Sequence
  <1> QED
    BY <1>3, <1>6 DEF t

\* The names by depth.
LEMMA LevelNames ==
    /\ Levels[1] = ROOT /\ Levels[2] = "RegistrationGroups"
    /\ Levels[3] = "Group" /\ Levels[4] = "Rules" /\ Levels[5] = "Rule"
    /\ ROOT = "ISBNRangeMessage"
  BY DEF Levels, ROOT

\* The function under way and its depth.
LEMMA Depth ==
    ASSUME Chain(frames, path), Len(frames) > 0
    PROVE  /\ Frame = frames[Len(frames)]
           /\ Frame.name = Levels[Len(frames)]
           /\ Frame.name = ROOT <=> Len(frames) = 1
           /\ Frame.name = "RegistrationGroups" <=> Len(frames) = 2
           /\ Frame.name = "Group" <=> Len(frames) = 3
           /\ Frame.name = "Rules" <=> Len(frames) = 4
           /\ Frame.name = "Rule" <=> Len(frames) = 5
  <1>1. Frame = frames[Len(frames)]
    BY DEF Frame, Last
  <1>2. Len(frames) \in 1..5
    BY DEF Chain
  <1>3. Frame.name = Levels[Len(frames)]
    BY <1>1, <1>2 DEF Chain
  <1>4. Len(frames) \in {1, 2, 3, 4, 5}
    BY <1>2
  <1> QED
    BY <1>1, <1>3, <1>4, LevelNames

\* cur = cur->next leaves the path as it is, ...
LEMMA Sibling ==
    ASSUME Chain(frames, path), Len(frames) > 0
    PROVE  Chain(NextSibling, path) /\ Len(NextSibling) = Len(frames)
  <1> DEFINE n == Len(frames)
             g == [frames[n] EXCEPT !.todo = Tail(@)]
             new == NextSibling
  <1>1. n \in 1..5 /\ frames \in Seq(Range(frames)) /\ DOMAIN frames = 1..n
    BY DEF Chain, Range
  <1>2. \A k \in 1..n : frames[k] = [name |-> Levels[k], todo |-> frames[k].todo]
    BY DEF Chain
  <1>3. new = [frames EXCEPT ![n] = g]
    BY DEF NextSibling
  <1>4. g = [name |-> Levels[n], todo |-> g.todo]
    <2> DEFINE rest == Tail(frames[n].todo)
    <2>1. frames[n] = [name |-> Levels[n], todo |-> frames[n].todo]
      BY <1>1, <1>2
    <2> HIDE DEF rest
    <2>2. [frames[n] EXCEPT !.todo = rest] = [name |-> Levels[n], todo |-> rest]
      BY <2>1
    <2> QED
      BY <2>2 DEF rest
  <1> HIDE DEF g, new
  <1>5. Len(new) = n
    BY <1>1, <1>3
  <1>6. \A k \in 1..n : new[k] = [name |-> Levels[k], todo |-> new[k].todo]
    BY <1>1, <1>2, <1>3, <1>4
  <1>7. new = [k \in 1..n |-> [name |-> Levels[k], todo |-> new[k].todo]]
    BY <1>1, <1>3, <1>6
  <1>8. Chain(new, path)
    BY <1>1, <1>5, <1>7 DEF Chain
  <1> QED
    BY <1>5, <1>8 DEF new

\* ... push_path follows a call, ...
LEMMA Pushed ==
    ASSUME NEW f, NEW p, Chain(f, p), Len(f) <= 4,
           NEW name, name = Levels[Len(f) + 1], NEW todo
    PROVE  /\ Chain(Append(f, [name |-> name, todo |-> todo]), Append(p, name))
           /\ Len(Append(f, [name |-> name, todo |-> todo])) = Len(f) + 1
  <1> DEFINE n == Len(f)
             e == [name |-> name, todo |-> todo]
             new == Append(f, e)
             q == Append(p, name)
  <1>1. /\ n \in 0..4 /\ Sequence(f) /\ DOMAIN f = 1..n
        /\ Len(p) = n /\ Sequence(p) /\ DOMAIN p = 1..n
        /\ \A k \in 1..n : p[k] = Levels[k]
        /\ \A k \in 1..n : f[k] = [name |-> Levels[k], todo |-> f[k].todo]
    <2>1. n \in 0..4
      BY DEF Chain
    <2>2. DOMAIN f = 1..n /\ f \in [1..n -> Range(f)]
      BY DEF Chain, Range
    <2>3. DOMAIN p = 1..n /\ p \in [1..n -> Range(p)]
      BY DEF Chain, Range
    <2>4. Sequence(f) /\ Sequence(p) /\ Len(p) = n
      BY <2>1, <2>2, <2>3 DEF Sequence
    <2> QED
      BY <2>1, <2>2, <2>3, <2>4 DEF Chain
  <1>2. e.name = Levels[n + 1] /\ e.todo = todo
        /\ e = [name |-> Levels[n + 1], todo |-> e.todo]
    OBVIOUS
  <1> HIDE DEF e, n
  <1>3. /\ Sequence(new) /\ Len(new) = n + 1 /\ new[n + 1] = e
        /\ \A k \in 1..n : new[k] = f[k]
    BY <1>1, AppendSequence DEF n
  <1>4. /\ Sequence(q) /\ Len(q) = n + 1 /\ q[n + 1] = Levels[n + 1]
        /\ \A k \in 1..n : q[k] = Levels[k]
    BY <1>1, AppendSequence DEF n
  <1> HIDE DEF new, q
  <1>5. 1..n + 1 = 1..n \cup {n + 1}
    BY <1>1
  <1>6. new = [k \in 1..n + 1 |-> [name |-> Levels[k], todo |-> new[k].todo]]
    <2>1. \A k \in 1..n + 1 : new[k] = [name |-> Levels[k], todo |-> new[k].todo]
      BY <1>1, <1>2, <1>3, <1>5
    <2>2. new = [k \in 1..n + 1 |-> new[k]]
      BY <1>3 DEF Sequence
    <2> QED
      BY <2>1, <2>2
  <1>7. q = [k \in 1..n + 1 |-> Levels[k]]
    <2>1. \A k \in 1..n + 1 : q[k] = Levels[k]
      BY <1>4, <1>5
    <2>2. q = [k \in 1..n + 1 |-> q[k]]
      BY <1>4 DEF Sequence
    <2> QED
      BY <2>1, <2>2
  <1>8. n + 1 \in 0..5
    BY <1>1
  <1>9. Chain(new, q) /\ Len(new) = n + 1
    BY <1>3, <1>6, <1>7, <1>8 DEF Chain
  <1> QED
    BY <1>9 DEF new, q, e, n

\* ... and pop_path comes with every return.
LEMMA Popped ==
    ASSUME NEW f, NEW p, Chain(f, p), Len(f) > 0
    PROVE  Chain(Pop(f), Pop(p)) /\ Len(Pop(f)) = Len(f) - 1
  <1> DEFINE n == Len(f)
             new == Pop(f)
             q == Pop(p)
  <1>1. n \in 1..5 /\ DOMAIN f = 1..n /\ f \in Seq(Range(f))
        /\ DOMAIN p = 1..n /\ p \in Seq(Range(p)) /\ Len(p) = n
    BY DEF Chain, Range
  <1>2. /\ \A k \in 1..n : f[k] = [name |-> Levels[k], todo |-> f[k].todo]
        /\ \A k \in 1..n : p[k] = Levels[k]
    BY DEF Chain
  <1>3. /\ new \in Seq(Range(f)) /\ Len(new) = n - 1
        /\ \A k \in 1..n - 1 : new[k] = f[k]
    BY <1>1 DEF Pop
  <1>4. /\ q \in Seq(Range(p)) /\ Len(q) = n - 1
        /\ \A k \in 1..n - 1 : q[k] = p[k]
    BY <1>1 DEF Pop
  <1> HIDE DEF new, q
  <1>5. new = [k \in 1..n - 1 |-> [name |-> Levels[k], todo |-> new[k].todo]]
    <2>1. \A k \in 1..n - 1 : new[k] = [name |-> Levels[k], todo |-> new[k].todo]
      BY <1>1, <1>2, <1>3
    <2>2. new = [k \in 1..n - 1 |-> new[k]]
      BY <1>3
    <2> QED
      BY <2>1, <2>2
  <1>6. q = [k \in 1..n - 1 |-> Levels[k]]
    <2>1. \A k \in 1..n - 1 : q[k] = Levels[k]
      BY <1>1, <1>2, <1>4
    <2>2. q = [k \in 1..n - 1 |-> q[k]]
      BY <1>4
    <2> QED
      BY <2>1, <2>2
  <1>7. n - 1 \in 0..5
    BY <1>1
  <1>8. Chain(new, q) /\ Len(new) = n - 1
    BY <1>3, <1>5, <1>6, <1>7 DEF Chain
  <1> QED
    BY <1>8 DEF new, q

\* A function that descends was called at most three deep below parseDoc, so
\* that push_path has room; parseGroup is called by parseRegistrationGroups.
LEMMA Descending ==
    ASSUME Nested, Descend
    PROVE  /\ Len(frames) \in 1..4 /\ Cur.name = Levels[Len(frames) + 1]
           /\ frames' = Append(NextSibling, [name |-> Cur.name, todo |-> Cur.children])
           /\ path' = Append(path, Cur.name)
           /\ UNCHANGED <<tpc, status>>
           /\ Cur.name = "Group" <=> Len(frames) = 2
  <1>1. tpc = "walk" /\ <<Frame.name, Cur.name>> \in Descends
    BY DEF Descend, Walking, Here
  <1>2. Chain(frames, path) /\ Len(frames) > 0 /\ Len(frames) \in 1..5
    BY <1>1 DEF Nested, Chain
  <1>3. \/ Frame.name = ROOT /\ Cur.name = "RegistrationGroups"
        \/ Frame.name = "RegistrationGroups" /\ Cur.name = "Group"
        \/ Frame.name = "Group" /\ Cur.name = "Rules"
        \/ Frame.name = "Rules" /\ Cur.name = "Rule"
    BY <1>1 DEF Descends
  <1>4. \/ Len(frames) = 1 /\ Cur.name = "RegistrationGroups"
        \/ Len(frames) = 2 /\ Cur.name = "Group"
        \/ Len(frames) = 3 /\ Cur.name = "Rules"
        \/ Len(frames) = 4 /\ Cur.name = "Rule"
    BY <1>2, <1>3, Depth
  <1>5. Len(frames) \in 1..4 /\ Cur.name = Levels[Len(frames) + 1]
        /\ (Cur.name = "Group" <=> Len(frames) = 2)
    <2>1. CASE Len(frames) = 1 /\ Cur.name = "RegistrationGroups"
      BY <2>1, LevelNames
    <2>2. CASE Len(frames) = 2 /\ Cur.name = "Group"
      BY <2>2, LevelNames
    <2>3. CASE Len(frames) = 3 /\ Cur.name = "Rules"
      BY <2>3, LevelNames
    <2>4. CASE Len(frames) = 4 /\ Cur.name = "Rule"
      BY <2>4, LevelNames
    <2> QED
      BY <1>4, <2>1, <2>2, <2>3, <2>4
  <1>6. Len(path) = Len(frames)
    BY <1>2 DEF Chain
  <1>7. ~(Len(path) >= XML_MAX_DEPTH)
    BY <1>5, <1>6, DepthAssumption
  <1> QED
    BY <1>5, <1>7 DEF Descend

\* The functions that a return leaves, by depth.
LEMMA LeavingDepth ==
    ASSUME Nested, NEW names, Leaving(names)
    PROVE  /\ tpc = "walk" /\ Chain(frames, path) /\ Len(frames) \in 1..5
           /\ names = {"Rule"} => Len(frames) = 5
           /\ names = {"Rules", "RegistrationGroups"} => Len(frames) \in {2, 4}
           /\ names = {"Group"} => Len(frames) = 3
           /\ names = {ROOT} => Len(frames) = 1
  <1>1. tpc = "walk" /\ Frame.name \in names
    BY DEF Leaving
  <1>2. Chain(frames, path) /\ Len(frames) > 0 /\ Len(frames) \in 1..5
    BY <1>1 DEF Nested, Chain
  <1> QED
    BY <1>1, <1>2, Depth

\* Every step of the walk keeps to the levels.
LEMMA NestedStep ==
    ASSUME Nested, TNext
    PROVE  Nested'
  <1>1. CASE ParseDoc
    <2>1. tpc = "doc" /\ Len(frames) = 0 /\ Chain(frames, path) /\ UNCHANGED status
      BY <1>1 DEF ParseDoc, Nested
    <2>2. CASE tpc' = "done" /\ UNCHANGED <<frames, path>>
      BY <2>1, <2>2 DEF Nested
    <2>3. CASE /\ tpc' = "walk" /\ path' = <<ROOT>>
               /\ frames' = <<[name |-> ROOT, todo |-> doc.root.children]>>
      <3> DEFINE todo == doc.root.children
      <3>1. Chain(<<[name |-> ROOT, todo |-> todo]>>, <<ROOT>>)
            /\ Len(<<[name |-> ROOT, todo |-> todo]>>) = 1
        <4> HIDE DEF todo
        <4> QED
          BY LevelNames DEF Chain
      <3> HIDE DEF todo
      <3>2. Chain(frames', path') /\ Len(frames') = 1
        BY <2>3, <3>1 DEF todo
      <3> QED
        BY <2>1, <2>3, <3>2 DEF Nested
    <2> QED
      BY <1>1, <2>2, <2>3 DEF ParseDoc
  <1>2. CASE Descend
    <2>1. /\ Len(frames) \in 1..4 /\ Cur.name = Levels[Len(frames) + 1]
          /\ frames' = Append(NextSibling, [name |-> Cur.name, todo |-> Cur.children])
          /\ path' = Append(path, Cur.name) /\ UNCHANGED <<tpc, status>>
      BY <1>2, Descending
    <2> DEFINE next == NextSibling
               name == Cur.name
               todo == Cur.children
    <2>2. Len(frames) > 0 /\ Len(frames) <= 4 /\ Chain(frames, path)
      <3>1. Len(frames) \in 1..4
        BY <2>1
      <3>2. \A n \in 1..4 : n > 0 /\ n <= 4
        OBVIOUS
      <3> QED
        BY <3>1, <3>2 DEF Nested
    <2>3. Chain(next, path) /\ Len(next) = Len(frames)
      BY <2>2, Sibling
    <2>4. /\ frames' = Append(next, [name |-> name, todo |-> todo])
          /\ path' = Append(path, name)
          /\ name = Levels[Len(next) + 1] /\ Len(next) <= 4
      <3>1. /\ name = Levels[Len(frames) + 1]
            /\ frames' = Append(next, [name |-> name, todo |-> todo])
            /\ path' = Append(path, name)
        BY <2>1
      <3> HIDE DEF next, name, todo
      <3> QED
        BY <2>2, <2>3, <3>1
    <2> HIDE DEF next, name, todo
    <2>5. Chain(frames', path') /\ Len(frames') = Len(frames) + 1
      BY <2>3, <2>4, Pushed
    <2>6. tpc = "walk"
      BY <1>2 DEF Descend, Walking
    <2> QED
      BY <2>1, <2>5, <2>6 DEF Nested
  <1>3. CASE ReadText \/ PassOver
    <2>1. /\ tpc = "walk" /\ tpc' \in {"walk", "fault"}
          /\ frames' = NextSibling /\ UNCHANGED <<path, status>>
      BY <1>3 DEF ReadText, PassOver, Walking
    <2>2. Len(frames) > 0 /\ Chain(frames, path)
      BY <2>1 DEF Nested
    <2>3. Chain(NextSibling, path) /\ Len(NextSibling) = Len(frames)
      BY <2>2, Sibling
    <2>4. Chain(frames', path') /\ Len(frames') = Len(frames)
      BY <2>1, <2>3
    <2> QED
      BY <2>1, <2>2, <2>4 DEF Nested
  <1>4. CASE RefuseRule \/ AddRule
    <2>1. /\ Leaving({"Rule"}) /\ frames' = Pop(frames) /\ path' = Pop(path)
          /\ \/ tpc' = "exit" /\ status' = 2
             \/ UNCHANGED <<tpc, status>>
      BY <1>4 DEF RefuseRule, AddRule, LeaveRule
    <2>2. Len(frames) = 5 /\ Len(frames) > 0 /\ tpc = "walk" /\ Chain(frames, path)
      BY <2>1, LeavingDepth
    <2>3. Chain(Pop(frames), Pop(path)) /\ Len(Pop(frames)) = Len(frames) - 1
      BY <2>2, Popped
    <2>4. Chain(frames', path') /\ Len(frames') = 4
      BY <2>1, <2>2, <2>3
    <2> QED
      BY <2>1, <2>2, <2>4 DEF Nested
  <1>5. CASE Ascend
    <2>1. /\ Leaving({"Rules", "RegistrationGroups"}) /\ UNCHANGED <<tpc, status>>
          /\ frames' = Pop(frames) /\ path' = Pop(path)
      BY <1>5 DEF Ascend
    <2>2. Len(frames) \in {2, 4} /\ tpc = "walk" /\ Chain(frames, path)
      BY <2>1, LeavingDepth
    <2>3. Chain(Pop(frames), Pop(path)) /\ Len(Pop(frames)) = Len(frames) - 1
      BY <2>2, Popped
    <2>4. Chain(frames', path') /\ Len(frames') > 0
      BY <2>1, <2>2, <2>3
    <2> QED
      BY <2>1, <2>2, <2>4 DEF Nested
  <1>6. CASE LeaveGroup
    <2>1. Leaving({"Group"}) /\ tpc' = "prefix" /\ UNCHANGED <<frames, path, status>>
      BY <1>6 DEF LeaveGroup
    <2>2. Len(frames) = 3
      BY <2>1, LeavingDepth
    <2> QED
      BY <2>1, <2>2 DEF Nested
  <1>7. CASE AddPrefix \/ RefusePrefix
    <2>1. /\ tpc = "prefix" /\ tpc' = "walk" /\ UNCHANGED status
          /\ frames' = Pop(frames) /\ path' = Pop(path)
      BY <1>7 DEF AddPrefix, RefusePrefix
    <2>2. Len(frames) = 3 /\ Len(frames) > 0 /\ Chain(frames, path)
      BY <2>1 DEF Nested
    <2>3. Chain(Pop(frames), Pop(path)) /\ Len(Pop(frames)) = Len(frames) - 1
      BY <2>2, Popped
    <2>4. Chain(frames', path') /\ Len(frames') = 2
      BY <2>1, <2>2, <2>3
    <2> QED
      BY <2>1, <2>4 DEF Nested
  <1>8. CASE EndOfDocument
    <2>1. /\ Leaving({ROOT}) /\ tpc' = "done" /\ UNCHANGED status
          /\ frames' = Pop(frames) /\ path' = Pop(path)
      BY <1>8 DEF EndOfDocument
    <2>2. Len(frames) = 1 /\ Len(frames) > 0 /\ Chain(frames, path)
      BY <2>1, LeavingDepth
    <2>3. Chain(Pop(frames), Pop(path)) /\ Len(Pop(frames)) = Len(frames) - 1
      BY <2>2, Popped
    <2>4. Chain(frames', path') /\ Len(frames') = 0
      BY <2>1, <2>2, <2>3
    <2> QED
      BY <2>1, <2>4 DEF Nested
  <1> QED
    BY <1>1, <1>2, <1>3, <1>4, <1>5, <1>6, <1>7, <1>8 DEF TNext

\* The steps that touch the tables or count groups, and what the others leave.
LEMMA OtherSteps ==
    ASSUME TNext
    PROVE  \/ Descend \/ AddRule \/ AddPrefix \/ RefusePrefix
           \/ UNCHANGED <<rules, entries, source>>
  BY DEF TNext, ParseDoc, ReadText, PassOver, RefuseRule, Ascend, LeaveGroup,
         EndOfDocument

\* Every element is stored in room made for it.
LEMMA TablesStep ==
    ASSUME TablesHold, TNext
    PROVE  TablesHold'
  <1>1. prefix_nr \in Nat /\ rule_nr \in Nat
    BY LenProperties DEF TablesHold, Sequence, prefix_nr, rule_nr
  <1>2. CASE AddRule
    <2> PICK e : ranges' = Append(ranges, e)
                 /\ ranges_vec' = [VecMakeRoom(ranges_vec, rule_nr) EXCEPT !.len = @ + 1]
      BY <1>2 DEF AddRule, StoreRule
    <2>1. Sequence(ranges') /\ Len(ranges') = rule_nr + 1
      BY AppendSequence DEF TablesHold, rule_nr
    <2>2. VecHolds(ranges_vec', rule_nr + 1)
      BY <1>1, MakeRoomHolds DEF TablesHold
    <2>3. UNCHANGED <<prefixes, prefix_vec>>
      BY <1>2 DEF AddRule, entries
    <2> QED
      BY <2>1, <2>2, <2>3 DEF TablesHold, prefix_nr, rule_nr
  <1>3. CASE AddPrefix
    <2> PICK e : prefixes' = Append(prefixes, e)
                 /\ prefix_vec' = [VecMakeRoom(prefix_vec, prefix_nr) EXCEPT !.len = @ + 1]
      BY <1>3 DEF AddPrefix
    <2>1. Sequence(prefixes') /\ Len(prefixes') = prefix_nr + 1
      BY AppendSequence DEF TablesHold, prefix_nr
    <2>2. VecHolds(prefix_vec', prefix_nr + 1)
      BY <1>1, MakeRoomHolds DEF TablesHold
    <2>3. UNCHANGED <<ranges, ranges_vec>>
      BY <1>3 DEF AddPrefix
    <2> QED
      BY <2>1, <2>2, <2>3 DEF TablesHold, prefix_nr, rule_nr
  <1>4. CASE RefusePrefix
    <2>1. prefix_vec' = VecMakeRoom(prefix_vec, prefix_nr)
          /\ UNCHANGED <<prefixes, ranges, ranges_vec>>
      BY <1>4 DEF RefusePrefix, rules
    <2>2. VecHolds(prefix_vec', prefix_nr)
      BY <1>1, <2>1, MakeRoomHolds DEF TablesHold
    <2> QED
      BY <2>1, <2>2 DEF TablesHold, prefix_nr, rule_nr
  <1>5. CASE Descend \/ UNCHANGED <<rules, entries, source>>
    <2>1. UNCHANGED <<prefixes, prefix_vec, ranges, ranges_vec>>
      BY <1>5 DEF Descend, rules, entries
    <2> QED
      BY <2>1 DEF TablesHold, prefix_nr, rule_nr
  <1> QED
    BY <1>2, <1>3, <1>4, <1>5, OtherSteps

\* cur_value goes on with the entry that it is stored for; a prefix that is
\* there already keeps the value of its first entry.
LEMMA NumberedStep ==
    ASSUME TablesHold, Numbered, TNext
    PROVE  Numbered'
  <1>1. CASE AddPrefix
    <2> DEFINE n == prefix_nr
               e == NewEntry
               w == e.prefix
               new == Append(prefixes, e)
               f == DictWith(w)
    <2>1. /\ n \in Nat /\ Len(new) = n + 1 /\ new[n + 1] = e
          /\ \A j \in 1..n : new[j] = prefixes[j]
      BY AppendSequence DEF TablesHold, prefix_nr
    <2>2. prefixes' = new /\ dict' = f /\ cur_value' = cur_value + 1
      BY <1>1 DEF AddPrefix, StorePrefix
    <2>3. /\ DOMAIN f = DOMAIN dict \cup {w}
          /\ \A v \in DOMAIN dict : f[v] = dict[v]
          /\ w \notin DOMAIN dict => f[w] = n
      BY DEF DictWith, Numbered
    <2>4. /\ cur_value = n
          /\ \A j \in 1..n : prefixes[j].prefix \in DOMAIN dict
          /\ \A v \in DOMAIN dict :
                /\ dict[v] \in Nat
                /\ dict[v] + 1 \in 1..n
                /\ prefixes[dict[v] + 1].prefix = v
                /\ \A j \in 1..dict[v] : prefixes[j].prefix # v
      BY DEF Numbered, ValuesAreIndexes
    <2> HIDE DEF n, e, new, f
    <2>5. 1..n + 1 = 1..n \cup {n + 1}
      BY <2>1
    <2>6. \A j \in 1..n + 1 : new[j].prefix \in DOMAIN f
      BY <2>1, <2>3, <2>4, <2>5
    <2>7. ASSUME NEW v \in DOMAIN f
          PROVE  /\ f[v] \in Nat
                 /\ f[v] + 1 \in 1..n + 1
                 /\ new[f[v] + 1].prefix = v
                 /\ \A j \in 1..f[v] : new[j].prefix # v
      <3>1. CASE v \in DOMAIN dict
        <4> DEFINE k == dict[v]
        <4>1. f[v] = k /\ k \in Nat /\ k + 1 \in 1..n /\ prefixes[k + 1].prefix = v
              /\ \A j \in 1..k : prefixes[j].prefix # v
          BY <2>3, <2>4, <3>1
        <4> HIDE DEF k
        <4>2. new[k + 1].prefix = v
          BY <2>1, <4>1
        <4>3. k + 1 \in 1..n + 1
          BY <2>5, <4>1
        <4>4. 1..k \subseteq 1..n
          BY <2>1, <4>1
        <4>5. \A j \in 1..k : new[j].prefix # v
          BY <2>1, <4>1, <4>4
        <4> QED
          BY <4>1, <4>2, <4>3, <4>5
      <3>2. CASE v \notin DOMAIN dict
        <4>1. v = w /\ f[v] = n
          BY <2>3, <3>2
        <4>2. new[n + 1].prefix = v
          BY <2>1, <4>1
        <4>3. ASSUME NEW j \in 1..n
              PROVE  new[j].prefix # v
          <5>1. new[j] = prefixes[j] /\ prefixes[j].prefix \in DOMAIN dict
            BY <2>1, <2>4
          <5> QED
            BY <3>2, <5>1
        <4>4. n + 1 \in 1..n + 1
          BY <2>1
        <4> QED
          BY <2>1, <4>1, <4>2, <4>3, <4>4
      <3> QED
        BY <3>1, <3>2
    <2>8. /\ prefix_nr' = n + 1 /\ cur_value' = n + 1
      BY <2>1, <2>2, <2>4 DEF prefix_nr
    <2> QED
      BY <2>2, <2>6, <2>7, <2>8 DEF Numbered, ValuesAreIndexes
  <1>2. CASE ~AddPrefix
    <2>1. UNCHANGED <<prefixes, dict, cur_value>>
      BY <1>2, OtherSteps DEF Descend, AddRule, RefusePrefix, entries
    <2> QED
      BY <2>1 DEF Numbered, ValuesAreIndexes, prefix_nr
  <1> QED
    BY <1>1, <1>2

\* Only parseRegistrationGroups calls parseGroup; the other steps do not take
\* the walk into a group.
LEMMA IntoGroup ==
    ASSUME Nested, TNext, Len(frames') >= 3
    PROVE  \/ Len(frames) >= 3
           \/ Descend /\ Len(frames) = 2
  <1>1. CASE ParseDoc
    <2>1. tpc = "doc" /\ Len(frames) = 0
      BY <1>1 DEF ParseDoc, Nested
    <2>2. Len(frames') \in 0..1
      BY <1>1, <2>1 DEF ParseDoc
    <2>3. \A m \in 0..1 : ~(m >= 3)
      OBVIOUS
    <2> QED
      BY <2>2, <2>3
  <1>2. CASE Descend
    <2>1. Len(frames) \in 1..4
      BY <1>2, Descending
    <2>2. frames' = Append(NextSibling, [name |-> Cur.name, todo |-> Cur.children])
      BY <1>2, Descending
    <2>3. Len(frames) > 0 /\ Chain(frames, path)
      <3>1. Len(frames) > 0
        BY <2>1
      <3> QED
        BY <3>1 DEF Nested
    <2>4. Sequence(NextSibling) /\ Len(NextSibling) = Len(frames)
      <3>1. Chain(NextSibling, path) /\ Len(NextSibling) = Len(frames)
        BY <2>3, Sibling
      <3> QED
        BY <3>1 DEF Chain, Sequence, Range
    <2>5. Len(frames') = Len(frames) + 1
      BY <2>2, <2>4, AppendSequence
    <2>6. CASE Len(frames) = 1
      BY <2>5, <2>6
    <2>7. CASE Len(frames) = 2
      BY <1>2, <2>7
    <2>8. \A m \in 1..4 : m = 1 \/ m = 2 \/ m >= 3
      OBVIOUS
    <2> QED
      BY <2>1, <2>6, <2>7, <2>8
  <1>3. CASE ~ParseDoc /\ ~Descend
    <2>1. \/ frames' = frames
          \/ frames' = NextSibling /\ tpc = "walk"
          \/ frames' = Pop(frames) /\ tpc \in {"walk", "prefix"}
      BY <1>3 DEF TNext, ReadText, PassOver, RefuseRule, AddRule, LeaveRule, Ascend,
             LeaveGroup, AddPrefix, RefusePrefix, EndOfDocument, Walking, Leaving
    <2>2. tpc \in {"walk", "prefix"} => Len(frames) > 0 /\ Chain(frames, path)
      BY DEF Nested
    <2>3. Len(frames) \in 0..5
      BY DEF Nested, Chain
    <2>4. CASE frames' = frames
      BY <2>4
    <2>5. CASE frames' = NextSibling /\ tpc = "walk"
      <3>1. Len(NextSibling) = Len(frames)
        BY <2>2, <2>5, Sibling
      <3> QED
        BY <2>5, <3>1
    <2>6. CASE frames' = Pop(frames) /\ tpc \in {"walk", "prefix"}
      <3>1. Len(Pop(frames)) = Len(frames) - 1
        BY <2>2, <2>6, Popped
      <3> QED
        BY <2>3, <2>6, <3>1
    <2> QED
      BY <2>1, <2>4, <2>5, <2>6
  <1> QED
    BY <1>1, <1>2, <1>3


\* add_rule counts the range for the next entry: it is of the group under way,
\* which no entry has yet.
LEMMA AddRuleCounts ==
    ASSUME TableIInv, TNext, AddRule
    PROVE  Counts'
  <1> DEFINE R == rule_nr
             n == prefix_nr
             g == source.group
             src == source.ranges
             own == source.prefixes
             new == Append(src, g)
             last == LastGroup
             p == new_prefix
             q == Counted(p, R)
  <1>1. /\ R \in Nat /\ n \in Nat /\ g \in Nat
        /\ src \in Seq(Nat) /\ Len(src) = R /\ own \in Seq(Nat) /\ Len(own) = n
        /\ source \in [group : Nat, ranges : Seq(Nat), prefixes : Seq(Nat)]
        /\ p \in [rule_idx : Int, nrules : 0..R]
    BY DEF TableIInv, Counts
  <1>2. Nested /\ TablesHold
    BY DEF TableIInv
  <1>3. /\ source' = [source EXCEPT !.ranges = Append(@, source.group)]
        /\ new_prefix' = q /\ UNCHANGED prefixes
        /\ frames' = Pop(frames)
    BY DEF AddRule, StoreRule, LeaveRule, entries
  <1>4. rule_nr' = R + 1
    <2> PICK e : ranges' = Append(ranges, e)
      BY DEF AddRule, StoreRule
    <2> QED
      BY <1>2, AppendSequence DEF TablesHold, rule_nr
  <1>5. /\ source'.group = g /\ source'.ranges = new /\ source'.prefixes = own
        /\ source' \in [group : Nat, ranges : Seq(Nat), prefixes : Seq(Nat)]
    <2>1. new \in Seq(Nat)
      BY <1>1
    <2>2. source' = [source EXCEPT !.ranges = new]
      BY <1>3
    <2> HIDE DEF new
    <2> QED
      BY <1>1, <2>1, <2>2
  <1>6. prefix_nr' = n /\ LastGroup' = last /\ \A k \in 1..n : Owners(k)' = Owners(k)
    BY <1>3, <1>5 DEF prefix_nr, LastGroup, Owners
  <1>7. last < g
    <2>1. Leaving({"Rule"})
      BY DEF AddRule
    <2>2. Len(frames) = 5
      BY <1>2, <2>1, LeavingDepth
    <2>3. Len(frames) >= 3
      BY <2>2
    <2> QED
      BY <2>3 DEF TableIInv, Counts
  <1>8. /\ \A r \in 1..R : src[r] <= g
        /\ \A k \in 1..n : own[k] <= last
        /\ last <= g
        /\ \/ p.rule_idx = R - p.nrules
           \/ p.rule_idx = UNDEF_INDEX /\ p.nrules = 0
        /\ {r \in 1..R : src[r] > last} = R - p.nrules + 1..R
        /\ \A k \in 1..n : {r \in 1..R : src[r] \in Owners(k)}
               = prefixes[k].rule_idx + 1..prefixes[k].rule_idx + prefixes[k].nrules
    BY DEF TableIInv, Counts, FirstRule, RulesHandedOn
  <1>9. last \in Nat
    BY <1>1 DEF LastGroup
  <1>10. /\ new \in Seq(Nat) /\ Len(new) = R + 1 /\ new[R + 1] = g
         /\ \A r \in 1..R : new[r] = src[r]
    BY <1>1
  <1> HIDE DEF R, n, g, src, own, new, last, p, q
  <1>11. 1..R + 1 = 1..R \cup {R + 1} /\ R + 1 \notin 1..R
    BY <1>1
  <1>12. ASSUME NEW r \in 1..R + 1
         PROVE  new[r] <= g
    <2>1. CASE r \in 1..R
      BY <1>8, <1>10, <2>1
    <2>2. CASE r = R + 1
      BY <1>1, <1>10, <2>2
    <2> QED
      BY <1>11, <2>1, <2>2
  <1>13. /\ q \in [rule_idx : Int, nrules : 0..R + 1]
         /\ q.rule_idx = R + 1 - q.nrules
         /\ R + 1 - q.nrules = R - p.nrules
    <2>1. CASE p.rule_idx = UNDEF_INDEX
      <3>1. q = [rule_idx |-> R, nrules |-> 1]
        BY <2>1 DEF q, Counted
      <3>2. p.nrules = 0
        BY <1>1, <1>8, <2>1 DEF UNDEF_INDEX
      <3> QED
        BY <1>1, <3>1, <3>2
    <2>2. CASE p.rule_idx # UNDEF_INDEX
      <3>1. q = [p EXCEPT !.nrules = @ + 1]
        BY <2>2 DEF q, Counted
      <3>2. p.rule_idx = R - p.nrules
        BY <1>8, <2>2
      <3>3. q = [rule_idx |-> p.rule_idx, nrules |-> p.nrules + 1]
        BY <1>1, <3>1
      <3>4. p.nrules \in 0..R
        BY <1>1
      <3>5. /\ q.rule_idx = R - p.nrules /\ q.nrules = p.nrules + 1
            /\ q \in [rule_idx : {R - p.nrules}, nrules : {p.nrules + 1}]
        BY <3>2, <3>3
      <3>6. R - p.nrules \in Int /\ p.nrules + 1 \in 0..R + 1
            /\ R + 1 - (p.nrules + 1) = R - p.nrules
        BY <1>1, <3>4
      <3> QED
        BY <3>5, <3>6
    <2> QED
      BY <2>1, <2>2
  <1>14. {r \in 1..R + 1 : new[r] > last} = R + 1 - q.nrules + 1..R + 1
    <2>1. {r \in 1..R + 1 : new[r] > last} = {r \in 1..R : src[r] > last} \cup {R + 1}
      BY <1>7, <1>10, <1>11
    <2>2. R - p.nrules + 1..R + 1 = (R - p.nrules + 1..R) \cup {R + 1}
      BY <1>1
    <2> QED
      BY <1>8, <1>13, <2>1, <2>2
  <1>15. ASSUME NEW k \in 1..n
         PROVE  {r \in 1..R + 1 : new[r] \in Owners(k)} = {r \in 1..R : src[r] \in Owners(k)}
    <2>1. g \notin Owners(k)
      BY <1>1, <1>7, <1>8, <1>9 DEF Owners, own
    <2> QED
      BY <1>10, <1>11, <2>1
  <1>16. RulesHandedOn'
    BY <1>3, <1>4, <1>5, <1>6, <1>8, <1>15, ZenonT(40) DEF RulesHandedOn
  <1>order. EntriesInOrder'
    <2>1. \A k \in 1..n : own[k] \in Owners(k)
      BY DEF TableIInv, Counts, EntriesInOrder, n, own
    <2> QED
      BY <1>5, <1>6, <2>1 DEF EntriesInOrder
  <1>17. /\ \A r \in 1..rule_nr' : source'.ranges[r] <= source'.group
         /\ \A k \in 1..prefix_nr' : source'.prefixes[k] <= LastGroup'
    BY <1>4, <1>5, <1>6, <1>8, <1>12
  <1>18. FirstRule' = R + 1 - q.nrules
    <2>1. FirstRule' = rule_nr' - new_prefix'.nrules
      BY DEF FirstRule
    <2> QED
      BY <1>1, <1>3, <1>4, <1>13, <2>1
  <1>19. /\ new_prefix' \in [rule_idx : Int, nrules : 0..rule_nr']
         /\ new_prefix'.rule_idx = FirstRule'
         /\ {r \in 1..rule_nr' : source'.ranges[r] > LastGroup'}
                = FirstRule' + 1..rule_nr'
    BY <1>3, <1>4, <1>5, <1>6, <1>13, <1>14, <1>18
  <1>20. Len(source'.ranges) = rule_nr' /\ Len(source'.prefixes) = prefix_nr'
    BY <1>1, <1>4, <1>5, <1>6, <1>10
  <1>21. LastGroup' <= source'.group /\ LastGroup' < source'.group
    BY <1>5, <1>6, <1>7, <1>8
  <1> QED
    BY <1>5, <1>16, <1>order, <1>17, <1>19, <1>20, <1>21 DEF Counts

\* A new entry takes the ranges counted since the last one, which are those of
\* the groups after it, and the count starts again.
LEMMA AddPrefixCounts ==
    ASSUME TableIInv, TNext, AddPrefix
    PROVE  Counts'
  <1> DEFINE R == rule_nr
             n == prefix_nr
             g == source.group
             src == source.ranges
             own == source.prefixes
             new == Append(own, g)
             last == LastGroup
             p == new_prefix
             e == NewEntry
             es == Append(prefixes, e)
  <1>1. /\ R \in Nat /\ n \in Nat /\ g \in Nat
        /\ src \in Seq(Nat) /\ Len(src) = R /\ own \in Seq(Nat) /\ Len(own) = n
        /\ source \in [group : Nat, ranges : Seq(Nat), prefixes : Seq(Nat)]
        /\ p \in [rule_idx : Int, nrules : 0..R]
    BY DEF TableIInv, Counts
  <1>2. Nested /\ TablesHold
    BY DEF TableIInv
  <1>3. /\ source' = [source EXCEPT !.prefixes = Append(@, source.group)]
        /\ new_prefix' = [rule_idx |-> UNDEF_INDEX, nrules |-> 0]
        /\ UNCHANGED ranges /\ prefixes' = es
        /\ frames' = Pop(frames)
    BY DEF AddPrefix
  <1>4. /\ Len(es) = n + 1 /\ es[n + 1] = e
        /\ \A k \in 1..n : es[k] = prefixes[k]
    BY <1>2, AppendSequence DEF TablesHold, prefix_nr
  <1>5. /\ e.rule_idx = p.rule_idx /\ e.nrules = p.nrules
    BY DEF NewEntry
  <1>6. rule_nr' = R /\ prefix_nr' = n + 1
    BY <1>3, <1>4 DEF rule_nr, prefix_nr
  <1>7. /\ source'.group = g /\ source'.ranges = src /\ source'.prefixes = new
        /\ source' \in [group : Nat, ranges : Seq(Nat), prefixes : Seq(Nat)]
    <2>1. new \in Seq(Nat)
      BY <1>1
    <2>2. source' = [source EXCEPT !.prefixes = new]
      BY <1>3
    <2> HIDE DEF new
    <2> QED
      BY <1>1, <2>1, <2>2
  <1>8. /\ new \in Seq(Nat) /\ Len(new) = n + 1 /\ new[n + 1] = g
        /\ \A k \in 1..n : new[k] = own[k]
    BY <1>1
  <1>9. last < g
    <2>1. Len(frames) = 3
      BY <1>2 DEF AddPrefix, Nested
    <2>2. Len(frames) >= 3
      BY <2>1
    <2> QED
      BY <2>2 DEF TableIInv, Counts
  <1>10. /\ \A r \in 1..R : src[r] <= g
         /\ \A k \in 1..n : own[k] <= last
         /\ \/ p.rule_idx = R - p.nrules
            \/ p.rule_idx = UNDEF_INDEX /\ p.nrules = 0
         /\ {r \in 1..R : src[r] > last} = R - p.nrules + 1..R
         /\ \A k \in 1..n : {r \in 1..R : src[r] \in Owners(k)}
               = prefixes[k].rule_idx + 1..prefixes[k].rule_idx + prefixes[k].nrules
    BY DEF TableIInv, Counts, FirstRule, RulesHandedOn
  <1>11. last \in Nat /\ last = IF n = 0 THEN 0 ELSE own[n]
    BY <1>1 DEF LastGroup
  <1>12. \A k \in 1..n + 1 : Owners(k)' = (IF k = 1 THEN 0 ELSE new[k - 1]) + 1..new[k]
    BY <1>7 DEF Owners
  <1>13. \A k \in 1..n : Owners(k) = (IF k = 1 THEN 0 ELSE own[k - 1]) + 1..own[k]
    BY DEF Owners
  <1> HIDE DEF R, n, g, src, own, new, last, p, e, es
  <1>14. 1..n + 1 = 1..n \cup {n + 1} /\ n + 1 \notin 1..n
    BY <1>1
  <1>15. \A k \in 1..n : Owners(k)' = Owners(k)
    <2> SUFFICES ASSUME NEW k \in 1..n
                 PROVE  Owners(k)' = Owners(k)
      OBVIOUS
    <2>1. k \in 1..n + 1 /\ (k = 1 \/ k - 1 \in 1..n)
      BY <1>1
    <2>2. new[k] = own[k] /\ (k # 1 => new[k - 1] = own[k - 1])
      BY <1>8, <2>1
    <2> QED
      BY <1>12, <1>13, <2>1, <2>2
  <1>16. ASSUME NEW k \in 1..n + 1, k = n + 1
         PROVE  Owners(k)' = last + 1..g
    <2>1. k - 1 = n /\ (n # 0 => n \in 1..n) /\ (k = 1 <=> n = 0)
      BY <1>1, <1>16
    <2>2. Owners(k)' = (IF k = 1 THEN 0 ELSE new[k - 1]) + 1..new[k]
      BY <1>12
    <2>3. new[k] = g
      BY <1>8, <1>16
    <2>4. (IF k = 1 THEN 0 ELSE new[k - 1]) = last
      BY <1>8, <1>11, <2>1
    <2> QED
      BY <2>2, <2>3, <2>4
  <1>17. {r \in 1..R : src[r] \in last + 1..g} = {r \in 1..R : src[r] > last}
    <2>1. ASSUME NEW r \in 1..R
          PROVE  src[r] \in last + 1..g <=> src[r] > last
      <3>1. src[r] \in Nat /\ src[r] <= g
        BY <1>1, <1>10
      <3>2. \A x, y, z \in Nat : y <= z => (y \in x + 1..z <=> y > x)
        OBVIOUS
      <3> QED
        BY <1>1, <1>11, <3>1, <3>2
    <2> QED
      BY <2>1
  <1>18. R - p.nrules + 1..R = p.rule_idx + 1..p.rule_idx + p.nrules
    <2>1. p.nrules \in 0..R /\ p.rule_idx \in Int
      BY <1>1
    <2>2. CASE p.rule_idx = R - p.nrules
      BY <1>1, <2>1, <2>2
    <2>3. CASE p.rule_idx = UNDEF_INDEX /\ p.nrules = 0
      <3>1. R - p.nrules + 1..R = {}
        BY <1>1, <2>3
      <3>2. p.rule_idx + 1..p.rule_idx + p.nrules = {}
        BY <2>3 DEF UNDEF_INDEX
      <3> QED
        BY <3>1, <3>2
    <2> QED
      BY <1>10, <2>2, <2>3
  <1>19. ASSUME NEW k \in 1..n + 1
         PROVE  {r \in 1..R : src[r] \in Owners(k)'}
                    = es[k].rule_idx + 1..es[k].rule_idx + es[k].nrules
    <2>1. CASE k \in 1..n
      BY <1>4, <1>10, <1>15, <2>1
    <2>2. CASE k = n + 1
      <3>1. Owners(k)' = last + 1..g
        BY <1>16, <2>2
      <3>2. es[k].rule_idx = p.rule_idx /\ es[k].nrules = p.nrules
        BY <1>4, <1>5, <2>2
      <3>3. {r \in 1..R : src[r] \in last + 1..g}
                = p.rule_idx + 1..p.rule_idx + p.nrules
        BY <1>10, <1>17, <1>18
      <3> QED
        BY <3>1, <3>2, <3>3
    <2> QED
      BY <1>14, <2>1, <2>2
  <1>20. RulesHandedOn'
    <2>1. \A k \in 1..prefix_nr' :
              {r \in 1..rule_nr' : source'.ranges[r] \in Owners(k)'}
                  = prefixes'[k].rule_idx + 1..prefixes'[k].rule_idx + prefixes'[k].nrules
      BY <1>3, <1>6, <1>7, <1>19
    <2> QED
      BY <2>1 DEF RulesHandedOn
  <1>order. EntriesInOrder'
    <2>1. ASSUME NEW k \in 1..n + 1 PROVE new[k] \in Owners(k)'
      <3>1. CASE k \in 1..n
        <4>1. own[k] \in Owners(k)
          BY <3>1 DEF TableIInv, Counts, EntriesInOrder, n, own
        <4> QED
          BY <1>8, <1>15, <3>1, <4>1
      <3>2. CASE k = n + 1
        <4>1. g \in last + 1..g
          BY <1>1, <1>9, <1>11
        <4> QED
          BY <1>8, <1>16, <3>2, <4>1
      <3> QED
        BY <1>14, <3>1, <3>2
    <2> QED
      BY <1>6, <1>7, <2>1 DEF EntriesInOrder
  <1>21. LastGroup' = g
    BY <1>1, <1>6, <1>7, <1>8 DEF LastGroup
  <1>22. ASSUME NEW k \in 1..n + 1
         PROVE  new[k] <= g
    <2>1. CASE k \in 1..n
      <3>1. own[k] <= last /\ own[k] \in Nat /\ new[k] = own[k]
        BY <1>1, <1>8, <1>10, <2>1
      <3> QED
        BY <1>1, <1>9, <1>11, <3>1
    <2>2. CASE k = n + 1
      BY <1>1, <1>8, <2>2
    <2> QED
      BY <1>14, <2>1, <2>2
  <1>23. /\ \A r \in 1..rule_nr' : source'.ranges[r] <= source'.group
         /\ \A k \in 1..prefix_nr' : source'.prefixes[k] <= LastGroup'
         /\ LastGroup' <= source'.group
         /\ Len(source'.ranges) = rule_nr' /\ Len(source'.prefixes) = prefix_nr'
    BY <1>1, <1>6, <1>7, <1>8, <1>10, <1>21, <1>22
  <1>24. new_prefix'.nrules = 0 /\ new_prefix'.rule_idx = UNDEF_INDEX
         /\ new_prefix' \in [rule_idx : Int, nrules : 0..rule_nr']
    BY <1>1, <1>3, <1>6 DEF UNDEF_INDEX
  <1>25. {r \in 1..rule_nr' : source'.ranges[r] > LastGroup'} = FirstRule' + 1..rule_nr'
    <2>1. FirstRule' = rule_nr' - new_prefix'.nrules
      BY DEF FirstRule
    <2>2. FirstRule' = R
      BY <1>1, <1>6, <1>24, <2>1
    <2>3. R + 1..R = {}
      BY <1>1
    <2>4. {r \in 1..R : src[r] > g} = {}
      BY <1>1, <1>10
    <2> QED
      BY <1>6, <1>7, <1>21, <2>2, <2>3, <2>4
  <1>26. ~(Len(frames') >= 3)
    <2>1. tpc = "prefix"
      BY DEF AddPrefix
    <2>2. Chain(frames, path) /\ Len(frames) = 3 /\ Len(frames) > 0
      BY <1>2, <2>1 DEF Nested
    <2>3. Len(Pop(frames)) = Len(frames) - 1
      BY <2>2, Popped
    <2> QED
      BY <1>3, <2>2, <2>3
  <1> QED
    BY <1>7, <1>20, <1>order, <1>23, <1>24, <1>25, <1>26 DEF Counts

\* The other steps count groups at most.
LEMMA CountsStep ==
    ASSUME TableIInv, TNext
    PROVE  Counts'
  <1>1. CASE Descend
    <2>1. /\ Nested /\ Counts /\ UNCHANGED <<rules, entries>>
          /\ source' = [source EXCEPT !.group = @ + IF Cur.name = "Group" THEN 1 ELSE 0]
      BY <1>1 DEF TableIInv, Descend
    <2> DEFINE g == source.group
               h == g + IF Cur.name = "Group" THEN 1 ELSE 0
    <2>2. g \in Nat /\ h \in Nat /\ g <= h
      BY <2>1 DEF Counts
    <2>3. source' = [source EXCEPT !.group = h]
      BY <2>1
    <2>4. Len(frames) = 2 => h = g + 1
      BY <1>1, <2>1, Descending
    <2> HIDE DEF g, h
    <2>5. /\ source'.group = h /\ UNCHANGED <<source.ranges, source.prefixes>>
          /\ source' \in [group : Nat, ranges : Seq(Nat), prefixes : Seq(Nat)]
      BY <2>1, <2>2, <2>3 DEF Counts
    <2>6. /\ UNCHANGED <<rule_nr, prefix_nr, new_prefix, prefixes, FirstRule>>
      BY <2>1 DEF rules, entries, rule_nr, prefix_nr, FirstRule
    <2>7. /\ UNCHANGED LastGroup
          /\ RulesHandedOn => RulesHandedOn'
          /\ EntriesInOrder => EntriesInOrder'
      BY <2>5, <2>6 DEF LastGroup, RulesHandedOn, EntriesInOrder, Owners
    <2>8. LastGroup \in Nat
      BY <2>1 DEF LastGroup, Counts, prefix_nr
    <2>9. /\ source.ranges \in Seq(Nat) /\ Len(source.ranges) = rule_nr
          /\ \A r \in 1..rule_nr : source.ranges[r] <= g
          /\ LastGroup <= g /\ (Len(frames) >= 3 => LastGroup < g)
      BY <2>1 DEF Counts, g
    <2>10. \A r \in 1..rule_nr : source.ranges[r] <= h
      <3> SUFFICES ASSUME NEW r \in 1..rule_nr
                   PROVE  source.ranges[r] <= h
        OBVIOUS
      <3>1. source.ranges[r] \in Nat /\ source.ranges[r] <= g
        BY <2>9
      <3> QED
        BY <2>2, <3>1
    <2>11. LastGroup <= h /\ (Len(frames') >= 3 => LastGroup < h)
      <3>1. Len(frames') >= 3 => Len(frames) >= 3 \/ h = g + 1
        BY <2>1, <2>4, IntoGroup
      <3> QED
        BY <2>2, <2>8, <2>9, <3>1
    <2> QED
      BY <2>1, <2>5, <2>6, <2>7, <2>10, <2>11 DEF Counts
  <1>2. CASE RefusePrefix \/ UNCHANGED <<rules, entries, source>>
    <2>1. UNCHANGED <<rule_nr, prefix_nr, new_prefix, prefixes, source, FirstRule>>
      BY <1>2 DEF RefusePrefix, rules, entries, rule_nr, prefix_nr, FirstRule
    <2>2. /\ UNCHANGED LastGroup
          /\ RulesHandedOn => RulesHandedOn'
          /\ EntriesInOrder => EntriesInOrder'
      BY <2>1 DEF LastGroup, RulesHandedOn, EntriesInOrder, Owners
    <2>3. CASE Descend
      BY <1>1, <2>3
    <2>4. CASE ~Descend
      <3>1. Len(frames') >= 3 => Len(frames) >= 3
        BY <2>4, IntoGroup DEF TableIInv
      <3> QED
        BY <2>1, <2>2, <3>1 DEF TableIInv, Counts
    <2> QED
      BY <2>3, <2>4
  <1> QED
    BY <1>1, <1>2, AddRuleCounts, AddPrefixCounts, OtherSteps

\* The conjuncts of TableIInv hold together, from the start and after every step.
LEMMA InitIInv ==
    ASSUME TInit
    PROVE  TableIInv
  <1>1. Nested
    <2>1. /\ Len(frames) = 0 /\ frames = <<>> /\ path = <<>>
          /\ tpc = "doc" /\ status = -1
      BY DEF TInit
    <2> QED
      BY <2>1 DEF Nested, Chain
  <1>2. TablesHold
    BY DEF TInit, TablesHold, Sequence, VecHolds, VecEmpty, VecHeader, prefix_nr, rule_nr
  <1>3. Numbered
    <2>1. prefix_nr = 0 /\ cur_value = 0 /\ DOMAIN dict = {}
      BY DEF TInit, prefix_nr
    <2> QED
      BY <2>1 DEF Numbered, ValuesAreIndexes
  <1>4. Counts
    <2>1. /\ rule_nr = 0 /\ prefix_nr = 0 /\ Len(frames) = 0
          /\ source = [group |-> 0, ranges |-> <<>>, prefixes |-> <<>>]
          /\ new_prefix = [rule_idx |-> 0, nrules |-> 0]
      BY DEF TInit, rule_nr, prefix_nr
    <2>2. LastGroup = 0 /\ FirstRule = 0 /\ RulesHandedOn /\ EntriesInOrder
      BY <2>1 DEF LastGroup, FirstRule, RulesHandedOn, EntriesInOrder
    <2> QED
      BY <2>1, <2>2 DEF Counts
  <1> QED
    BY <1>1, <1>2, <1>3, <1>4 DEF TableIInv

\* Every step keeps the invariant.
LEMMA NextIInv ==
    ASSUME TableIInv, [TNext]_tvars
    PROVE  TableIInv'
  <1>1. CASE TNext
    BY <1>1, NestedStep, TablesStep, NumberedStep, CountsStep DEF TableIInv
  <1>2. CASE UNCHANGED tvars
    BY <1>2 DEF tvars, TableIInv, Nested, Chain, TablesHold, Numbered, ValuesAreIndexes,
           Counts, LastGroup, FirstRule, RulesHandedOn, EntriesInOrder, Owners, rule_nr, prefix_nr
  <1> QED
    BY <1>1, <1>2

\* The walk, the tables, the numbering and the accounting of the ranges keep
\* each other in step, whatever the documents hold.
THEOREM TableInvariance == TSpec => []TableIInv
  BY InitIInv, NextIInv, PTL DEF TSpec

\* Neither table runs past its allocation as it grows, however many groups and
\* rules there are.
THEOREM RoomInTables == TSpec => []RoomForTables
  <1>1. TableIInv => RoomForTables
    <2> SUFFICES ASSUME TableIInv
                 PROVE  RoomForTables
      OBVIOUS
    <2>1. /\ prefix_nr \in Nat /\ VecHolds(prefix_vec, prefix_nr)
          /\ rule_nr \in Nat /\ VecHolds(ranges_vec, rule_nr)
      BY LenProperties DEF TableIInv, TablesHold, Sequence, prefix_nr, rule_nr
    <2> QED
      BY <2>1, HoldsInRoom DEF RoomForTables
  <1> QED
    BY <1>1, TableInvariance, PTL

\* Where no refused group is left over between an entry's group and the one
\* before, the entry's ranges are those of its group, of every document: none is
\* lost, doubled or given to another entry by the counting in new_prefix.  With
\* a refused group there the table is wrong (RulesOfPrefix is refuted), in the
\* way RulesHandedOn says.
THEOREM EntriesOwnRules == TSpec => []RulesOfGroup
  <1>1. TableIInv => RulesOfGroup
    <2> SUFFICES ASSUME TableIInv, NEW k \in 1..prefix_nr, LeftOver(k) = {}
                 PROVE  OwnRules(k)
      BY DEF RulesOfGroup
    <2> DEFINE before == IF k = 1 THEN 0 ELSE source.prefixes[k - 1]
               own == source.prefixes[k]
    <2>1. /\ source.prefixes \in Seq(Nat) /\ Len(source.prefixes) = prefix_nr
          /\ source.ranges \in Seq(Nat) /\ Len(source.ranges) = rule_nr
      BY DEF TableIInv, Counts
    <2>2. own \in Nat /\ before \in Nat
      <3>1. prefix_nr \in Nat
        BY <2>1
      <3>2. k = 1 \/ k - 1 \in 1..prefix_nr
        BY <3>1
      <3> QED
        BY <2>1, <3>1, <3>2
    <2>3. own \in before + 1..own /\ Owners(k) = before + 1..own
      BY DEF TableIInv, Counts, EntriesInOrder, Owners
    <2>4. {r \in 1..rule_nr : source.ranges[r] \in before + 1..own - 1} = {}
      BY DEF LeftOver
    <2>5. {r \in 1..rule_nr : source.ranges[r] \in Owners(k)}
              = prefixes[k].rule_idx + 1..prefixes[k].rule_idx + prefixes[k].nrules
      BY DEF TableIInv, Counts, RulesHandedOn
    <2> HIDE DEF before, own
    <2>6. before + 1..own = (before + 1..own - 1) \cup {own}
      BY <2>2, <2>3
    <2>7. {r \in 1..rule_nr : source.ranges[r] \in Owners(k)}
              = {r \in 1..rule_nr : source.ranges[r] = own}
      BY <2>3, <2>4, <2>6
    <2> QED
      BY <2>5, <2>7 DEF OwnRules, own
  <1> QED
    BY <1>1, TableInvariance, PTL

\* The transducer's value for a prefix is the index of the first entry with it,
\* even when prefixes are repeated or refused.
THEOREM ValuesIndexEntries == TSpec => []ValuesAreIndexes
  <1>1. TableIInv => ValuesAreIndexes
    BY DEF TableIInv, Numbered
  <1> QED
    BY <1>1, TableInvariance, PTL

\* push_path and pop_path come in pairs along every path through the parse
\* functions: the path names the elements at hand and never outgrows its array.
THEOREM PathNamesElement == TSpec => []PathOfElement
  <1>1. TableIInv => PathOfElement
    <2> SUFFICES ASSUME TableIInv
                 PROVE  PathOfElement
      OBVIOUS
    <2>1. Chain(frames, path) /\ Nested
      BY DEF TableIInv, Nested
    <2>2. path = [k \in 1..Len(frames) |-> frames[k].name]
      <3>1. \A k \in 1..Len(frames) : frames[k].name = Levels[k]
        BY <2>1 DEF Chain
      <3>2. path = [k \in 1..Len(frames) |-> Levels[k]]
        BY <2>1 DEF Chain
      <3> QED
        BY <3>1, <3>2
    <2>3. tpc = "done" => path = <<>>
      <3>1. tpc = "done" => path = [k \in 1..0 |-> Levels[k]]
        BY <2>1 DEF Chain, Nested
      <3> QED
        BY <3>1
    <2>4. status # 64
      BY <2>1 DEF Nested
    <2> QED
      BY <2>2, <2>3, <2>4 DEF PathOfElement
  <1> QED
    BY <1>1, TableInvariance, PTL

-----------------------------------------------------------------------------
\* Sequences of elements put end to end, one after the other as the recursive
\* functions do it: f[n] is what the first n of them make.
FoldsTo(f, p, m) == f = [n \in 0..m |-> IF n = 0 THEN <<>> ELSE f[n - 1] \o p[n]]

Folds(f, p) == FoldsTo(f, p, Len(p))

Joined(p) == (CHOOSE f : Folds(f, p))[Len(p)]

\* There is such a function for every sequence of sequences.
LEMMA FoldsExist == \A n \in Nat : \A p : Len(p) = n => \E f : Folds(f, p)
  <1> DEFINE S == {n \in Nat : \A p : \E f : FoldsTo(f, p, n)}
  <1>1. 0 \in S
    <2>1. ASSUME NEW p PROVE \E f : FoldsTo(f, p, 0)
      <3> DEFINE f == [i \in 0..0 |-> <<>>]
      <3>1. \A i \in 0..0 : i = 0
        OBVIOUS
      <3>2. f = [i \in 0..0 |-> IF i = 0 THEN <<>> ELSE f[i - 1] \o p[i]]
        BY <3>1
      <3> HIDE DEF f
      <3> QED
        BY <3>2 DEF FoldsTo
    <2> QED
      BY <2>1
  <1>2. ASSUME NEW n \in S PROVE n + 1 \in S
    <2>1. ASSUME NEW p PROVE \E f : FoldsTo(f, p, n + 1)
      <3>1. PICK f : FoldsTo(f, p, n)
        OBVIOUS
      <3> DEFINE g == [i \in 0..n + 1 |-> IF i = n + 1 THEN f[n] \o p[i] ELSE f[i]]
      <3>2. n \in Nat
        OBVIOUS
      <3>3. \A i \in 0..n : g[i] = f[i]
        BY <3>2
      <3>4. g[n + 1] = g[n] \o p[n + 1]
        <4>1. n + 1 \in 0..n + 1 /\ n \in 0..n + 1 /\ n # n + 1
          BY <3>2
        <4> QED
          BY <4>1
      <3>5. g = [i \in 0..n + 1 |-> g[i]]
        OBVIOUS
      <3> HIDE DEF g
      <3>6. ASSUME NEW i \in 0..n + 1
            PROVE  g[i] = IF i = 0 THEN <<>> ELSE g[i - 1] \o p[i]
        <4>1. CASE i = n + 1
          <5>1. i # 0 /\ i - 1 = n
            BY <3>2, <4>1
          <5> QED
            BY <3>4, <4>1, <5>1
        <4>2. CASE i = 0
          <5>1. 0 \in 0..n /\ i = 0
            BY <3>2, <4>2
          <5> QED
            BY <3>1, <3>3, <5>1 DEF FoldsTo
        <4>3. CASE i \in 1..n
          <5>1. i - 1 \in 0..n /\ i \in 0..n /\ i # 0
            BY <3>2, <4>3
          <5>2. f[i] = f[i - 1] \o p[i]
            BY <3>1, <5>1 DEF FoldsTo
          <5> QED
            BY <3>3, <5>1, <5>2
        <4> QED
          BY <3>2, <4>1, <4>2, <4>3
      <3>7. FoldsTo(g, p, n + 1)
        BY <3>5, <3>6 DEF FoldsTo
      <3> QED
        BY <3>7
    <2>2. n + 1 \in Nat
      OBVIOUS
    <2> QED
      BY <2>1, <2>2
  <1>3. S \in SUBSET Nat
    OBVIOUS
  <1> HIDE DEF S
  <1>4. S = Nat
    BY <1>1, <1>2, <1>3, SetInduction
  <1> QED
    BY <1>4 DEF S, Folds

\* It is one function, so that Joined stands for what any such function yields.
LEMMA FoldsJoin ==
    ASSUME NEW p, Len(p) \in Nat, NEW f, Folds(f, p)
    PROVE  Joined(p) = f[Len(p)]
  <1> DEFINE g == CHOOSE h : Folds(h, p)
             S == {n \in Nat : n <= Len(p) => f[n] = g[n]}
  <1>1. Folds(g, p)
    OBVIOUS
  <1> HIDE DEF g
  <1>2. 0 \in S
    <2>1. 0 \in 0..Len(p)
      OBVIOUS
    <2> QED
      BY <1>1, <2>1 DEF Folds, FoldsTo
  <1>3. ASSUME NEW n \in S PROVE n + 1 \in S
    <2> SUFFICES ASSUME n + 1 <= Len(p) PROVE f[n + 1] = g[n + 1]
      OBVIOUS
    <2>1. n + 1 \in 0..Len(p) /\ n + 1 # 0 /\ n + 1 - 1 = n /\ f[n] = g[n]
      OBVIOUS
    <2>2. f[n + 1] = f[n] \o p[n + 1] /\ g[n + 1] = g[n] \o p[n + 1]
      BY <1>1, <2>1 DEF Folds, FoldsTo
    <2> QED
      BY <2>1, <2>2
  <1>4. S \in SUBSET Nat
    OBVIOUS
  <1> HIDE DEF S
  <1>5. S = Nat
    BY <1>2, <1>3, <1>4, SetInduction
  <1> QED
    BY <1>5 DEF S, Joined, g

\* How it goes on.
LEMMA FoldsStep ==
    ASSUME NEW p, Len(p) \in Nat, NEW f, Folds(f, p)
    PROVE  /\ f[0] = <<>>
           /\ \A i \in Nat : i < Len(p) => f[i + 1] = f[i] \o p[i + 1]
  <1>1. f[0] = <<>>
    BY DEF Folds, FoldsTo
  <1>2. ASSUME NEW i \in Nat, i < Len(p) PROVE f[i + 1] = f[i] \o p[i + 1]
    <2>1. i + 1 \in 0..Len(p) /\ i + 1 # 0 /\ i + 1 - 1 = i
      BY <1>2
    <2> QED
      BY <2>1 DEF Folds, FoldsTo
  <1> QED
    BY <1>1, <1>2

\* Concatenation is associative.
LEMMA Grouping ==
    ASSUME NEW E
    PROVE  \A a, b, c \in Seq(E) : (a \o b) \o c = a \o (b \o c)
  BY ConcatAssociative

\* What Joined yields for none, and for one more.
LEMMA JoinedEmpty == Joined(<<>>) = <<>>
  <1>1. PICK f : Folds(f, <<>>)
    BY FoldsExist
  <1>2. Joined(<<>>) = f[0]
    BY <1>1, FoldsJoin
  <1>3. f[0] = <<>>
    BY <1>1 DEF Folds, FoldsTo
  <1> QED
    BY <1>2, <1>3

\* One sequence more.
LEMMA JoinedAppend ==
    ASSUME NEW E, NEW p \in Seq(Seq(E)), NEW x \in Seq(E)
    PROVE  Joined(Append(p, x)) = Joined(p) \o x
  <1> DEFINE q == Append(p, x)
             n == Len(p)
  <1>1. n \in Nat /\ Len(q) = n + 1 /\ q[n + 1] = x /\ \A i \in 1..n : q[i] = p[i]
    OBVIOUS
  <1> HIDE DEF q
  <1>2. PICK g : Folds(g, q)
    BY <1>1, FoldsExist
  <1> DEFINE f == [i \in 0..n |-> g[i]]
  <1>3. Folds(f, p)
    <2>1. f = [i \in 0..n |-> f[i]] /\ \A i \in 0..n : f[i] = g[i]
      OBVIOUS
    <2> HIDE DEF f
    <2>2. ASSUME NEW i \in 0..n
          PROVE  f[i] = IF i = 0 THEN <<>> ELSE f[i - 1] \o p[i]
      <3>1. i \in 0..n + 1 /\ (i # 0 => i - 1 \in 0..n /\ i \in 1..n)
        BY <1>1
      <3>2. g[i] = IF i = 0 THEN <<>> ELSE g[i - 1] \o q[i]
        BY <1>1, <1>2, <3>1 DEF Folds, FoldsTo
      <3> QED
        BY <1>1, <2>1, <3>1, <3>2
    <2> QED
      BY <2>1, <2>2 DEF Folds, FoldsTo
  <1>4. Joined(p) = g[n]
    <2>1. Joined(p) = f[n]
      BY <1>1, <1>3, FoldsJoin
    <2> QED
      BY <1>1, <2>1
  <1>5. Joined(q) = g[n + 1]
    BY <1>1, <1>2, FoldsJoin
  <1> HIDE DEF f, n
  <1>6. g[n + 1] = g[n] \o x
    <2>1. n \in Nat /\ n < Len(q) /\ Len(q) \in Nat
      BY <1>1
    <2>2. \A i \in Nat : i < Len(q) => g[i + 1] = g[i] \o q[i + 1]
      BY <1>2, <2>1, FoldsStep
    <2>3. g[n + 1] = g[n] \o q[n + 1]
      BY <2>1, <2>2
    <2> QED
      BY <1>1, <2>3
  <1> QED
    BY <1>4, <1>5, <1>6 DEF q, n

\* A sequence that is not empty is one element more than its front.
LEMMA FrontLast ==
    ASSUME NEW S, NEW s \in Seq(S), NEW n \in Nat, Len(s) = n + 1
    PROVE  \E r \in Seq(S), x \in S : s = Append(r, x) /\ Len(r) = n
  <1> DEFINE r == SubSeq(s, 1, n)
             x == s[n + 1]
  <1>1. x \in S
    OBVIOUS
  <1>2. r \in Seq(S) /\ Len(r) = n /\ \A i \in 1..n : r[i] = s[i]
    OBVIOUS
  <1> HIDE DEF r
  <1>3. Append(r, x) \in Seq(S) /\ Len(Append(r, x)) = n + 1
        /\ \A i \in 1..n + 1 : Append(r, x)[i] = s[i]
    BY <1>1, <1>2
  <1>4. Append(r, x) = s
    BY <1>3, SeqEqual
  <1> QED
    BY <1>1, <1>2, <1>4

\* It is a sequence of the same elements.
LEMMA JoinedType ==
    ASSUME NEW E
    PROVE  \A p \in Seq(Seq(E)) : Joined(p) \in Seq(E)
  <1> DEFINE S == {n \in Nat : \A p \in Seq(Seq(E)) : Len(p) = n => Joined(p) \in Seq(E)}
  <1>1. 0 \in S
    BY JoinedEmpty
  <1>2. ASSUME NEW n \in S PROVE n + 1 \in S
    <2>1. ASSUME NEW p \in Seq(Seq(E)), Len(p) = n + 1
          PROVE  Joined(p) \in Seq(E)
      <3>1. PICK r \in Seq(Seq(E)), x \in Seq(E) : p = Append(r, x) /\ Len(r) = n
        BY <2>1, FrontLast
      <3>2. Joined(r) \in Seq(E)
        BY <3>1
      <3> QED
        BY <3>1, <3>2, JoinedAppend, ConcatProperties
    <2> QED
      BY <2>1
  <1>3. S \in SUBSET Nat
    OBVIOUS
  <1> HIDE DEF S
  <1>4. S = Nat
    BY <1>1, <1>2, <1>3, SetInduction
  <1> QED
    BY <1>4, LenProperties DEF S

\* The two halves of a sequence can be put end to end each for itself.
LEMMA JoinedConcat ==
    ASSUME NEW E
    PROVE  \A p, q \in Seq(Seq(E)) : Joined(p \o q) = Joined(p) \o Joined(q)
  <1> DEFINE S == {n \in Nat : \A p, q \in Seq(Seq(E)) :
                        Len(q) = n => Joined(p \o q) = Joined(p) \o Joined(q)}
  <1>1. 0 \in S
    <2> SUFFICES ASSUME NEW p \in Seq(Seq(E)), NEW q \in Seq(Seq(E)), Len(q) = 0
                 PROVE  Joined(p \o q) = Joined(p) \o Joined(q)
      OBVIOUS
    <2>1. q = <<>>
      BY EmptySeq
    <2>2. p \o q = p
      BY <2>1
    <2>3. Joined(p) \in Seq(E)
      BY JoinedType
    <2>4. Joined(p) \o <<>> = Joined(p)
      BY <2>3, ConcatEmptySeq
    <2> QED
      BY <2>1, <2>2, <2>4, JoinedEmpty
  <1>2. ASSUME NEW n \in S PROVE n + 1 \in S
    <2> SUFFICES ASSUME NEW p \in Seq(Seq(E)), NEW q \in Seq(Seq(E)), Len(q) = n + 1
                 PROVE  Joined(p \o q) = Joined(p) \o Joined(q)
      OBVIOUS
    <2>1. PICK r \in Seq(Seq(E)), x \in Seq(E) : q = Append(r, x) /\ Len(r) = n
      BY FrontLast
    <2>2. p \o q = Append(p \o r, x) /\ p \o r \in Seq(Seq(E))
      <3>1. p \o r \in Seq(Seq(E)) /\ <<x>> \in Seq(Seq(E))
        BY ConcatProperties
      <3>2. q = r \o <<x>> /\ Append(p \o r, x) = (p \o r) \o <<x>>
        BY <2>1, <3>1, AppendIsConcat
      <3>3. p \o (r \o <<x>>) = (p \o r) \o <<x>>
        BY <3>1, ConcatAssociative
      <3> QED
        BY <3>1, <3>2, <3>3
    <2>3. Joined(p \o q) = Joined(p \o r) \o x
      <3>1. Joined(Append(p \o r, x)) = Joined(p \o r) \o x
        BY <2>2, JoinedAppend
      <3> QED
        BY <2>2, <3>1
    <2>6. Joined(q) = Joined(r) \o x
      BY <2>1, JoinedAppend
    <2>4. Joined(p \o r) = Joined(p) \o Joined(r)
      BY <2>1
    <2>5. Joined(p) \in Seq(E) /\ Joined(r) \in Seq(E) /\ x \in Seq(E)
      BY JoinedType
    <2> DEFINE a == Joined(p)
               b == Joined(r)
    <2> HIDE DEF a, b
    <2>7. (Joined(p) \o Joined(r)) \o x = Joined(p) \o (Joined(r) \o x)
      <3>1. a \in Seq(E) /\ b \in Seq(E) /\ x \in Seq(E)
        BY <2>5 DEF a, b
      <3>2. (a \o b) \o x = a \o (b \o x)
        BY <3>1, Grouping, SMTT(30)
      <3> QED
        BY <3>2 DEF a, b
    <2> QED
      BY <2>3, <2>4, <2>6, <2>7
  <1>3. S \in SUBSET Nat
    OBVIOUS
  <1> HIDE DEF S
  <1>4. S = Nat
    BY <1>1, <1>2, <1>3, SetInduction
  <1> QED
    BY <1>4, LenProperties DEF S

\* One alone is itself.
LEMMA JoinedOne ==
    ASSUME NEW E, NEW x \in Seq(E)
    PROVE  Joined(<<x>>) = x
  <1>1. <<x>> = Append(<<>>, x) /\ <<>> \in Seq(Seq(E))
    OBVIOUS
  <1>2. Joined(<<x>>) = <<>> \o x
    BY <1>1, JoinedAppend, JoinedEmpty
  <1> QED
    BY <1>2, ConcatEmptySeq

-----------------------------------------------------------------------------
\* The elements of that name.
Of(name) == {e \in Elements : e.name = name}

\* What each element of a list contributes to Matching, and to Named.
MatchPieces(list, name) ==
    [n \in 1..Len(list) |-> IF list[n].name = name THEN <<list[n]>> ELSE <<>>]

NamePieces(list, name) == [n \in 1..Len(list) |-> Matching(list[n].children, name)]

\* The recursive functions of Matching and Named put them end to end.
LEMMA MatchingJoined ==
    ASSUME NEW list, Len(list) \in Nat, NEW name
    PROVE  Matching(list, name) = Joined(MatchPieces(list, name))
  <1> DEFINE p == MatchPieces(list, name)
             m == Len(list)
             Found(f) ==
                f = [n \in 0..m |-> IF n = 0 THEN <<>> ELSE f[n - 1] \o
                        IF list[n].name = name THEN <<list[n]>> ELSE <<>>]
             g == CHOOSE f : Found(f)
  <1>1. Len(p) = m /\ \A n \in 1..m :
            p[n] = IF list[n].name = name THEN <<list[n]>> ELSE <<>>
    BY DEF MatchPieces
  <1>2. Matching(list, name) = g[m]
    BY DEF Matching
  <1> HIDE DEF p
  <1>3. ASSUME NEW f PROVE Found(f) <=> Folds(f, p)
    <2>1. [n \in 0..m |-> IF n = 0 THEN <<>> ELSE f[n - 1] \o
                IF list[n].name = name THEN <<list[n]>> ELSE <<>>]
             = [n \in 0..m |-> IF n = 0 THEN <<>> ELSE f[n - 1] \o p[n]]
      BY <1>1
    <2> QED
      BY <1>1, <2>1 DEF Folds, FoldsTo
  <1>4. PICK h : Folds(h, p)
    BY <1>1, FoldsExist
  <1> HIDE DEF Found
  <1>5. Found(g)
    BY <1>3, <1>4, Zenon
  <1> HIDE DEF g
  <1>6. Joined(p) = g[m]
    BY <1>1, <1>3, <1>5, FoldsJoin
  <1> QED
    BY <1>2, <1>6 DEF p

\* Named puts together the children of that name.
LEMMA NamedJoined ==
    ASSUME NEW list, Len(list) \in Nat, NEW name
    PROVE  Named(list, name) = Joined(NamePieces(list, name))
  <1> DEFINE p == NamePieces(list, name)
             m == Len(list)
             Found(f) ==
                f = [n \in 0..m |-> IF n = 0 THEN <<>> ELSE f[n - 1] \o
                        Matching(list[n].children, name)]
             g == CHOOSE f : Found(f)
  <1>1. Len(p) = m /\ \A n \in 1..m : p[n] = Matching(list[n].children, name)
    BY DEF NamePieces
  <1>2. Named(list, name) = g[m]
    BY DEF Named
  <1> HIDE DEF p
  <1>3. ASSUME NEW f PROVE Found(f) <=> Folds(f, p)
    <2>1. [n \in 0..m |-> IF n = 0 THEN <<>> ELSE f[n - 1] \o
                Matching(list[n].children, name)]
             = [n \in 0..m |-> IF n = 0 THEN <<>> ELSE f[n - 1] \o p[n]]
      BY <1>1
    <2> QED
      BY <1>1, <2>1 DEF Folds, FoldsTo
  <1>4. PICK h : Folds(h, p)
    BY <1>1, FoldsExist
  <1> HIDE DEF Found
  <1>5. Found(g)
    BY <1>3, <1>4, Zenon
  <1> HIDE DEF g
  <1>6. Joined(p) = g[m]
    BY <1>1, <1>3, <1>5, FoldsJoin
  <1> QED
    BY <1>2, <1>6 DEF p

\* The pieces of a list made of two, and of one element.
LEMMA PiecesConcat ==
    ASSUME NEW S, NEW p \in Seq(S), NEW q \in Seq(S), NEW r \in Seq(S),
           Len(r) = Len(p) + Len(q),
           \A n \in 1..Len(p) : r[n] = p[n],
           \A n \in 1..Len(q) : r[Len(p) + n] = q[n]
    PROVE  r = p \o q
  <1>1. /\ p \o q \in Seq(S) /\ Len(p \o q) = Len(p) + Len(q)
        /\ \A i \in 1..Len(p) + Len(q) :
              (p \o q)[i] = IF i <= Len(p) THEN p[i] ELSE q[i - Len(p)]
    BY ConcatProperties
  <1>2. Len(p) \in Nat /\ Len(q) \in Nat
    OBVIOUS
  <1>3. ASSUME NEW i \in 1..Len(r) PROVE r[i] = (p \o q)[i]
    <2>1. CASE i <= Len(p)
      BY <1>1, <1>2, <2>1
    <2>2. CASE ~(i <= Len(p))
      <3> DEFINE n == i - Len(p)
      <3>1. n \in 1..Len(q) /\ Len(p) + n = i
        BY <1>2, <2>2
      <3> QED
        BY <1>1, <1>2, <2>2, <3>1
    <2> QED
      BY <2>1, <2>2
  <1> QED
    BY <1>1, <1>3, SeqEqual

\* The children of elements are elements.
LEMMA Children == \A e \in Elements : e.children \in Seq(Elements)
  <1> SUFFICES ASSUME NEW e \in Elements
               PROVE  e.children \in Seq(Elements)
    OBVIOUS
  <1>1. e.children \in Seq(ToSet(e.children)) /\ ToSet(e.children) \subseteq Elements
    BY DocsAssumption DEF IsElement
  <1> QED
    BY <1>1, SeqMonotonic

\* Matching yields elements of that name, goes through a list part by part, and
\* keeps or drops a single element.
LEMMA MatchPiecesType ==
    ASSUME NEW list \in Seq(Elements), NEW name
    PROVE  /\ MatchPieces(list, name) \in Seq(Seq(Of(name)))
           /\ Len(MatchPieces(list, name)) = Len(list)
           /\ \A n \in 1..Len(list) : MatchPieces(list, name)[n] =
                  IF list[n].name = name THEN <<list[n]>> ELSE <<>>
  <1> DEFINE p == MatchPieces(list, name)
  <1>1. p = [n \in 1..Len(list) |-> p[n]] /\ Len(list) \in Nat
        /\ \A n \in 1..Len(list) : p[n] =
                  IF list[n].name = name THEN <<list[n]>> ELSE <<>>
    BY DEF MatchPieces
  <1> HIDE DEF p
  <1>2. \A n \in 1..Len(list) : p[n] \in Seq(Of(name))
    <2> SUFFICES ASSUME NEW n \in 1..Len(list)
                 PROVE  p[n] \in Seq(Of(name))
      OBVIOUS
    <2>1. list[n] \in Elements
      OBVIOUS
    <2>2. CASE list[n].name = name
      <3>1. list[n] \in Of(name)
        BY <2>1, <2>2 DEF Of
      <3>2. p[n] = <<list[n]>>
        BY <1>1, <2>2
      <3> QED
        BY <3>1, <3>2
    <2>3. CASE list[n].name # name
      <3>1. p[n] = <<>>
        BY <1>1, <2>3
      <3> QED
        BY <3>1
    <2> QED
      BY <2>2, <2>3
  <1>3. p \in Seq(Seq(Of(name))) /\ Len(p) = Len(list)
    BY <1>1, <1>2
  <1> QED
    BY <1>1, <1>3 DEF p

\* What Matching returns are elements of that name.
LEMMA MatchingType ==
    \A list \in Seq(Elements) : \A name : Matching(list, name) \in Seq(Of(name))
  <1> SUFFICES ASSUME NEW list \in Seq(Elements), NEW name
               PROVE  Matching(list, name) \in Seq(Of(name))
    OBVIOUS
  <1>1. Len(list) \in Nat
    OBVIOUS
  <1> QED
    BY <1>1, MatchPiecesType, MatchingJoined, JoinedType

\* Matching goes through two lists one after the other.
LEMMA MatchingConcat ==
    \A s, t \in Seq(Elements) : \A name :
        Matching(s \o t, name) = Matching(s, name) \o Matching(t, name)
  <1> SUFFICES ASSUME NEW s \in Seq(Elements), NEW t \in Seq(Elements), NEW name
               PROVE  Matching(s \o t, name) = Matching(s, name) \o Matching(t, name)
    OBVIOUS
  <1> DEFINE u == s \o t
             p == MatchPieces(s, name)
             q == MatchPieces(t, name)
             r == MatchPieces(u, name)
  <1>1. /\ u \in Seq(Elements) /\ Len(u) = Len(s) + Len(t)
        /\ Len(s) \in Nat /\ Len(t) \in Nat /\ Len(u) \in Nat
        /\ \A n \in 1..Len(s) : u[n] = s[n] /\ n \in 1..Len(u)
        /\ \A n \in 1..Len(t) : u[Len(s) + n] = t[n] /\ Len(s) + n \in 1..Len(u)
    OBVIOUS
  <1> HIDE DEF u
  <1>2. /\ p \in Seq(Seq(Of(name))) /\ Len(p) = Len(s)
        /\ \A n \in 1..Len(s) : p[n] = IF s[n].name = name THEN <<s[n]>> ELSE <<>>
    BY MatchPiecesType
  <1>3. /\ q \in Seq(Seq(Of(name))) /\ Len(q) = Len(t)
        /\ \A n \in 1..Len(t) : q[n] = IF t[n].name = name THEN <<t[n]>> ELSE <<>>
    BY MatchPiecesType
  <1>4. /\ r \in Seq(Seq(Of(name))) /\ Len(r) = Len(u)
        /\ \A n \in 1..Len(u) : r[n] = IF u[n].name = name THEN <<u[n]>> ELSE <<>>
    BY <1>1, MatchPiecesType
  <1> HIDE DEF p, q, r
  <1>5. r = p \o q
    <2>1. \A n \in 1..Len(p) : r[n] = p[n]
      BY <1>1, <1>2, <1>4
    <2>2. \A n \in 1..Len(q) : r[Len(p) + n] = q[n]
      BY <1>1, <1>2, <1>3, <1>4
    <2>3. Len(r) = Len(p) + Len(q)
      BY <1>1, <1>2, <1>3, <1>4
    <2> QED
      BY <1>2, <1>3, <1>4, <2>1, <2>2, <2>3, PiecesConcat
  <1>6. Joined(r) = Joined(p) \o Joined(q)
    BY <1>2, <1>3, <1>5, JoinedConcat
  <1>7. /\ Matching(u, name) = Joined(r) /\ Matching(s, name) = Joined(p)
        /\ Matching(t, name) = Joined(q)
    BY <1>1, MatchingJoined DEF p, q, r
  <1> QED
    BY <1>6, <1>7 DEF u

\* Matching in a list of one, and of none.
LEMMA MatchingOne ==
    \A e \in Elements : \A name :
        Matching(<<e>>, name) = IF e.name = name THEN <<e>> ELSE <<>>
  <1> SUFFICES ASSUME NEW e \in Elements, NEW name
               PROVE  Matching(<<e>>, name) = IF e.name = name THEN <<e>> ELSE <<>>
    OBVIOUS
  <1> DEFINE x == IF e.name = name THEN <<e>> ELSE <<>>
  <1>1. Matching(<<e>>, name) = Joined(MatchPieces(<<e>>, name))
    BY MatchingJoined
  <1>2. MatchPieces(<<e>>, name) = <<x>>
    BY DEF MatchPieces
  <1>3. x \in Seq(Elements)
    OBVIOUS
  <1> HIDE DEF x
  <1>4. Joined(<<x>>) = x
    BY <1>3, JoinedOne
  <1> QED
    BY <1>1, <1>2, <1>4 DEF x

LEMMA MatchingNone == \A name : Matching(<<>>, name) = <<>>
  <1>1. \A name : MatchPieces(<<>>, name) = <<>>
    BY DEF MatchPieces
  <1> QED
    BY <1>1, MatchingJoined, JoinedEmpty

\* Named likewise.
LEMMA NamePiecesType ==
    ASSUME NEW list \in Seq(Elements), NEW name
    PROVE  /\ NamePieces(list, name) \in Seq(Seq(Of(name)))
           /\ Len(NamePieces(list, name)) = Len(list)
           /\ \A n \in 1..Len(list) :
                  NamePieces(list, name)[n] = Matching(list[n].children, name)
  <1> DEFINE p == NamePieces(list, name)
  <1>1. p = [n \in 1..Len(list) |-> p[n]] /\ Len(list) \in Nat
        /\ \A n \in 1..Len(list) : p[n] = Matching(list[n].children, name)
    BY DEF NamePieces
  <1> HIDE DEF p
  <1>2. \A n \in 1..Len(list) : p[n] \in Seq(Of(name))
    BY <1>1, Children, MatchingType
  <1>3. p \in Seq(Seq(Of(name))) /\ Len(p) = Len(list)
    BY <1>1, <1>2
  <1> QED
    BY <1>1, <1>3 DEF p

\* What Named returns are elements of that name.
LEMMA NamedType ==
    \A list \in Seq(Elements) : \A name : Named(list, name) \in Seq(Of(name))
  <1> SUFFICES ASSUME NEW list \in Seq(Elements), NEW name
               PROVE  Named(list, name) \in Seq(Of(name))
    OBVIOUS
  <1>1. Len(list) \in Nat
    OBVIOUS
  <1> QED
    BY <1>1, NamePiecesType, NamedJoined, JoinedType

\* Named goes through two lists one after the other.
LEMMA NamedConcat ==
    \A s, t \in Seq(Elements) : \A name :
        Named(s \o t, name) = Named(s, name) \o Named(t, name)
  <1> SUFFICES ASSUME NEW s \in Seq(Elements), NEW t \in Seq(Elements), NEW name
               PROVE  Named(s \o t, name) = Named(s, name) \o Named(t, name)
    OBVIOUS
  <1> DEFINE u == s \o t
             p == NamePieces(s, name)
             q == NamePieces(t, name)
             r == NamePieces(u, name)
  <1>1. /\ u \in Seq(Elements) /\ Len(u) = Len(s) + Len(t)
        /\ Len(s) \in Nat /\ Len(t) \in Nat /\ Len(u) \in Nat
        /\ \A n \in 1..Len(s) : u[n] = s[n] /\ n \in 1..Len(u)
        /\ \A n \in 1..Len(t) : u[Len(s) + n] = t[n] /\ Len(s) + n \in 1..Len(u)
    OBVIOUS
  <1> HIDE DEF u
  <1>2. /\ p \in Seq(Seq(Of(name))) /\ Len(p) = Len(s)
        /\ \A n \in 1..Len(s) : p[n] = Matching(s[n].children, name)
    BY NamePiecesType
  <1>3. /\ q \in Seq(Seq(Of(name))) /\ Len(q) = Len(t)
        /\ \A n \in 1..Len(t) : q[n] = Matching(t[n].children, name)
    BY NamePiecesType
  <1>4. /\ r \in Seq(Seq(Of(name))) /\ Len(r) = Len(u)
        /\ \A n \in 1..Len(u) : r[n] = Matching(u[n].children, name)
    BY <1>1, NamePiecesType
  <1> HIDE DEF p, q, r
  <1>5. r = p \o q
    <2>1. \A n \in 1..Len(p) : r[n] = p[n]
      BY <1>1, <1>2, <1>4
    <2>2. \A n \in 1..Len(q) : r[Len(p) + n] = q[n]
      BY <1>1, <1>2, <1>3, <1>4
    <2>3. Len(r) = Len(p) + Len(q)
      BY <1>1, <1>2, <1>3, <1>4
    <2> QED
      BY <1>2, <1>3, <1>4, <2>1, <2>2, <2>3, PiecesConcat
  <1>6. Joined(r) = Joined(p) \o Joined(q)
    BY <1>2, <1>3, <1>5, JoinedConcat
  <1>7. /\ Named(u, name) = Joined(r) /\ Named(s, name) = Joined(p)
        /\ Named(t, name) = Joined(q)
    BY <1>1, NamedJoined DEF p, q, r
  <1> QED
    BY <1>6, <1>7 DEF u

\* Named in a list of one, and of none.
LEMMA NamedOne ==
    \A e \in Elements : \A name : Named(<<e>>, name) = Matching(e.children, name)
  <1> SUFFICES ASSUME NEW e \in Elements, NEW name
               PROVE  Named(<<e>>, name) = Matching(e.children, name)
    OBVIOUS
  <1> DEFINE x == Matching(e.children, name)
  <1>1. Named(<<e>>, name) = Joined(NamePieces(<<e>>, name))
    BY NamedJoined
  <1>2. NamePieces(<<e>>, name) = <<x>>
    BY DEF NamePieces
  <1>3. x \in Seq(Of(name))
    BY Children, MatchingType
  <1> HIDE DEF x
  <1>4. Joined(<<x>>) = x
    BY <1>3, JoinedOne
  <1> QED
    BY <1>1, <1>2, <1>4 DEF x

LEMMA NamedNone == \A name : Named(<<>>, name) = <<>>
  <1>1. \A name : NamePieces(<<>>, name) = <<>>
    BY DEF NamePieces
  <1> QED
    BY <1>1, NamedJoined, JoinedEmpty

-----------------------------------------------------------------------------
\* The elements that the function n deep has still to look at.
Todo(n) == IF Len(frames) >= n THEN frames[n].todo ELSE <<>>

\* A sequence from behind its first n elements on.
Rest(s, n) == SubSeq(s, n + 1, Len(s))

\* The groups that the walk has not come to, and the rules, those of the
\* innermost list first.
GroupsIn(outer, inner) ==
    Matching(inner, "Group") \o Named(Matching(outer, "RegistrationGroups"), "Group")

RulesIn(groups, outer, inner) ==
    Matching(inner, "Rule")
    \o (Named(Matching(outer, "Rules"), "Rule") \o Named(Named(groups, "Rules"), "Rule"))

LeftGroups == GroupsIn(Todo(1), Todo(2))

LeftRules == RulesIn(LeftGroups, Todo(3), Todo(4))

\* The rules that the walk has come to: one of them may not be in the table yet.
Begun == rule_nr + IF Len(frames) = 5 THEN 1 ELSE 0

\* Of the elements all, the ones not among those still to come.
Before(all, left) == SubSeq(all, 1, Len(all) - Len(left))

\* The agencies of the groups so far, and those of them that were read.
Agencies == Named(SubSeq(DocGroups, 1, source.group), "Agency")

Heard == Before(Agencies, Matching(Todo(3), "Agency"))

\* The elements with that name in the rule under way that were read.
InRule(name) == Matching(DocRules[Begun].children, name)

ReadOf(name) == Before(InRule(name), Matching(Todo(5), name))

LastText(read) == IF read = <<>> THEN NoText ELSE Last(read).text

OnCourse == tpc \in {"walk", "prefix"}

\* The walk starts with nothing done, and its lists are of elements.
Lists ==
    /\ doc \in Docs /\ (OnCourse => doc.root \in Elements)
    /\ \A n \in 1..5 : Todo(n) \in Seq(Elements)
    /\ tpc = "prefix" => Todo(3) = <<>>
    /\ tpc = "doc" => source.group = 0 /\ rule_nr = 0 /\ cur_agency = NoText

\* The groups come in the order of the document, ...
GroupsInOrder ==
    OnCourse => source.group \in 0..Len(DocGroups) /\ Rest(DocGroups, source.group) = LeftGroups

\* ... cur_agency is the last agency read, ...
AgencyHeard ==
    OnCourse =>
        /\ Agencies = Heard \o Matching(Todo(3), "Agency")
        /\ IF Heard = <<>> THEN cur_agency \in {NoText, AGENCY_ERROR}
           ELSE cur_agency = Last(Heard).text /\ cur_agency # NoText
        /\ tpc = "prefix" /\ Heard = <<>> => cur_agency = AGENCY_ERROR

\* ... the rules come in their order, key is what was read of the one at hand, ...
RulesInOrder ==
    OnCourse =>
        /\ Begun \in 0..Len(DocRules) /\ Rest(DocRules, Begun) = LeftRules
        /\ Len(frames) = 5 =>
             /\ InRule("Range") = ReadOf("Range") \o Matching(Todo(5), "Range")
             /\ InRule("Length") = ReadOf("Length") \o Matching(Todo(5), "Length")
             /\ key.range = LastText(ReadOf("Range"))
             /\ key.length = LastText(ReadOf("Length"))

\* ... key is a record of two texts ...
KeyHolds == key = [range |-> key.range, length |-> key.length]

\* What add_rule_str makes of a rule.
RangeOf(rule) ==
    [rng_len |-> Strtoul(TextOf(rule, "Length")),
     rng_lbound |-> StrtoullCut(LoStr(TextOf(rule, "Range"))),
     rng_ubound |-> StrtoullCut(HiStr(TextOf(rule, "Range")))]

\* ... and the range table has the rules one by one.
RangesRead ==
    /\ \A k \in 1..rule_nr :
          /\ k \in 1..Len(DocRules) /\ DocRules[k] \in Elements
          /\ ranges[k] = RangeOf(DocRules[k])
          /\ LastText(Named(<<DocRules[k]>>, "Range")) # NoText
    /\ tpc = "done" /\ doc_err # 2 => rule_nr = Len(DocRules)

WalkIInv ==
    /\ Lists /\ KeyHolds /\ GroupsInOrder /\ AgencyHeard /\ RulesInOrder
    /\ AgencyOfGroup /\ RangesRead

-----------------------------------------------------------------------------
\* What is left of a sequence begins with its next element.
LEMMA RestNext ==
    ASSUME NEW S, NEW s \in Seq(S), NEW n \in 0..Len(s), NEW e \in S,
           NEW t \in Seq(S), Rest(s, n) = <<e>> \o t
    PROVE  /\ n + 1 \in 1..Len(s) /\ s[n + 1] = e
           /\ Rest(s, n + 1) = t
           /\ SubSeq(s, 1, n + 1) = SubSeq(s, 1, n) \o <<e>>
  <1> DEFINE u == <<e>> \o t
             r == SubSeq(s, n + 1, Len(s))
  <1>1. u \in Seq(S) /\ Len(u) = Len(t) + 1 /\ u[1] = e
        /\ \A i \in 1..Len(t) : u[i + 1] = t[i]
    OBVIOUS
  <1>2. n \in Nat /\ n <= Len(s) /\ Len(s) \in Nat /\ Len(t) \in Nat
    OBVIOUS
  <1>3. r \in Seq(S) /\ Len(r) = Len(s) - n /\ \A i \in 1..Len(s) - n : r[i] = s[n + i]
    BY <1>2
  <1>4. r = u
    BY DEF Rest
  <1> HIDE DEF u, r
  <1>5. Len(s) - n = Len(t) + 1 /\ n + 1 \in 1..Len(s) /\ s[n + 1] = e
        /\ \A i \in 1..Len(t) : t[i] = s[n + i + 1]
    <2>1. Len(s) - n = Len(t) + 1
      BY <1>1, <1>3, <1>4
    <2>2. n + 1 \in 1..Len(s) /\ 1 \in 1..Len(s) - n
      BY <1>2, <2>1
    <2>3. s[n + 1] = e
      BY <1>1, <1>3, <1>4, <2>2
    <2>4. ASSUME NEW i \in 1..Len(t) PROVE t[i] = s[n + i + 1]
      <3>1. i + 1 \in 1..Len(s) - n /\ n + (i + 1) = n + i + 1
        BY <1>2, <2>1
      <3> QED
        BY <1>1, <1>3, <1>4, <3>1
    <2> QED
      BY <2>1, <2>2, <2>3, <2>4
  <1>6. Rest(s, n + 1) = t
    <2> DEFINE q == SubSeq(s, n + 1 + 1, Len(s))
    <2>1. q \in Seq(S) /\ Len(q) = Len(t) /\ \A i \in 1..Len(t) : q[i] = s[n + i + 1]
      BY <1>2, <1>5
    <2> HIDE DEF q
    <2>2. q = t
      BY <1>5, <2>1, SeqEqual
    <2> QED
      BY <2>2 DEF q, Rest
  <1>7. SubSeq(s, 1, n + 1) = SubSeq(s, 1, n) \o <<e>>
    <2>1. n + 1 \in 1..Len(s) /\ 1 \in 1..Len(s) /\ n + 1 \in 1..Len(s) /\ n + 1 - 1 = n
      BY <1>2, <1>5
    <2>2. SubSeq(s, 1, n + 1) = SubSeq(s, 1, n + 1 - 1) \o <<s[n + 1]>>
      BY <2>1, SubSeqRecursiveSecond
    <2> QED
      BY <1>5, <2>1, <2>2
  <1> QED
    BY <1>5, <1>6, <1>7

\* Nothing is left when all has been come to.
LEMMA RestNone ==
    ASSUME NEW S, NEW s \in Seq(S), NEW n \in 0..Len(s), Rest(s, n) = <<>>
    PROVE  n = Len(s)
  <1>1. n \in Nat /\ n <= Len(s) /\ Len(s) \in Nat
    OBVIOUS
  <1>2. Len(Rest(s, n)) = Len(s) - n
    BY <1>1 DEF Rest
  <1> QED
    BY <1>1, <1>2

\* Before the first element nothing has been visited.
LEMMA RestAll ==
    ASSUME NEW S, NEW s \in Seq(S)
    PROVE  Rest(s, 0) = s /\ SubSeq(s, 1, 0) = <<>>
  BY SubSeqFull DEF Rest

\* What comes before the rest.
LEMMA BeforeLeft ==
    ASSUME NEW S, NEW x \in Seq(S), NEW y \in Seq(S)
    PROVE  Before(x \o y, y) = x
  <1> DEFINE u == x \o y
             b == SubSeq(u, 1, Len(x))
  <1>1. u \in Seq(S) /\ Len(u) = Len(x) + Len(y) /\ \A i \in 1..Len(x) : u[i] = x[i]
    OBVIOUS
  <1>2. Len(x) \in Nat /\ Len(y) \in Nat /\ Len(x) + Len(y) - Len(y) = Len(x)
    OBVIOUS
  <1> HIDE DEF u
  <1>3. b \in Seq(S) /\ Len(b) = Len(x) /\ \A i \in 1..Len(x) : b[i] = x[i]
    BY <1>1, <1>2
  <1> HIDE DEF b
  <1>4. b = x
    BY <1>3, SeqEqual
  <1> QED
    BY <1>1, <1>2, <1>4 DEF Before, u, b

\* A list that is not empty is its head and its tail.
LEMMA HeadAndTail ==
    ASSUME NEW S, NEW s \in Seq(S), s # <<>>
    PROVE  Head(s) \in S /\ Tail(s) \in Seq(S) /\ s = <<Head(s)>> \o Tail(s)
  <1> DEFINE t == <<Head(s)>> \o Tail(s)
  <1>1. Head(s) \in S /\ Tail(s) \in Seq(S) /\ Len(Tail(s)) = Len(s) - 1
        /\ Head(s) = s[1]
        /\ \A i \in 1..Len(Tail(s)) : Tail(s)[i] = s[i + 1]
    BY HeadTailProperties
  <1>2. t \in Seq(S) /\ Len(t) = 1 + Len(Tail(s)) /\ t[1] = Head(s)
        /\ \A i \in 1..Len(Tail(s)) : t[i + 1] = Tail(s)[i]
    BY <1>1
  <1> HIDE DEF t
  <1>3. Len(s) \in Nat /\ Len(s) > 0
    BY EmptySeq
  <1>4. ASSUME NEW i \in 1..Len(s) PROVE t[i] = s[i]
    <2>1. CASE i = 1
      BY <1>1, <1>2, <2>1
    <2>2. CASE i # 1
      <3>1. i - 1 \in 1..Len(Tail(s)) /\ i - 1 + 1 = i
        BY <1>1, <1>3, <2>2
      <3> QED
        BY <1>1, <1>2, <3>1
    <2> QED
      BY <2>1, <2>2
  <1>5. t = s
    BY <1>1, <1>2, <1>3, <1>4, SeqEqual
  <1> QED
    BY <1>1, <1>5 DEF t

\* What the head of a list adds to Matching, and to Named.
LEMMA MatchingHead ==
    \A s \in Seq(Elements) : s # <<>> =>
        \A name : Matching(s, name) =
            (IF Head(s).name = name THEN <<Head(s)>> ELSE <<>>) \o Matching(Tail(s), name)
  <1> SUFFICES ASSUME NEW s \in Seq(Elements), s # <<>>, NEW name
               PROVE  Matching(s, name) =
                        (IF Head(s).name = name THEN <<Head(s)>> ELSE <<>>)
                        \o Matching(Tail(s), name)
    OBVIOUS
  <1>1. /\ Head(s) \in Elements /\ Tail(s) \in Seq(Elements) /\ <<Head(s)>> \in Seq(Elements)
        /\ s = <<Head(s)>> \o Tail(s)
    BY HeadAndTail
  <1>2. Matching(<<Head(s)>> \o Tail(s), name)
            = Matching(<<Head(s)>>, name) \o Matching(Tail(s), name)
    BY <1>1, MatchingConcat
  <1>3. Matching(<<Head(s)>>, name) = IF Head(s).name = name THEN <<Head(s)>> ELSE <<>>
    BY <1>1, MatchingOne
  <1> QED
    BY <1>1, <1>2, <1>3

\* Named takes the first element, then the others.
LEMMA NamedCons ==
    \A e \in Elements : \A t \in Seq(Elements) : \A name :
        Named(<<e>> \o t, name) = Matching(e.children, name) \o Named(t, name)
  <1> SUFFICES ASSUME NEW e \in Elements, NEW t \in Seq(Elements), NEW name
               PROVE  Named(<<e>> \o t, name) = Matching(e.children, name) \o Named(t, name)
    OBVIOUS
  <1>1. <<e>> \in Seq(Elements)
    OBVIOUS
  <1>2. Named(<<e>> \o t, name) = Named(<<e>>, name) \o Named(t, name)
    BY <1>1, NamedConcat
  <1>3. Named(<<e>>, name) = Matching(e.children, name)
    BY NamedOne
  <1> QED
    BY <1>2, <1>3

\* Elements of a name are elements.
LEMMA OfElements == \A name : Of(name) \subseteq Elements /\ Seq(Of(name)) \subseteq Seq(Elements)
  <1>1. \A name : Of(name) \subseteq Elements
    BY DEF Of
  <1> QED
    BY <1>1, SeqMonotonic

\* What the steps of the walk do to the lists.  A function that is called takes
\* the head of its caller's list, and its children are the new list, ...
LEMMA DescendTodo ==
    ASSUME Nested, Lists, Descend,
           NEW n, n = Len(frames)
    PROVE  /\ n \in 1..4 /\ Len(frames') = n + 1
           /\ tpc = "walk" /\ tpc' = "walk"
           /\ Todo(n) # <<>>
           /\ Cur = Head(Todo(n)) /\ Cur \in Elements
           /\ Cur.name = Levels[n + 1]
           /\ Todo(n)' = Tail(Todo(n))
           /\ Todo(n + 1)' = Cur.children
           /\ Todo(n + 1) = <<>>
           /\ \A k \in 1..5 : k \notin {n, n + 1} => Todo(k)' = Todo(k)
  <1> DEFINE next == NextSibling
             e == [name |-> Cur.name, todo |-> Cur.children]
             new == Append(next, e)
  <1>1. /\ n \in 1..4 /\ Cur.name = Levels[n + 1] /\ frames' = new /\ UNCHANGED tpc
    BY Descending
  <1>2. tpc = "walk" /\ Frame.todo # <<>>
    BY DEF Descend, Walking
  <1>3. /\ Chain(frames, path)
        /\ n > 0 /\ n \in Nat /\ n \in 1..n /\ n \in 1..5 /\ n + 1 >= n /\ n + 1 >= n + 1
    <2>1. \A m \in 1..4 : /\ m > 0 /\ m \in Nat /\ m \in 1..m /\ m \in 1..5
                          /\ m + 1 >= m /\ m + 1 >= m + 1
      OBVIOUS
    <2> QED
      BY <1>1, <2>1 DEF Nested
  <1>4. Frame = frames[n]
    BY <1>3, Depth
  <1>5. Chain(next, path) /\ Len(next) = n
    BY <1>3, Sibling
  <1>6. Sequence(next)
    BY <1>5 DEF Chain, Sequence, Range
  <1>7. /\ DOMAIN frames = 1..n
        /\ next[n].todo = Tail(frames[n].todo)
        /\ \A k \in 1..n : k # n => next[k].todo = frames[k].todo
    <2>1. DOMAIN frames = 1..n /\ frames[n] = [name |-> Levels[n], todo |-> frames[n].todo]
      BY <1>1, <1>3 DEF Chain
    <2>2. next = [frames EXCEPT ![n] = [frames[n] EXCEPT !.todo = Tail(frames[n].todo)]]
      BY DEF NextSibling
    <2>3. [frames[n] EXCEPT !.todo = Tail(frames[n].todo)].todo = Tail(frames[n].todo)
      BY <2>1
    <2> HIDE DEF next
    <2> QED
      BY <1>3, <2>1, <2>2, <2>3
  <1>8. /\ Len(new) = n + 1 /\ new[n + 1] = e /\ \A k \in 1..n : new[k] = next[k]
    BY <1>5, <1>6, AppendSequence
  <1>9. e.todo = Cur.children
    OBVIOUS
  <1> HIDE DEF next, e, new
  <1>10. Todo(n) = frames[n].todo /\ Todo(n + 1) = <<>>
    BY <1>1 DEF Todo
  <1>11. Todo(n) # <<>> /\ Cur = Head(Todo(n))
    BY <1>2, <1>4, <1>10 DEF Cur
  <1>12. Todo(n) \in Seq(Elements)
    BY <1>3 DEF Lists
  <1>13. Cur \in Elements
    BY <1>11, <1>12, HeadAndTail
  <1>14. Len(frames') = n + 1 /\ frames'[n + 1] = e /\ \A k \in 1..n : frames'[k] = next[k]
    BY <1>1, <1>8
  <1>15. \A k : Todo(k)' = IF n + 1 >= k THEN frames'[k].todo ELSE <<>>
    BY <1>14 DEF Todo
  <1>16. Todo(n)' = Tail(Todo(n)) /\ Todo(n + 1)' = Cur.children
    <2>1. Todo(n)' = frames'[n].todo /\ Todo(n + 1)' = frames'[n + 1].todo
      BY <1>3, <1>15
    <2>2. frames'[n] = next[n] /\ frames'[n + 1] = e
      BY <1>3, <1>14
    <2> QED
      BY <1>7, <1>9, <1>10, <2>1, <2>2
  <1>17. ASSUME NEW k \in 1..5, k \notin {n, n + 1}
         PROVE  Todo(k)' = Todo(k)
    <2>1. CASE k < n
      <3>1. k \in 1..n /\ k # n /\ n + 1 >= k /\ n >= k
        BY <1>1, <2>1
      <3>2. Todo(k) = frames[k].todo
        BY <3>1 DEF Todo
      <3> QED
        BY <1>7, <1>14, <1>15, <3>1, <3>2
    <2>2. CASE k > n + 1
      <3>1. ~(n + 1 >= k) /\ ~(n >= k)
        BY <1>1, <2>2
      <3> QED
        BY <1>15, <3>1 DEF Todo
    <2> QED
      BY <1>1, <1>17, <2>1, <2>2
  <1> QED
    BY <1>1, <1>2, <1>10, <1>11, <1>13, <1>14, <1>16, <1>17

\* ... the others go on to the next of their list, ...
LEMMA SiblingTodo ==
    ASSUME Nested, Lists, ReadText \/ PassOver,
           NEW n, n = Len(frames)
    PROVE  /\ n \in 1..5 /\ Len(frames') = n
           /\ tpc = "walk" /\ Frame.name = Levels[n]
           /\ Todo(n) # <<>>
           /\ Cur = Head(Todo(n)) /\ Cur \in Elements
           /\ Todo(n)' = Tail(Todo(n))
           /\ \A k \in 1..5 : k # n => Todo(k)' = Todo(k)
  <1> DEFINE next == NextSibling
  <1>1. /\ tpc = "walk" /\ Frame.todo # <<>> /\ frames' = next
    BY DEF ReadText, PassOver, Walking
  <1>2. Chain(frames, path) /\ n > 0 /\ n \in 1..5
    BY <1>1 DEF Nested, Chain
  <1>3. Frame = frames[n] /\ Frame.name = Levels[n]
    BY <1>2, Depth
  <1>4. Chain(next, path) /\ Len(next) = n
    BY <1>2, Sibling
  <1>5. /\ DOMAIN frames = 1..n
        /\ next[n].todo = Tail(frames[n].todo)
        /\ \A k \in 1..n : k # n => next[k].todo = frames[k].todo
    <2>1. DOMAIN frames = 1..n /\ frames[n] = [name |-> Levels[n], todo |-> frames[n].todo]
      BY <1>2 DEF Chain
    <2>2. next = [frames EXCEPT ![n] = [frames[n] EXCEPT !.todo = Tail(frames[n].todo)]]
      BY DEF NextSibling
    <2>3. [frames[n] EXCEPT !.todo = Tail(frames[n].todo)].todo = Tail(frames[n].todo)
      BY <2>1
    <2> HIDE DEF next
    <2>4. n \in 1..n
      BY <1>2
    <2> QED
      BY <2>1, <2>2, <2>3, <2>4
  <1> HIDE DEF next
  <1>6. Todo(n) = frames[n].todo
    BY <1>2 DEF Todo
  <1>7. Todo(n) # <<>> /\ Cur = Head(Todo(n))
    BY <1>1, <1>3, <1>6 DEF Cur
  <1>8. Todo(n) \in Seq(Elements)
    BY <1>2 DEF Lists
  <1>9. Cur \in Elements
    BY <1>7, <1>8, HeadAndTail
  <1>10. \A k : Todo(k)' = IF n >= k THEN next[k].todo ELSE <<>>
    BY <1>1, <1>4 DEF Todo
  <1>11. Todo(n)' = Tail(Todo(n))
    <2>1. n >= n
      BY <1>2
    <2>2. Todo(n)' = next[n].todo
      BY <1>10, <2>1
    <2> QED
      BY <1>5, <1>6, <2>2
  <1>12. ASSUME NEW k \in 1..5, k # n
         PROVE  Todo(k)' = Todo(k)
    <2>1. CASE n >= k
      <3>1. k \in 1..n
        BY <1>2, <2>1
      <3> QED
        BY <1>5, <1>10, <1>12, <2>1, <3>1 DEF Todo
    <2>2. CASE ~(n >= k)
      BY <1>10, <2>2 DEF Todo
    <2> QED
      BY <2>1, <2>2
  <1> QED
    BY <1>1, <1>2, <1>3, <1>4, <1>7, <1>9, <1>11, <1>12

\* ... and a return, with nothing left to look at, changes no list.
LEMMA PopTodo ==
    ASSUME Chain(frames, path), Len(frames) > 0, frames' = Pop(frames),
           Todo(Len(frames)) = <<>>
    PROVE  Len(frames') = Len(frames) - 1 /\ \A k \in 1..5 : Todo(k)' = Todo(k)
  <1> DEFINE n == Len(frames)
             new == Pop(frames)
  <1>1. n \in 1..5 /\ DOMAIN frames = 1..n /\ frames \in Seq(Range(frames))
    BY DEF Chain, Range
  <1>2. Len(new) = n - 1 /\ \A k \in 1..n - 1 : new[k] = frames[k]
    BY <1>1 DEF Pop
  <1> HIDE DEF new
  <1>3. frames' = new
    BY DEF new
  <1>4. ASSUME NEW k \in 1..5 PROVE Todo(k)' = Todo(k)
    <2>1. CASE n - 1 >= k
      <3>1. k \in 1..n - 1 /\ n >= k
        BY <1>1, <2>1
      <3> QED
        BY <1>2, <1>3, <2>1, <3>1 DEF Todo, n
    <2>2. CASE k = n
      <3>1. ~(n - 1 >= k)
        BY <1>1, <2>2
      <3>2. Todo(k)' = <<>>
        BY <1>2, <1>3, <3>1 DEF Todo
      <3> QED
        BY <2>2, <3>2 DEF n
    <2>3. CASE ~(n >= k)
      <3>1. ~(n - 1 >= k)
        BY <1>1, <2>3
      <3> QED
        BY <1>2, <1>3, <2>3, <3>1 DEF Todo, n
    <2>4. \A m \in 1..5 : m - 1 >= k \/ k = m \/ ~(m >= k)
      OBVIOUS
    <2> QED
      BY <1>1, <2>1, <2>2, <2>3, <2>4
  <1> QED
    BY <1>2, <1>3, <1>4 DEF n

\* The steps that leave the lists as they are.
LEMMA StillTodo ==
    ASSUME Nested, Lists,
           AddRule \/ RefuseRule \/ Ascend \/ LeaveGroup \/ AddPrefix \/ RefusePrefix
                \/ EndOfDocument
    PROVE  \A k \in 1..5 : Todo(k)' = Todo(k)
  <1>1. CASE LeaveGroup
    BY <1>1 DEF LeaveGroup, Todo
  <1>2. CASE AddPrefix \/ RefusePrefix
    <2>1. tpc = "prefix" /\ frames' = Pop(frames)
      BY <1>2 DEF AddPrefix, RefusePrefix
    <2>2. Chain(frames, path) /\ Len(frames) = 3 /\ Todo(3) = <<>>
      BY <2>1 DEF Nested, Lists
    <2>3. Len(frames) > 0 /\ Todo(Len(frames)) = <<>>
      BY <2>2
    <2> QED
      BY <2>1, <2>2, <2>3, PopTodo
  <1>3. CASE AddRule \/ RefuseRule \/ Ascend \/ EndOfDocument
    <2>1. frames' = Pop(frames) /\ tpc = "walk" /\ Frame.todo = <<>>
      BY <1>3 DEF AddRule, RefuseRule, Ascend, EndOfDocument, LeaveRule, Leaving
    <2>2. Chain(frames, path) /\ Len(frames) > 0 /\ Len(frames) \in 1..5
      BY <2>1 DEF Nested, Chain
    <2>3. Todo(Len(frames)) = <<>>
      BY <2>1, <2>2, Depth DEF Todo
    <2> QED
      BY <2>1, <2>2, <2>3, PopTodo
  <1> QED
    BY <1>1, <1>2, <1>3

\* parseDoc begins with the children of the root.
LEMMA ParseTodo ==
    ASSUME ParseDoc, tpc' = "walk"
    PROVE  /\ doc.root # NoRoot /\ Len(frames') = 1
           /\ Todo(1)' = doc.root.children /\ \A k \in 2..5 : Todo(k)' = <<>>
  <1> DEFINE todo == doc.root.children
             new == <<[name |-> ROOT, todo |-> todo]>>
  <1>1. doc.root # NoRoot /\ frames' = new
    BY DEF ParseDoc
  <1> HIDE DEF todo
  <1>2. Len(new) = 1 /\ new[1].todo = todo
    OBVIOUS
  <1> HIDE DEF new
  <1>3. \A k : Todo(k)' = IF 1 >= k THEN new[k].todo ELSE <<>>
    BY <1>1, <1>2 DEF Todo
  <1>4. \A k \in 2..5 : ~(1 >= k)
    OBVIOUS
  <1> QED
    BY <1>1, <1>2, <1>3, <1>4 DEF todo

-----------------------------------------------------------------------------
\* GroupsIn and RulesIn are made of such elements, and ...
LEMMA LeftTypes ==
    /\ \A s, t \in Seq(Elements) :
          /\ GroupsIn(s, t) \in Seq(Of("Group"))
          /\ GroupsIn(s, t) \in Seq(Elements)
    /\ \A g, s, t \in Seq(Elements) :
          /\ RulesIn(g, s, t) \in Seq(Of("Rule"))
          /\ RulesIn(g, s, t) \in Seq(Elements)
  <1>1. ASSUME NEW s \in Seq(Elements), NEW t \in Seq(Elements)
        PROVE  GroupsIn(s, t) \in Seq(Of("Group"))
    <2>1. Matching(t, "Group") \in Seq(Of("Group"))
      BY MatchingType
    <2>2. Matching(s, "RegistrationGroups") \in Seq(Elements)
      BY MatchingType, OfElements
    <2>3. Named(Matching(s, "RegistrationGroups"), "Group") \in Seq(Of("Group"))
      BY <2>2, NamedType
    <2> QED
      BY <2>1, <2>3, ConcatProperties DEF GroupsIn
  <1>2. ASSUME NEW g \in Seq(Elements), NEW s \in Seq(Elements), NEW t \in Seq(Elements)
        PROVE  RulesIn(g, s, t) \in Seq(Of("Rule"))
    <2>1. Matching(t, "Rule") \in Seq(Of("Rule"))
      BY MatchingType
    <2>2. Matching(s, "Rules") \in Seq(Elements) /\ Named(g, "Rules") \in Seq(Elements)
      BY MatchingType, NamedType, OfElements
    <2>3. /\ Named(Matching(s, "Rules"), "Rule") \in Seq(Of("Rule"))
          /\ Named(Named(g, "Rules"), "Rule") \in Seq(Of("Rule"))
      BY <2>2, NamedType
    <2> DEFINE a == Named(Matching(s, "Rules"), "Rule")
               b == Named(Named(g, "Rules"), "Rule")
    <2> HIDE DEF a, b
    <2>4. a \o b \in Seq(Of("Rule"))
      BY <2>3, ConcatProperties DEF a, b
    <2> QED
      BY <2>1, <2>4, ConcatProperties DEF RulesIn, a, b
  <1> QED
    BY <1>1, <1>2, OfElements

\* ... an element that no function looks at is not missed, ...
LEMMA LeftSkip ==
    ASSUME NEW s \in Seq(Elements), s # <<>>, NEW t \in Seq(Elements)
    PROVE  /\ Head(s).name # "RegistrationGroups" => GroupsIn(s, t) = GroupsIn(Tail(s), t)
           /\ Head(s).name # "Group" => GroupsIn(t, s) = GroupsIn(t, Tail(s))
           /\ \A g : Head(s).name # "Rules" => RulesIn(g, s, t) = RulesIn(g, Tail(s), t)
           /\ \A g : Head(s).name # "Rule" => RulesIn(g, t, s) = RulesIn(g, t, Tail(s))
  <1>1. ASSUME NEW name, Head(s).name # name
        PROVE  Matching(s, name) = Matching(Tail(s), name)
    <2>1. Matching(Tail(s), name) \in Seq(Elements)
      BY HeadAndTail, MatchingType, OfElements
    <2>2. Matching(s, name) = <<>> \o Matching(Tail(s), name)
      BY <1>1, MatchingHead
    <2> QED
      BY <2>1, <2>2, ConcatEmptySeq
  <1> QED
    BY <1>1 DEF GroupsIn, RulesIn

\* ... the children of one that is descended into take its place, ...
LEMMA LeftInto ==
    ASSUME NEW s \in Seq(Elements), s # <<>>, NEW g \in Seq(Elements)
    PROVE  /\ Head(s).name = "RegistrationGroups" =>
                  GroupsIn(s, <<>>) = GroupsIn(Tail(s), Head(s).children)
           /\ Head(s).name = "Rules" =>
                  RulesIn(g, s, <<>>) = RulesIn(g, Tail(s), Head(s).children)
           /\ RulesIn(s, <<>>, <<>>) = RulesIn(Tail(s), Head(s).children, <<>>)
  <1> DEFINE e == Head(s)
             t == Tail(s)
  <1>1. e \in Elements /\ t \in Seq(Elements) /\ s = <<e>> \o t
        /\ e.children \in Seq(Elements)
    BY HeadAndTail, Children
  <1>2. \A name, other : e.name = name =>
            Named(Matching(s, name), other)
                = Matching(e.children, other) \o Named(Matching(t, name), other)
    <2> SUFFICES ASSUME NEW name, NEW other, e.name = name
                 PROVE  Named(Matching(s, name), other)
                            = Matching(e.children, other) \o Named(Matching(t, name), other)
      OBVIOUS
    <2>1. Matching(s, name) = <<e>> \o Matching(t, name)
      BY MatchingHead
    <2>2. Matching(t, name) \in Seq(Elements)
      BY <1>1, MatchingType, OfElements
    <2> QED
      BY <1>1, <2>1, <2>2, NamedCons
  <1>3. \A name : Matching(e.children, name) \in Seq(Elements)
    BY <1>1, MatchingType, OfElements
  <1>4. \A name, other : Named(Matching(t, name), other) \in Seq(Elements)
    BY <1>1, MatchingType, NamedType, OfElements
  <1>5. ASSUME e.name = "RegistrationGroups"
        PROVE  GroupsIn(s, <<>>) = GroupsIn(t, e.children)
    <2> DEFINE x == Named(Matching(s, "RegistrationGroups"), "Group")
    <2>1. x = Matching(e.children, "Group")
              \o Named(Matching(t, "RegistrationGroups"), "Group")
      BY <1>2, <1>5
    <2>2. x \in Seq(Elements)
      BY MatchingType, NamedType, OfElements
    <2> HIDE DEF x
    <2>3. <<>> \o x = x
      BY <2>2, ConcatEmptySeq
    <2> QED
      BY <2>1, <2>3, MatchingNone DEF GroupsIn, x
  <1>6. ASSUME e.name = "Rules"
        PROVE  RulesIn(g, s, <<>>) = RulesIn(g, t, e.children)
    <2> DEFINE w == Named(Named(g, "Rules"), "Rule")
               x == Matching(e.children, "Rule")
               y == Named(Matching(t, "Rules"), "Rule")
    <2>1. x \in Seq(Elements) /\ y \in Seq(Elements) /\ w \in Seq(Elements)
      BY <1>3, <1>4, NamedType, OfElements
    <2>2. Named(Matching(s, "Rules"), "Rule") = x \o y
      BY <1>2, <1>6
    <2>3. RulesIn(g, t, e.children) = x \o (y \o w)
      BY DEF RulesIn
    <2>4. RulesIn(g, s, <<>>) = <<>> \o ((x \o y) \o w)
      BY <2>2, MatchingNone DEF RulesIn
    <2> HIDE DEF w, x, y
    <2>5. (x \o y) \o w = x \o (y \o w)
      BY <2>1, Grouping, SMTT(30)
    <2>6. x \o (y \o w) \in Seq(Elements)
      BY <2>1
    <2>7. <<>> \o (x \o (y \o w)) = x \o (y \o w)
      BY <2>6, ConcatEmptySeq
    <2> QED
      BY <2>3, <2>4, <2>5, <2>7
  <1>7. RulesIn(s, <<>>, <<>>) = RulesIn(t, e.children, <<>>)
    <2> DEFINE x == Matching(e.children, "Rules")
               y == Named(t, "Rules")
               a == Named(x, "Rule")
               b == Named(y, "Rule")
    <2>1. x \in Seq(Elements) /\ y \in Seq(Elements)
      BY <1>1, <1>3, NamedType, OfElements
    <2>2. a \in Seq(Elements) /\ b \in Seq(Elements)
      BY <2>1, NamedType, OfElements
    <2>3. Named(s, "Rules") = x \o y
      <3> HIDE DEF e, t
      <3>1. Named(<<e>> \o t, "Rules") = x \o y
        BY <1>1, NamedCons
      <3> QED
        BY <1>1, <3>1
    <2>4. Named(x \o y, "Rule") = a \o b
      BY <2>1, NamedConcat
    <2>5. RulesIn(s, <<>>, <<>>) = <<>> \o (<<>> \o (a \o b))
      BY <2>3, <2>4, MatchingNone, NamedNone DEF RulesIn
    <2>6. RulesIn(t, e.children, <<>>) = <<>> \o (a \o b)
      BY MatchingNone DEF RulesIn
    <2> HIDE DEF a, b
    <2>7. a \o b \in Seq(Elements)
      BY <2>2
    <2>8. <<>> \o (a \o b) = a \o b
      BY <2>7, ConcatEmptySeq
    <2> QED
      BY <2>5, <2>6, <2>8
  <1> QED
    BY <1>5, <1>6, <1>7

\* ... and a group or a rule that is come to is the first of those left.
LEMMA LeftNext ==
    ASSUME NEW s \in Seq(Elements), s # <<>>, NEW g \in Seq(Elements), NEW t \in Seq(Elements)
    PROVE  /\ Head(s).name = "Group" => GroupsIn(t, s) = <<Head(s)>> \o GroupsIn(t, Tail(s))
           /\ Head(s).name = "Rule" =>
                  RulesIn(g, t, s) = <<Head(s)>> \o RulesIn(g, t, Tail(s))
  <1> DEFINE e == Head(s)
  <1>1. e \in Elements /\ <<e>> \in Seq(Elements) /\ Tail(s) \in Seq(Elements)
    BY HeadAndTail
  <1>2. \A name : e.name = name => Matching(s, name) = <<e>> \o Matching(Tail(s), name)
    BY MatchingHead
  <1>3. \A name : Matching(Tail(s), name) \in Seq(Elements)
    BY <1>1, MatchingType, OfElements
  <1>4. ASSUME e.name = "Group"
        PROVE  GroupsIn(t, s) = <<e>> \o GroupsIn(t, Tail(s))
    <2> DEFINE x == Matching(Tail(s), "Group")
               y == Named(Matching(t, "RegistrationGroups"), "Group")
    <2>1. x \in Seq(Elements) /\ y \in Seq(Elements)
      BY <1>3, MatchingType, NamedType, OfElements
    <2>2. GroupsIn(t, s) = (<<e>> \o x) \o y /\ GroupsIn(t, Tail(s)) = x \o y
      BY <1>2, <1>4 DEF GroupsIn
    <2> HIDE DEF x, y, e
    <2>3. (<<e>> \o x) \o y = <<e>> \o (x \o y)
      BY <1>1, <2>1, Grouping, SMTT(30)
    <2> QED
      BY <2>2, <2>3
  <1>5. ASSUME e.name = "Rule"
        PROVE  RulesIn(g, t, s) = <<e>> \o RulesIn(g, t, Tail(s))
    <2> DEFINE x == Matching(Tail(s), "Rule")
               a == Named(Matching(t, "Rules"), "Rule")
               b == Named(Named(g, "Rules"), "Rule")
               y == a \o b
    <2>1. x \in Seq(Elements) /\ a \in Seq(Elements) /\ b \in Seq(Elements)
      BY <1>3, MatchingType, NamedType, OfElements
    <2>2. RulesIn(g, t, s) = (<<e>> \o x) \o y /\ RulesIn(g, t, Tail(s)) = x \o y
      BY <1>2, <1>5 DEF RulesIn
    <2> HIDE DEF x, a, b, e
    <2>3. y \in Seq(Elements)
      BY <2>1
    <2> HIDE DEF y
    <2>4. (<<e>> \o x) \o y = <<e>> \o (x \o y)
      BY <1>1, <2>1, <2>3, Grouping, SMTT(30)
    <2> QED
      BY <2>2, <2>4
  <1> QED
    BY <1>4, <1>5

\* A function that passes an element by, or reads its text, does not miss what
\* it descends into.
LEMMA SiblingName ==
    ASSUME Nested, ReadText \/ PassOver
    PROVE  /\ Len(frames) = 1 => Cur.name # "RegistrationGroups"
           /\ Len(frames) = 2 => Cur.name # "Group"
           /\ Len(frames) = 3 => Cur.name # "Rules"
           /\ Len(frames) = 4 => Cur.name # "Rule"
  <1>1. tpc = "walk" /\ (Here \in Reads \/ Here \notin Descends)
    BY DEF ReadText, PassOver, Walking
  <1>2. Here \notin Descends
    BY <1>1 DEF Reads, Descends, ROOT
  <1>3. Chain(frames, path) /\ Len(frames) > 0
    BY <1>1 DEF Nested
  <1>4. Here = <<Frame.name, Cur.name>>
    BY DEF Here
  <1> QED
    BY <1>2, <1>3, <1>4, Depth DEF Descends

\* The steps of the walk.
LEMMA Steps ==
    ASSUME TNext, OnCourse
    PROVE  \/ Descend \/ ReadText \/ PassOver
           \/ AddRule \/ RefuseRule \/ Ascend \/ LeaveGroup \/ AddPrefix \/ RefusePrefix
           \/ EndOfDocument
  BY DEF TNext, OnCourse, ParseDoc

\* The groups that are left: parseGroup is called with the first of them.
LEMMA LeftGroupsStep ==
    ASSUME Nested, Lists, TNext, OnCourse
    PROVE  IF Descend /\ Len(frames) = 2 THEN LeftGroups = <<Cur>> \o LeftGroups'
           ELSE LeftGroups' = LeftGroups
  <1>1. LeftGroups' = GroupsIn(Todo(1)', Todo(2)')
    BY DEF LeftGroups
  <1>2. Todo(1) \in Seq(Elements) /\ Todo(2) \in Seq(Elements)
    BY DEF Lists
  <1>3. CASE Descend
    <2>6. PICK n : n = Len(frames)
      OBVIOUS
    <2>1. n \in 1..4
      BY <1>3, <2>6, DescendTodo
    <2>2. CASE n = 1
      <3>1. /\ Todo(1) # <<>> /\ Cur = Head(Todo(1)) /\ Cur.name = Levels[2]
            /\ Todo(1)' = Tail(Todo(1)) /\ Todo(2)' = Cur.children /\ Todo(2) = <<>>
        <4>1. 1 = Len(frames)
          BY <2>2, <2>6
        <4> QED
          BY <1>3, <4>1, DescendTodo
      <3>2. Cur.name = "RegistrationGroups"
        BY <3>1, LevelNames
      <3>3. GroupsIn(Todo(1), <<>>) = GroupsIn(Tail(Todo(1)), Cur.children)
        BY <1>2, <3>1, <3>2, LeftInto
      <3> QED
        BY <1>1, <2>2, <2>6, <3>1, <3>3 DEF LeftGroups
    <2>3. CASE n = 2
      <3>1. /\ Todo(2) # <<>> /\ Cur = Head(Todo(2)) /\ Cur.name = Levels[3]
            /\ Todo(2)' = Tail(Todo(2)) /\ Todo(1)' = Todo(1)
        BY <1>3, <2>3, <2>6, DescendTodo
      <3>2. Cur.name = "Group"
        BY <3>1, LevelNames
      <3>3. GroupsIn(Todo(1), Todo(2)) = <<Cur>> \o GroupsIn(Todo(1), Tail(Todo(2)))
        BY <1>2, <3>1, <3>2, LeftNext
      <3> QED
        BY <1>1, <1>3, <2>3, <2>6, <3>1, <3>3 DEF LeftGroups
    <2>4. CASE n \in {3, 4}
      <3>1. Todo(1)' = Todo(1) /\ Todo(2)' = Todo(2)
        <4>1. 1 \notin {n, n + 1} /\ 2 \notin {n, n + 1} /\ 1 \in 1..5 /\ 2 \in 1..5
          <5>1. \A m \in {3, 4} : 1 \notin {m, m + 1} /\ 2 \notin {m, m + 1}
            OBVIOUS
          <5> QED
            BY <2>4, <5>1
        <4> QED
          BY <1>3, <2>6, <4>1, DescendTodo
      <3>2. ~(n = 2)
        BY <2>4
      <3> QED
        BY <1>1, <2>6, <3>1, <3>2 DEF LeftGroups
    <2>5. \A m \in 1..4 : m = 1 \/ m = 2 \/ m \in {3, 4}
      OBVIOUS
    <2> QED
      BY <2>1, <2>2, <2>3, <2>4, <2>5
  <1>4. CASE ReadText \/ PassOver
    <2>1. ~Descend
      BY <1>4 DEF ReadText, PassOver, Descend, Reads, Descends, Here
    <2>2. Len(frames) \in 1..5
      BY <1>4, SiblingTodo
    <2>3. CASE Len(frames) = 1
      <3>1. /\ Todo(1) # <<>> /\ Cur = Head(Todo(1)) /\ Cur.name # "RegistrationGroups"
            /\ Todo(1)' = Tail(Todo(1)) /\ Todo(2)' = Todo(2)
        BY <1>4, <2>3, SiblingTodo, SiblingName
      <3>2. GroupsIn(Todo(1), Todo(2)) = GroupsIn(Tail(Todo(1)), Todo(2))
        BY <1>2, <3>1, LeftSkip
      <3> QED
        BY <1>1, <2>1, <3>1, <3>2 DEF LeftGroups
    <2>4. CASE Len(frames) = 2
      <3>1. /\ Todo(2) # <<>> /\ Cur = Head(Todo(2)) /\ Cur.name # "Group"
            /\ Todo(2)' = Tail(Todo(2)) /\ Todo(1)' = Todo(1)
        BY <1>4, <2>4, SiblingTodo, SiblingName
      <3>2. GroupsIn(Todo(1), Todo(2)) = GroupsIn(Todo(1), Tail(Todo(2)))
        BY <1>2, <3>1, LeftSkip
      <3> QED
        BY <1>1, <2>1, <3>1, <3>2 DEF LeftGroups
    <2>5. CASE Len(frames) \in 3..5
      <3>1. Todo(1)' = Todo(1) /\ Todo(2)' = Todo(2)
        <4>1. 1 # Len(frames) /\ 2 # Len(frames) /\ 1 \in 1..5 /\ 2 \in 1..5
          BY <2>5
        <4> QED
          BY <1>4, <4>1, SiblingTodo
      <3> QED
        BY <1>1, <2>1, <3>1 DEF LeftGroups
    <2> QED
      BY <2>2, <2>3, <2>4, <2>5
  <1>5. CASE AddRule \/ RefuseRule \/ Ascend \/ LeaveGroup \/ AddPrefix \/ RefusePrefix
                \/ EndOfDocument
    <2>1. Todo(1)' = Todo(1) /\ Todo(2)' = Todo(2)
      BY <1>5, StillTodo
    <2>2. ~(Descend /\ Len(frames) = 2)
      <3>1. Descend => Todo(Len(frames)) # <<>> /\ tpc = "walk" /\ Len(frames) \in 1..4
        BY DescendTodo
      <3> QED
        BY <1>3, <1>5, <2>1, <3>1, LevelNames DEF Descend, AddRule, RefuseRule, Ascend, LeaveGroup,
               AddPrefix, RefusePrefix, EndOfDocument, Walking, Leaving
    <2> QED
      BY <1>1, <2>1, <2>2 DEF LeftGroups
  <1> QED
    BY <1>3, <1>4, <1>5, Steps

\* The rules that are left: parseRule is called with the first of them.
LEMMA LeftRulesStep ==
    ASSUME Nested, Lists, TNext, OnCourse
    PROVE  IF Descend /\ Len(frames) = 4 THEN LeftRules = <<Cur>> \o LeftRules'
           ELSE LeftRules' = LeftRules
  <1>1. LeftRules' = RulesIn(LeftGroups', Todo(3)', Todo(4)')
    BY DEF LeftRules
  <1>2. /\ Todo(3) \in Seq(Elements) /\ Todo(4) \in Seq(Elements)
        /\ LeftGroups \in Seq(Elements)
    BY LeftTypes DEF Lists, LeftGroups
  <1>3. CASE Descend
    <2> DEFINE n == Len(frames)
    <2>1. n \in 1..4
      BY <1>3, DescendTodo
    <2>2. CASE n = 1
      <3>1. Todo(3)' = Todo(3) /\ Todo(4)' = Todo(4)
        BY <1>3, <2>2, DescendTodo
      <3>2. LeftGroups' = LeftGroups
        BY <2>2, LeftGroupsStep
      <3> QED
        BY <1>1, <2>2, <3>1, <3>2 DEF LeftRules
    <2>3. CASE n = 2
      <3>1. /\ Todo(3)' = Cur.children /\ Todo(3) = <<>> /\ Todo(4)' = Todo(4)
            /\ Cur \in Elements
        BY <1>3, <2>3, DescendTodo
      <3>2. Todo(4) = <<>>
        BY <2>3 DEF Todo
      <3>3. LeftGroups = <<Cur>> \o LeftGroups'
        BY <1>3, <2>3, LeftGroupsStep
      <3>4. LeftGroups' \in Seq(Elements)
        <4>1. /\ Todo(1) \in Seq(Elements) /\ Todo(2) \in Seq(Elements) /\ Todo(2) # <<>>
              /\ Todo(1)' = Todo(1) /\ Todo(2)' = Tail(Todo(2))
          BY <1>3, <2>3, DescendTodo DEF Lists
        <4>2. Todo(2)' \in Seq(Elements)
          BY <4>1, HeadAndTail
        <4>3. GroupsIn(Todo(1)', Todo(2)') \in Seq(Elements)
          BY <4>1, <4>2, LeftTypes
        <4> QED
          BY <4>3 DEF LeftGroups
      <3>5. LeftGroups # <<>> /\ Head(LeftGroups) = Cur /\ Tail(LeftGroups) = LeftGroups'
        BY <3>1, <3>3, <3>4
      <3>6. RulesIn(LeftGroups, <<>>, <<>>)
                = RulesIn(LeftGroups', Cur.children, <<>>)
        BY <1>2, <3>5, LeftInto
      <3> QED
        BY <1>1, <2>3, <3>1, <3>2, <3>6 DEF LeftRules
    <2>4. CASE n = 3
      <3>1. /\ Todo(3) # <<>> /\ Cur = Head(Todo(3)) /\ Cur.name = Levels[4]
            /\ Todo(3)' = Tail(Todo(3)) /\ Todo(4)' = Cur.children /\ Todo(4) = <<>>
        BY <1>3, <2>4, DescendTodo
      <3>2. Cur.name = "Rules" /\ LeftGroups' = LeftGroups
        BY <2>4, <3>1, LevelNames, LeftGroupsStep
      <3>3. RulesIn(LeftGroups, Todo(3), <<>>)
                = RulesIn(LeftGroups, Tail(Todo(3)), Cur.children)
        BY <1>2, <3>1, <3>2, LeftInto
      <3> QED
        BY <1>1, <2>4, <3>1, <3>2, <3>3 DEF LeftRules
    <2>5. CASE n = 4
      <3>1. /\ Todo(4) # <<>> /\ Cur = Head(Todo(4)) /\ Cur.name = Levels[5]
            /\ Todo(4)' = Tail(Todo(4)) /\ Todo(3)' = Todo(3)
        BY <1>3, <2>5, DescendTodo
      <3>2. Cur.name = "Rule" /\ LeftGroups' = LeftGroups
        BY <2>5, <3>1, LevelNames, LeftGroupsStep
      <3>3. RulesIn(LeftGroups, Todo(3), Todo(4))
                = <<Cur>> \o RulesIn(LeftGroups, Todo(3), Tail(Todo(4)))
        BY <1>2, <3>1, <3>2, LeftNext
      <3> QED
        BY <1>1, <1>3, <2>5, <3>1, <3>2, <3>3 DEF LeftRules
    <2> QED
      BY <2>1, <2>2, <2>3, <2>4, <2>5
  <1>4. CASE ~Descend
    <2>1. LeftGroups' = LeftGroups
      BY <1>4, LeftGroupsStep
    <2>2. CASE ReadText \/ PassOver
      <3>1. Len(frames) \in 1..5
        BY <2>2, SiblingTodo
      <3>2. CASE Len(frames) = 3
        <4>1. /\ Todo(3) # <<>> /\ Cur = Head(Todo(3)) /\ Cur.name # "Rules"
              /\ Todo(3)' = Tail(Todo(3)) /\ Todo(4)' = Todo(4)
          BY <2>2, <3>2, SiblingTodo, SiblingName
        <4>2. RulesIn(LeftGroups, Todo(3), Todo(4))
                  = RulesIn(LeftGroups, Tail(Todo(3)), Todo(4))
          BY <1>2, <4>1, LeftSkip
        <4> QED
          BY <1>1, <1>4, <2>1, <4>1, <4>2 DEF LeftRules
      <3>3. CASE Len(frames) = 4
        <4>1. /\ Todo(4) # <<>> /\ Cur = Head(Todo(4)) /\ Cur.name # "Rule"
              /\ Todo(4)' = Tail(Todo(4)) /\ Todo(3)' = Todo(3)
          BY <2>2, <3>3, SiblingTodo, SiblingName
        <4>2. RulesIn(LeftGroups, Todo(3), Todo(4))
                  = RulesIn(LeftGroups, Todo(3), Tail(Todo(4)))
          BY <1>2, <4>1, LeftSkip
        <4> QED
          BY <1>1, <1>4, <2>1, <4>1, <4>2 DEF LeftRules
      <3>4. CASE Len(frames) \in {1, 2, 5}
        <4>1. Todo(3)' = Todo(3) /\ Todo(4)' = Todo(4)
          <5>1. 3 # Len(frames) /\ 4 # Len(frames) /\ 3 \in 1..5 /\ 4 \in 1..5
            BY <3>4
          <5> QED
            BY <2>2, <5>1, SiblingTodo
        <4> QED
          BY <1>1, <1>4, <2>1, <4>1 DEF LeftRules
      <3>5. \A m \in 1..5 : m = 3 \/ m = 4 \/ m \in {1, 2, 5}
        OBVIOUS
      <3> QED
        BY <3>1, <3>2, <3>3, <3>4, <3>5
    <2>3. CASE ~(ReadText \/ PassOver)
      <3>1. Todo(3)' = Todo(3) /\ Todo(4)' = Todo(4)
        BY <1>4, <2>3, Steps, StillTodo
      <3> QED
        BY <1>1, <1>4, <2>1, <3>1 DEF LeftRules
    <2> QED
      BY <2>2, <2>3
  <1> QED
    BY <1>3, <1>4

-----------------------------------------------------------------------------
\* The groups and the rules of a document are elements.
LEMMA DocTypes ==
    ASSUME doc.root \in Elements
    PROVE  /\ DocGroups \in Seq(Of("Group")) /\ DocGroups \in Seq(Elements)
           /\ DocRules \in Seq(Of("Rule")) /\ DocRules \in Seq(Elements)
           /\ DocGroups = GroupsIn(doc.root.children, <<>>)
           /\ DocRules = RulesIn(GroupsIn(doc.root.children, <<>>), <<>>, <<>>)
  <1> DEFINE r == <<doc.root>>
             a == Named(r, "RegistrationGroups")
             c == Named(DocGroups, "Rules")
  <1>1. r \in Seq(Elements)
    OBVIOUS
  <1>2. a \in Seq(Elements) /\ a = Matching(doc.root.children, "RegistrationGroups")
    BY <1>1, NamedType, NamedOne, OfElements
  <1> HIDE DEF r, a
  <1>3. DocGroups \in Seq(Of("Group")) /\ DocGroups \in Seq(Elements)
    BY <1>2, NamedType, OfElements DEF DocGroups, a, r
  <1>4. c \in Seq(Elements)
    BY <1>3, NamedType, OfElements
  <1> HIDE DEF c
  <1>5. DocRules \in Seq(Of("Rule")) /\ DocRules \in Seq(Elements)
    BY <1>4, NamedType, OfElements DEF DocRules, c
  <1>6. DocGroups = GroupsIn(doc.root.children, <<>>)
    <2>1. GroupsIn(doc.root.children, <<>>) = <<>> \o DocGroups
      BY <1>2, MatchingNone DEF GroupsIn, DocGroups, a, r
    <2> QED
      BY <1>3, <2>1, ConcatEmptySeq
  <1>7. DocRules = RulesIn(DocGroups, <<>>, <<>>)
    <2>1. RulesIn(DocGroups, <<>>, <<>>) = <<>> \o (<<>> \o DocRules)
      BY MatchingNone, NamedNone DEF RulesIn, DocRules
    <2>2. <<>> \o DocRules = DocRules
      BY <1>5, ConcatEmptySeq
    <2> QED
      BY <2>1, <2>2
  <1> QED
    BY <1>3, <1>5, <1>6, <1>7

\* parseDoc starts from nothing, with all groups and rules left.
LEMMA ParseStart ==
    ASSUME TableIInv, Lists, ParseDoc, tpc' = "walk"
    PROVE  /\ doc.root \in Elements /\ doc' = doc /\ UNCHANGED <<source, ranges, cur_agency>>
           /\ source.group = 0 /\ rule_nr = 0 /\ cur_agency = NoText
           /\ LeftGroups' = DocGroups /\ LeftRules' = DocRules
           /\ Len(frames') = 1
           /\ Todo(1)' = doc.root.children /\ \A k \in 2..5 : Todo(k)' = <<>>
  <1>1. /\ doc.root # NoRoot /\ Len(frames') = 1
        /\ Todo(1)' = doc.root.children /\ \A k \in 2..5 : Todo(k)' = <<>>
    BY ParseTodo
  <1>2. doc.root \in Elements
    BY <1>1, DocsAssumption DEF Lists
  <1>3. /\ tpc = "doc" /\ doc' = doc /\ UNCHANGED <<source, ranges, cur_agency>>
    BY DEF ParseDoc, rules
  <1>4. Todo(2)' = <<>> /\ Todo(3)' = <<>> /\ Todo(4)' = <<>>
    BY <1>1
  <1>5. LeftGroups' = DocGroups
    BY <1>1, <1>2, <1>4, DocTypes DEF LeftGroups
  <1>6. LeftRules' = DocRules
    BY <1>2, <1>4, <1>5, DocTypes DEF LeftRules
  <1> QED
    BY <1>1, <1>2, <1>3, <1>5, <1>6 DEF Lists

\* Lists stay lists of elements.
LEMMA ListsStep ==
    ASSUME TableIInv, Lists, TNext
    PROVE  Lists'
  <1>1. Nested /\ doc' = doc /\ tpc' # "doc"
    BY DEF TableIInv, TNext, ParseDoc, Descend, ReadText, PassOver, RefuseRule, AddRule,
           Ascend, LeaveGroup, AddPrefix, RefusePrefix, EndOfDocument, Walking, Leaving
  <1>2. CASE ParseDoc /\ tpc' = "walk"
    <2>1. /\ doc.root \in Elements /\ Todo(1)' = doc.root.children
          /\ \A k \in 2..5 : Todo(k)' = <<>>
      BY <1>2, ParseStart
    <2>2. \A n \in 1..5 : Todo(n)' \in Seq(Elements)
      <3>1. Todo(1)' \in Seq(Elements)
        BY <2>1, Children
      <3>2. \A n \in 1..5 : n = 1 \/ n \in 2..5
        OBVIOUS
      <3>3. <<>> \in Seq(Elements)
        OBVIOUS
      <3> QED
        BY <2>1, <3>1, <3>2, <3>3
    <2> QED
      BY <1>1, <1>2, <2>1, <2>2 DEF Lists
  <1>3. CASE ParseDoc /\ tpc' # "walk"
    <2>1. tpc' = "done" /\ UNCHANGED frames
      BY <1>3 DEF ParseDoc
    <2> QED
      BY <1>1, <2>1 DEF Lists, OnCourse, Todo
  <1>4. CASE Descend
    <2>1. PICK n : n = Len(frames)
      OBVIOUS
    <2>2. /\ n \in 1..4 /\ tpc = "walk" /\ tpc' = "walk" /\ Todo(n) # <<>> /\ Cur \in Elements
          /\ Todo(n)' = Tail(Todo(n)) /\ Todo(n + 1)' = Cur.children
          /\ \A k \in 1..5 : k \notin {n, n + 1} => Todo(k)' = Todo(k)
      BY <1>1, <1>4, <2>1, DescendTodo
    <2>3. n \in 1..5
      BY <2>2
    <2>4. Todo(n)' \in Seq(Elements) /\ Todo(n + 1)' \in Seq(Elements)
      BY <2>2, <2>3, HeadAndTail, Children DEF Lists
    <2>5. \A k \in 1..5 : Todo(k)' \in Seq(Elements)
      <3>1. ASSUME NEW k \in 1..5 PROVE Todo(k)' \in Seq(Elements)
        <4>1. CASE k \in {n, n + 1}
          BY <2>4, <4>1
        <4>2. CASE k \notin {n, n + 1}
          BY <2>2, <4>2 DEF Lists
        <4> QED
          BY <4>1, <4>2
      <3> QED
        BY <3>1
    <2> QED
      BY <1>1, <2>2, <2>5 DEF Lists, OnCourse
  <1>5. CASE ReadText \/ PassOver
    <2>1. PICK n : n = Len(frames)
      OBVIOUS
    <2>2. /\ n \in 1..5 /\ tpc = "walk" /\ Todo(n) # <<>>
          /\ Todo(n)' = Tail(Todo(n))
          /\ \A k \in 1..5 : k # n => Todo(k)' = Todo(k)
      BY <1>1, <1>5, <2>1, SiblingTodo
    <2>3. tpc' # "prefix"
      BY <1>5, <2>2 DEF ReadText, PassOver
    <2>4. Todo(n)' \in Seq(Elements)
      BY <2>2, HeadAndTail DEF Lists
    <2>5. \A k \in 1..5 : Todo(k)' \in Seq(Elements)
      BY <2>2, <2>4 DEF Lists
    <2> QED
      BY <1>1, <2>2, <2>3, <2>5 DEF Lists, OnCourse
  <1>6. CASE AddRule \/ RefuseRule \/ Ascend \/ LeaveGroup \/ AddPrefix \/ RefusePrefix
                \/ EndOfDocument
    <2>1. \A k \in 1..5 : Todo(k)' = Todo(k)
      BY <1>1, <1>6, StillTodo
    <2>2. tpc \in {"walk", "prefix"}
      BY <1>6 DEF AddRule, RefuseRule, Ascend, LeaveGroup, AddPrefix, RefusePrefix,
             EndOfDocument, Leaving
    <2>3. tpc' = "prefix" => Todo(3) = <<>>
      <3>1. CASE LeaveGroup
        <4>1. Leaving({"Group"})
          BY <3>1 DEF LeaveGroup
        <4>2. Len(frames) = 3 /\ Chain(frames, path) /\ Frame.todo = <<>>
          BY <1>1, <4>1, LeavingDepth DEF Leaving
        <4>3. Frame = frames[3] /\ Len(frames) >= 3
          <5>1. Len(frames) > 0 /\ Len(frames) >= 3
            BY <4>2
          <5> QED
            BY <4>2, <5>1, Depth
        <4> QED
          BY <4>2, <4>3 DEF Todo
      <3>2. CASE ~LeaveGroup
        BY <1>6, <3>2 DEF AddRule, RefuseRule, Ascend, AddPrefix, RefusePrefix,
               EndOfDocument, Leaving
      <3> QED
        BY <3>1, <3>2
    <2>4. Todo(3)' = Todo(3)
      BY <2>1
    <2> QED
      BY <1>1, <2>1, <2>2, <2>3, <2>4 DEF Lists, OnCourse
  <1> QED
    BY <1>2, <1>3, <1>4, <1>5, <1>6 DEF TNext

\* The count of the groups goes with the calls of parseGroup.
LEMMA GroupCount ==
    ASSUME TableIInv, TNext
    PROVE  /\ source.group \in Nat
           /\ source'.group = IF Descend /\ Len(frames) = 2 THEN source.group + 1
                              ELSE source.group
  <1>1. Nested /\ source \in [group : Nat, ranges : Seq(Nat), prefixes : Seq(Nat)]
    BY DEF TableIInv, Counts
  <1> DEFINE g == source.group
  <1>2. g \in Nat
    BY <1>1
  <1>3. CASE Descend
    <2> DEFINE h == g + IF Cur.name = "Group" THEN 1 ELSE 0
    <2>1. source' = [source EXCEPT !.group = h]
      BY <1>3 DEF Descend
    <2>2. source'.group = h
      BY <1>1, <2>1
    <2>3. Cur.name = "Group" <=> Len(frames) = 2
      BY <1>1, <1>3, Descending
    <2> HIDE DEF g
    <2> QED
      BY <1>2, <1>3, <2>2, <2>3 DEF g
  <1>4. CASE ~Descend
    <2>1. \/ UNCHANGED source
          \/ source' = [source EXCEPT !.ranges = Append(@, source.group)]
          \/ source' = [source EXCEPT !.prefixes = Append(@, source.group)]
      BY <1>4 DEF TNext, ParseDoc, ReadText, PassOver, RefuseRule, AddRule, StoreRule, Ascend,
             LeaveGroup, AddPrefix, RefusePrefix, EndOfDocument
    <2>2. source'.group = g
      BY <1>1, <2>1
    <2> QED
      BY <1>2, <1>4, <2>2
  <1> QED
    BY <1>2, <1>3, <1>4

\* A walk under way goes on from one, or begins.
LEMMA OnTheWay ==
    ASSUME TNext, OnCourse'
    PROVE  OnCourse \/ (ParseDoc /\ tpc' = "walk")
  <1>1. CASE ParseDoc
    BY <1>1 DEF OnCourse, ParseDoc
  <1>2. CASE ~ParseDoc
    <2>1. tpc \in {"walk", "prefix"}
      BY <1>2 DEF TNext, Descend, ReadText, PassOver, RefuseRule, AddRule, Ascend,
             LeaveGroup, AddPrefix, RefusePrefix, EndOfDocument, Walking, Leaving
    <2> QED
      BY <2>1 DEF OnCourse
  <1> QED
    BY <1>1, <1>2

\* The next group is the document's next.
LEMMA IntoNextGroup ==
    ASSUME TableIInv, Lists, GroupsInOrder, TNext, OnCourse, Descend, Len(frames) = 2
    PROVE  /\ source.group + 1 \in 1..Len(DocGroups)
           /\ DocGroups[source.group + 1] = Cur
           /\ Rest(DocGroups, source.group + 1) = LeftGroups'
           /\ SubSeq(DocGroups, 1, source.group + 1)
                  = SubSeq(DocGroups, 1, source.group) \o <<Cur>>
           /\ SubSeq(DocGroups, 1, source.group) \in Seq(Elements)
           /\ Cur \in Elements
  <1> DEFINE g == source.group
             left == LeftGroups'
  <1>1. Nested
    BY DEF TableIInv
  <1>2. DocGroups \in Seq(Elements) /\ g \in 0..Len(DocGroups) /\ Rest(DocGroups, g) = LeftGroups
    BY DocTypes DEF Lists, GroupsInOrder
  <1>3. LeftGroups = <<Cur>> \o left
    BY <1>1, LeftGroupsStep
  <1>4. Cur \in Elements
    BY <1>1, DescendTodo
  <1>5. Lists'
    BY ListsStep
  <1>6. Todo(1)' \in Seq(Elements) /\ Todo(2)' \in Seq(Elements)
    BY <1>5 DEF Lists
  <1>7. left \in Seq(Elements)
    BY <1>6, LeftTypes DEF LeftGroups
  <1> HIDE DEF left
  <1>8. SubSeq(DocGroups, 1, g) \in Seq(Elements)
    BY <1>2
  <1> HIDE DEF g
  <1>9. Rest(DocGroups, g) = <<Cur>> \o left
    BY <1>2, <1>3
  <1>10. /\ g + 1 \in 1..Len(DocGroups) /\ DocGroups[g + 1] = Cur
         /\ Rest(DocGroups, g + 1) = left
         /\ SubSeq(DocGroups, 1, g + 1) = SubSeq(DocGroups, 1, g) \o <<Cur>>
    BY <1>2, <1>4, <1>7, <1>9, RestNext
  <1> QED
    BY <1>4, <1>8, <1>10 DEF left, g

\* The groups are visited in the order of the document.
LEMMA GroupsStep ==
    ASSUME TableIInv, Lists, GroupsInOrder, TNext
    PROVE  GroupsInOrder'
  <1> SUFFICES ASSUME OnCourse'
               PROVE  /\ source'.group \in 0..Len(DocGroups')
                      /\ Rest(DocGroups', source'.group) = LeftGroups'
    BY DEF GroupsInOrder
  <1>1. DocGroups' = DocGroups
    BY DEF DocGroups, TNext, ParseDoc, Descend, ReadText, PassOver, RefuseRule, AddRule,
           Ascend, LeaveGroup, AddPrefix, RefusePrefix, EndOfDocument
  <1>2. CASE ParseDoc /\ tpc' = "walk"
    <2>1. doc.root \in Elements /\ source' = source /\ source.group = 0 /\ LeftGroups' = DocGroups
      BY <1>2, ParseStart
    <2>2. DocGroups \in Seq(Elements) /\ Rest(DocGroups, 0) = DocGroups
      BY <2>1, DocTypes, RestAll
    <2>3. 0 \in 0..Len(DocGroups)
      BY <2>2
    <2> QED
      BY <1>1, <2>1, <2>2, <2>3
  <1>3. CASE OnCourse
    <2>1. Nested
      BY DEF TableIInv
    <2>2. CASE Descend /\ Len(frames) = 2
      <3>1. source'.group = source.group + 1 /\ source.group \in Nat
        BY <2>2, GroupCount
      <3>2. /\ source.group + 1 \in 1..Len(DocGroups)
            /\ Rest(DocGroups, source.group + 1) = LeftGroups'
        BY <1>3, <2>2, IntoNextGroup
      <3>3. source.group + 1 \in 0..Len(DocGroups)
        BY <3>1, <3>2
      <3> QED
        BY <1>1, <3>1, <3>2, <3>3
    <2>3. CASE ~(Descend /\ Len(frames) = 2)
      <3>1. source'.group = source.group /\ LeftGroups' = LeftGroups
        BY <1>3, <2>1, <2>3, GroupCount, LeftGroupsStep
      <3> QED
        BY <1>1, <1>3, <3>1 DEF GroupsInOrder
    <2> QED
      BY <2>2, <2>3
  <1> QED
    BY <1>2, <1>3, OnTheWay

\* An agency is heard when it is read; the groups that the walk has not come to
\* have not been heard.
LEMMA AgencyStep ==
    ASSUME TableIInv, Lists, GroupsInOrder, AgencyHeard, TNext
    PROVE  AgencyHeard'
  <1> SUFFICES ASSUME OnCourse'
               PROVE  AgencyHeard'
    BY DEF AgencyHeard
  <1> DEFINE A == "Agency"
             g == source.group
             all == Agencies
             left == Matching(Todo(3), A)
             left2 == Matching(Todo(3)', A)
  <1>0. Nested
    BY DEF TableIInv
  <1>1. /\ DocGroups' = DocGroups
        /\ Agencies' = Named(SubSeq(DocGroups', 1, source'.group), A)
        /\ Heard' = Before(Agencies', left2)
    BY DEF DocGroups, Agencies, Heard, TNext, ParseDoc, Descend, ReadText, PassOver, RefuseRule,
           AddRule, Ascend, LeaveGroup, AddPrefix, RefusePrefix, EndOfDocument
  <1>2. Lists'
    BY ListsStep
  <1>3. Todo(3) \in Seq(Elements) /\ Todo(3)' \in Seq(Elements)
    BY <1>2 DEF Lists
  <1>4. left \in Seq(Elements) /\ left2 \in Seq(Elements)
    BY <1>3, MatchingType, OfElements
  <1>5. CASE ParseDoc /\ tpc' = "walk"
    <2>1. /\ doc.root \in Elements /\ g = 0 /\ source' = source /\ Todo(3)' = <<>>
          /\ cur_agency' = NoText
      BY <1>5, ParseStart
    <2>2. DocGroups \in Seq(Elements) /\ SubSeq(DocGroups, 1, 0) = <<>>
      BY <2>1, DocTypes, RestAll
    <2>3. Agencies' = <<>> /\ left2 = <<>>
      BY <1>1, <2>1, <2>2, NamedNone, MatchingNone
    <2>4. Before(<<>>, <<>>) = <<>> /\ <<>> \o <<>> = <<>>
      BY DEF Before
    <2> QED
      BY <1>1, <1>5, <2>1, <2>3, <2>4 DEF AgencyHeard
  <1>6. CASE OnCourse
    <2>1. doc.root \in Elements /\ DocGroups \in Seq(Elements) /\ g \in 0..Len(DocGroups)
      BY <1>6, DocTypes DEF Lists, GroupsInOrder
    <2>2. /\ all = Heard \o left
          /\ IF Heard = <<>> THEN cur_agency \in {NoText, AGENCY_ERROR}
             ELSE cur_agency = Last(Heard).text /\ cur_agency # NoText
          /\ tpc = "prefix" /\ Heard = <<>> => cur_agency = AGENCY_ERROR
      BY <1>6 DEF AgencyHeard
    <2>3. all \in Seq(Elements) /\ Heard \in Seq(Elements)
      <3>1. SubSeq(DocGroups, 1, g) \in Seq(Elements)
        BY <2>1
      <3>2. all \in Seq(Elements)
        BY <3>1, NamedType, OfElements DEF Agencies
      <3>3. \A m \in 1..Len(all) - Len(left) : m \in 1..Len(all)
        BY <1>4, <3>2
      <3> HIDE DEF all, left
      <3>4. SubSeq(all, 1, Len(all) - Len(left)) \in Seq(Elements)
        <4>1. Len(all) \in Nat /\ Len(left) \in Nat
          BY <1>4, <3>2
        <4>2. 1 \in Int /\ Len(all) - Len(left) \in Int
              /\ \A m \in 1..Len(all) - Len(left) : all[m] \in Elements
          BY <3>2, <3>3, <4>1
        <4> QED
          BY <4>2, SubSeqProperties
      <3> QED
        BY <3>2, <3>4 DEF Heard, Before, all, left
    <2>4. CASE Descend /\ Len(frames) = 2
      <3>1. /\ source'.group = g + 1 /\ Todo(3)' = Cur.children /\ Todo(3) = <<>>
            /\ tpc' = "walk" /\ Cur \in Elements
        <4>1. 2 = Len(frames)
          BY <2>4
        <4> QED
          BY <1>0, <2>4, <4>1, DescendTodo, GroupCount
      <3>2. cur_agency' = cur_agency
        BY <2>4 DEF Descend, Forget
      <3>3. /\ SubSeq(DocGroups, 1, g + 1) = SubSeq(DocGroups, 1, g) \o <<Cur>>
            /\ SubSeq(DocGroups, 1, g) \in Seq(Elements) /\ <<Cur>> \in Seq(Elements)
        <4>1. <<Cur>> \in Seq(Elements)
          BY <3>1
        <4> QED
          BY <1>6, <2>4, <4>1, IntoNextGroup
      <3>4. Named(SubSeq(DocGroups, 1, g) \o <<Cur>>, A)
                = Named(SubSeq(DocGroups, 1, g), A) \o Named(<<Cur>>, A)
        BY <3>3, NamedConcat
      <3>5. Agencies' = all \o left2
        BY <1>1, <3>1, <3>3, <3>4, NamedOne DEF Agencies
      <3>6. left = <<>> /\ Heard = all
        <4>1. left = <<>>
          BY <3>1, MatchingNone
        <4>2. Heard \o <<>> = Heard
          BY <2>3, ConcatEmptySeq
        <4> QED
          BY <2>2, <4>1, <4>2
      <3>7. Heard' = all
        <4> HIDE DEF left2, all
        <4>1. Before(all \o left2, left2) = all
          BY <1>4, <2>3, BeforeLeft DEF all
        <4> QED
          BY <1>1, <3>5, <4>1 DEF all, left2
      <3> QED
        BY <2>2, <3>1, <3>2, <3>5, <3>6, <3>7 DEF AgencyHeard
    <2>5. CASE ~(Descend /\ Len(frames) = 2)
      <3>1. source'.group = g /\ Agencies' = all
        BY <1>1, <2>5, GroupCount DEF Agencies
      <3>2. CASE ReadText /\ Len(frames) = 3 /\ Cur.name = A
        <4>1. /\ Todo(3) # <<>> /\ Cur = Head(Todo(3)) /\ Cur \in Elements
              /\ Todo(3)' = Tail(Todo(3)) /\ Frame.name = Levels[3] /\ tpc = "walk"
          <5>1. 3 = Len(frames)
            BY <3>2
          <5> QED
            BY <1>0, <3>2, <5>1, SiblingTodo
        <4>2. left = <<Cur>> \o left2
          BY <1>3, <3>2, <4>1, MatchingHead
        <4>3. Heard' = Heard \o <<Cur>> /\ all = (Heard \o <<Cur>>) \o left2
          <5> DEFINE h == Heard
                     c == <<Cur>>
          <5>1. h \in Seq(Elements) /\ c \in Seq(Elements)
            BY <2>3, <4>1
          <5> HIDE DEF left2, h, c, all, left
          <5>2. (h \o c) \o left2 = h \o (c \o left2)
            BY <1>4, <5>1, Grouping, SMTT(30)
          <5>3. h \o c \in Seq(Elements)
            BY <5>1
          <5>4. Before((h \o c) \o left2, left2) = h \o c
            BY <1>4, <5>3, BeforeLeft
          <5>5. all = (h \o c) \o left2
            BY <2>2, <4>2, <5>2 DEF h, c
          <5> QED
            BY <1>1, <3>1, <5>4, <5>5 DEF h, c
        <4>4. cur_agency' = Cur.text /\ tpc' # "prefix" /\ Cur.text # NoText
          <5>1. Frame.name = "Group"
            BY <4>1, LevelNames
          <5>2. tpc' # "fault"
            BY DEF OnCourse
          <5> QED
            BY <3>2, <4>1, <5>1, <5>2 DEF ReadText
        <4>5. Heard \o <<Cur>> # <<>> /\ Last(Heard \o <<Cur>>) = Cur
          <5> DEFINE h == Heard
          <5>1. h \in Seq(Elements)
            BY <2>3
          <5> HIDE DEF h
          <5>2. Len(h \o <<Cur>>) = Len(h) + 1 /\ (h \o <<Cur>>)[Len(h) + 1] = Cur
                /\ Len(h) \in Nat
            BY <4>1, <5>1
          <5>3. h \o <<Cur>> # <<>>
            BY <5>2
          <5> QED
            BY <5>2, <5>3 DEF h, Last
        <4> QED
          BY <3>1, <4>3, <4>4, <4>5 DEF AgencyHeard
      <3>3. CASE ~(ReadText /\ Len(frames) = 3 /\ Cur.name = A)
        <4>1. left2 = left
          <5>1. CASE Descend
            <6>1. PICK n : n = Len(frames)
              OBVIOUS
            <6>2. /\ n \in 1..4 /\ Todo(n) # <<>> /\ Cur = Head(Todo(n))
                  /\ Cur.name = Levels[n + 1] /\ Todo(n)' = Tail(Todo(n))
                  /\ \A k \in 1..5 : k \notin {n, n + 1} => Todo(k)' = Todo(k)
              BY <1>0, <5>1, <6>1, DescendTodo
            <6>3. CASE n = 3
              <7>1. Cur.name # A /\ Todo(3) # <<>> /\ Cur = Head(Todo(3))
                    /\ Todo(3)' = Tail(Todo(3))
                BY <6>2, <6>3, LevelNames
              <7>2. left = <<>> \o left2
                BY <1>3, <7>1, MatchingHead
              <7> QED
                BY <1>4, <7>2, ConcatEmptySeq
            <6>4. CASE n \in {1, 4}
              <7>1. 3 \notin {n, n + 1} /\ 3 \in 1..5
                BY <6>4
              <7> QED
                BY <6>2, <7>1
            <6>5. n # 2
              BY <2>5, <5>1, <6>1
            <6>6. \A m \in 1..4 : m = 2 \/ m = 3 \/ m \in {1, 4}
              OBVIOUS
            <6> QED
              BY <6>2, <6>3, <6>4, <6>5, <6>6
          <5>2. CASE ReadText \/ PassOver
            <6>1. PICK n : n = Len(frames)
              OBVIOUS
            <6>2. /\ n \in 1..5 /\ Todo(n) # <<>> /\ Cur = Head(Todo(n))
                  /\ Frame.name = Levels[n] /\ Todo(n)' = Tail(Todo(n))
                  /\ \A k \in 1..5 : k # n => Todo(k)' = Todo(k)
              BY <1>0, <5>2, <6>1, SiblingTodo
            <6>3. CASE n = 3
              <7>1. Frame.name = "Group"
                BY <6>2, <6>3, LevelNames
              <7>2. Cur.name # A
                <8>1. CASE ReadText
                  BY <3>3, <6>1, <6>3, <8>1
                <8>2. CASE PassOver
                  BY <7>1, <8>2 DEF PassOver, Here, Reads
                <8> QED
                  BY <5>2, <8>1, <8>2
              <7>3. Todo(3) # <<>> /\ Cur = Head(Todo(3)) /\ Todo(3)' = Tail(Todo(3))
                BY <6>2, <6>3
              <7>4. left = <<>> \o left2
                BY <1>3, <7>2, <7>3, MatchingHead
              <7> QED
                BY <1>4, <7>4, ConcatEmptySeq
            <6>4. CASE n # 3
              BY <6>2, <6>4
            <6> QED
              BY <6>3, <6>4
          <5>3. CASE ~(Descend \/ ReadText \/ PassOver)
            <6>1. Todo(3)' = Todo(3)
              BY <1>0, <1>6, <5>3, Steps, StillTodo
            <6> QED
              BY <6>1
          <5> QED
            BY <5>1, <5>2, <5>3
        <4>2. Heard' = Heard
          BY <1>1, <3>1, <4>1 DEF Heard
        <4>3. CASE LeaveGroup
          <5>1. /\ cur_agency' = IF cur_agency = NoText THEN AGENCY_ERROR ELSE cur_agency
            BY <4>3 DEF LeaveGroup
          <5>2. Heard = <<>> => cur_agency' = AGENCY_ERROR
            BY <2>2, <5>1
          <5>3. Heard # <<>> => cur_agency' = cur_agency
            BY <2>2, <5>1
          <5> QED
            BY <2>2, <3>1, <4>1, <4>2, <5>2, <5>3 DEF AgencyHeard
        <4>4. CASE ~LeaveGroup
          <5>1. tpc' # "prefix"
            BY <4>4 DEF TNext, ParseDoc, Descend, ReadText, PassOver, RefuseRule,
                   AddRule, Ascend, AddPrefix, RefusePrefix, EndOfDocument, Walking, Leaving
          <5>2. cur_agency' = cur_agency
            <6>1. CASE ReadText
              <7>1. PICK n : n = Len(frames)
                OBVIOUS
              <7>2. n \in 1..5 /\ Frame.name = Levels[n]
                BY <1>0, <6>1, <7>1, SiblingTodo
              <7>3. <<Frame.name, Cur.name>> \in Reads
                BY <6>1 DEF ReadText, Here
              <7>4. Cur.name # A
                <8> SUFFICES ASSUME Cur.name = A PROVE FALSE
                  OBVIOUS
                <8>1. Frame.name = "Group"
                  BY <7>3 DEF Reads
                <8>2. n = 3
                  <9>1. \A m \in 1..5 : m \in {1, 2, 3, 4, 5}
                    OBVIOUS
                  <9> QED
                    BY <7>2, <8>1, <9>1, LevelNames
                <8> QED
                  BY <3>3, <6>1, <7>1, <8>2
              <7> QED
                BY <6>1, <7>4 DEF ReadText
            <6>2. CASE ~ReadText
              BY <1>6, <4>4, <6>2, Steps DEF Descend, Forget, PassOver, RefuseRule, AddRule,
                     Ascend, AddPrefix, RefusePrefix, EndOfDocument
            <6> QED
              BY <6>1, <6>2
          <5> QED
            BY <2>2, <3>1, <4>1, <4>2, <5>1, <5>2 DEF AgencyHeard
        <4> QED
          BY <4>3, <4>4
      <3> QED
        BY <3>2, <3>3
    <2> QED
      BY <2>4, <2>5
  <1> QED
    BY <1>5, <1>6, OnTheWay

-----------------------------------------------------------------------------
\* The rule that parseRule is called with is the document's next.
LEMMA IntoNextRule ==
    ASSUME TableIInv, Lists, GroupsInOrder, RulesInOrder, TNext, OnCourse,
           Descend, Len(frames) = 4
    PROVE  /\ Begun + 1 \in 1..Len(DocRules)
           /\ DocRules[Begun + 1] = Cur
           /\ Rest(DocRules, Begun + 1) = LeftRules'
  <1> DEFINE b == Begun
             left == LeftRules'
  <1>1. Nested
    BY DEF TableIInv
  <1>2. DocRules \in Seq(Elements) /\ b \in 0..Len(DocRules) /\ Rest(DocRules, b) = LeftRules
    BY DocTypes DEF Lists, RulesInOrder
  <1>3. LeftRules = <<Cur>> \o left
    BY <1>1, LeftRulesStep
  <1>4. Cur \in Elements
    BY <1>1, DescendTodo
  <1>5. Lists'
    BY ListsStep
  <1>6. /\ Todo(1)' \in Seq(Elements) /\ Todo(2)' \in Seq(Elements)
        /\ Todo(3)' \in Seq(Elements) /\ Todo(4)' \in Seq(Elements)
    BY <1>5 DEF Lists
  <1>7. LeftGroups' \in Seq(Elements)
    BY <1>6, LeftTypes DEF LeftGroups
  <1>8. left \in Seq(Elements)
    BY <1>6, <1>7, LeftTypes DEF LeftRules
  <1> HIDE DEF left, b
  <1>9. Rest(DocRules, b) = <<Cur>> \o left
    BY <1>2, <1>3
  <1>10. /\ b + 1 \in 1..Len(DocRules) /\ DocRules[b + 1] = Cur
         /\ Rest(DocRules, b + 1) = left
    BY <1>2, <1>4, <1>8, <1>9, RestNext, SMTT(30)
  <1> QED
    BY <1>10 DEF left, b

\* The depth of the walk, without what its lists are.
LEMMA SiblingLength ==
    ASSUME Nested, ReadText \/ PassOver
    PROVE  Len(frames') = Len(frames)
  <1>1. tpc = "walk" /\ frames' = NextSibling
    BY DEF ReadText, PassOver, Walking
  <1>2. Chain(frames, path) /\ Len(frames) > 0
    BY <1>1 DEF Nested
  <1> QED
    BY <1>1, <1>2, Sibling

\* The count of rules, with the one under way.
LEMMA BegunStep ==
    ASSUME TableIInv, Lists, TNext, OnCourse, OnCourse'
    PROVE  /\ Begun \in Nat
           /\ Begun' = IF Descend /\ Len(frames) = 4 THEN Begun + 1 ELSE Begun
  <1>1. Nested /\ TablesHold /\ rule_nr \in Nat
    BY LenProperties DEF TableIInv, TablesHold, Sequence, rule_nr
  <1>2. Begun \in Nat
    BY <1>1 DEF Begun
  <1>3. CASE Descend
    <2>1. PICK n : n = Len(frames)
      OBVIOUS
    <2>2. n \in 1..4 /\ Len(frames') = n + 1
      BY <1>1, <1>3, <2>1, DescendTodo
    <2>3. UNCHANGED rule_nr
      BY <1>3 DEF Descend, rules, rule_nr
    <2>4. CASE n = 4
      <3>1. Len(frames') = 5 /\ Len(frames) # 5
        BY <2>1, <2>2, <2>4
      <3> QED
        BY <1>1, <1>3, <2>1, <2>3, <2>4, <3>1 DEF Begun
    <2>5. CASE n \in 1..3
      <3>1. Len(frames') # 5 /\ n # 5 /\ n # 4
        BY <2>2, <2>5
      <3> QED
        BY <1>1, <2>1, <2>3, <3>1 DEF Begun
    <2> QED
      BY <2>2, <2>4, <2>5
  <1>4. CASE AddRule
    <2>1. Leaving({"Rule"}) /\ frames' = Pop(frames)
      BY <1>4 DEF AddRule, LeaveRule
    <2>2. Len(frames) = 5 /\ Chain(frames, path)
      BY <1>1, <2>1, LeavingDepth
    <2>3. Len(frames) > 0
      BY <2>2
    <2>4. Len(frames') = Len(frames) - 1
      BY <2>1, <2>2, <2>3, Popped
    <2>5. Len(frames') # 5
      BY <2>2, <2>4
    <2>6. rule_nr' = rule_nr + 1
      <3> PICK e : ranges' = Append(ranges, e)
        BY <1>4 DEF AddRule, StoreRule
      <3> QED
        BY <1>1, AppendSequence DEF TablesHold, rule_nr
    <2>7. ~Descend
      <3>1. Descend => Len(frames) \in 1..4
        BY <1>1, Descending
      <3> QED
        BY <2>2, <3>1
    <2> QED
      BY <1>1, <2>2, <2>5, <2>6, <2>7 DEF Begun
  <1>5. CASE ~Descend /\ ~AddRule
    <2>1. UNCHANGED rule_nr
      BY <1>5 DEF TNext, ParseDoc, ReadText, PassOver, RefuseRule, Ascend, LeaveGroup,
             AddPrefix, RefusePrefix, EndOfDocument, rules, rule_nr
    <2>2. Len(frames') = 5 <=> Len(frames) = 5
      <3>1. CASE ReadText \/ PassOver
        BY <1>1, <3>1, SiblingLength
      <3>2. CASE LeaveGroup
        BY <3>2 DEF LeaveGroup
      <3>3. CASE AddPrefix \/ RefusePrefix
        <4>1. /\ tpc = "prefix" /\ frames' = Pop(frames)
          BY <3>3 DEF AddPrefix, RefusePrefix
        <4>2. Len(frames) = 3 /\ Chain(frames, path) /\ Len(frames) > 0
          BY <1>1, <4>1 DEF Nested
        <4>3. Len(frames') = Len(frames) - 1
          BY <4>1, <4>2, Popped
        <4> QED
          BY <4>2, <4>3
      <3>4. CASE Ascend \/ EndOfDocument
        <4>1. /\ frames' = Pop(frames)
              /\ Leaving({"Rules", "RegistrationGroups"}) \/ Leaving({ROOT})
          BY <3>4 DEF Ascend, EndOfDocument
        <4>2. Len(frames) \in {1, 2, 4} /\ Chain(frames, path)
          BY <1>1, <4>1, LeavingDepth
        <4>3. Len(frames) > 0
          BY <4>2
        <4>4. Len(frames') = Len(frames) - 1
          BY <4>1, <4>2, <4>3, Popped
        <4>5. \A m \in {1, 2, 4} : m # 5 /\ m - 1 # 5
          OBVIOUS
        <4> QED
          BY <4>2, <4>4, <4>5
      <3>5. ~RefuseRule
        BY DEF RefuseRule, OnCourse
      <3> QED
        BY <1>5, <3>1, <3>2, <3>3, <3>4, <3>5, Steps
    <2>3. (IF Len(frames') = 5 THEN 1 ELSE 0) = (IF Len(frames) = 5 THEN 1 ELSE 0)
      BY <2>2
    <2>4. Begun' = Begun
      BY <2>1, <2>3 DEF Begun
    <2>5. ~(Descend /\ Len(frames) = 4)
      BY <1>5
    <2> QED
      BY <1>2, <2>4, <2>5
  <1> QED
    BY <1>2, <1>3, <1>4, <1>5

\* What comes before is of the same elements.
LEMMA BeforeType ==
    ASSUME NEW S, NEW all \in Seq(S), NEW left \in Seq(S)
    PROVE  Before(all, left) \in Seq(S)
  <1>1. Len(all) \in Nat /\ Len(left) \in Nat
    OBVIOUS
  <1>2. /\ Len(all) - Len(left) \in Int
        /\ \A m \in 1..Len(all) - Len(left) : m \in 1..Len(all)
    BY <1>1
  <1>3. \A m \in 1..Len(all) - Len(left) : all[m] \in S
    BY <1>2
  <1> QED
    BY <1>2, <1>3, SubSeqProperties DEF Before

\* What was read, with one more element of the list if it has the name.
More(read, e, name) == IF e.name = name THEN read \o <<e>> ELSE read

\* What is left of a list is not in what was read of it; its next element is, if
\* it has the name.
LEMMA ReadOn ==
    \A s, read \in Seq(Elements) : \A name : s # <<>> =>
        LET more == More(read, Head(s), name)
        IN  /\ more \in Seq(Elements)
            /\ read \o Matching(s, name) = more \o Matching(Tail(s), name)
            /\ Before(more \o Matching(Tail(s), name), Matching(Tail(s), name)) = more
  <1> SUFFICES ASSUME NEW s \in Seq(Elements), s # <<>>,
                      NEW read \in Seq(Elements), NEW name,
                      NEW more, more = More(read, Head(s), name),
                      NEW all, all = read \o Matching(s, name)
               PROVE  /\ more \in Seq(Elements)
                      /\ all = more \o Matching(Tail(s), name)
                      /\ Before(more \o Matching(Tail(s), name), Matching(Tail(s), name)) = more
    OBVIOUS
  <1> DEFINE c == Head(s)
             left == Matching(Tail(s), name)
  <1>1. c \in Elements /\ <<c>> \in Seq(Elements) /\ Tail(s) \in Seq(Elements)
    BY HeadAndTail
  <1>2. left \in Seq(Elements)
    BY <1>1, MatchingType, OfElements
  <1>3. Matching(s, name) = (IF c.name = name THEN <<c>> ELSE <<>>) \o left
    BY MatchingHead
  <1>4. more \in Seq(Elements) /\ all = more \o left
    <2>1. CASE c.name = name
      <3>1. more = read \o <<c>> /\ all = read \o (<<c>> \o left)
        BY <1>3, <2>1 DEF More
      <3> HIDE DEF c, left
      <3>2. (read \o <<c>>) \o left = read \o (<<c>> \o left)
        BY <1>1, <1>2, Grouping, SMTT(30)
      <3>3. read \o <<c>> \in Seq(Elements)
        BY <1>1
      <3> QED
        BY <3>1, <3>2, <3>3
    <2>2. CASE c.name # name
      <3>1. more = read /\ all = read \o (<<>> \o left)
        BY <1>3, <2>2 DEF More
      <3> HIDE DEF c, left
      <3>2. <<>> \o left = left
        BY <1>2, ConcatEmptySeq
      <3> QED
        BY <3>1, <3>2
    <2> QED
      BY <2>1, <2>2
  <1> HIDE DEF left
  <1>5. Before(more \o left, left) = more
    BY <1>2, <1>4, BeforeLeft
  <1> QED
    BY <1>4, <1>5 DEF left

\* The last text is that of the element read last.
LEMMA LastTextOn ==
    ASSUME NEW read \in Seq(Elements), NEW e \in Elements
    PROVE  LastText(read \o <<e>>) = e.text
  <1>1. Len(read \o <<e>>) = Len(read) + 1 /\ (read \o <<e>>)[Len(read) + 1] = e
        /\ Len(read) \in Nat
    OBVIOUS
  <1>2. read \o <<e>> # <<>>
    BY <1>1
  <1> QED
    BY <1>1, <1>2 DEF LastText, Last

\* The rule under way is the document's, and so are its children.
LEMMA RuleUnderWay ==
    ASSUME TableIInv, Lists, RulesInOrder, OnCourse, Len(frames) = 5
    PROVE  /\ rule_nr + 1 \in 1..Len(DocRules) /\ Begun = rule_nr + 1
           /\ DocRules[Begun] \in Elements
           /\ \A name : /\ InRule(name) \in Seq(Elements)
                        /\ ReadOf(name) \in Seq(Elements)
                        /\ Matching(Todo(5), name) \in Seq(Elements)
  <1>1. /\ doc.root \in Elements /\ Begun \in 0..Len(DocRules) /\ Todo(5) \in Seq(Elements)
    BY DEF Lists, RulesInOrder
  <1>2. rule_nr \in Nat /\ Begun = rule_nr + 1
    BY LenProperties DEF TableIInv, TablesHold, Sequence, rule_nr, Begun
  <1>3. DocRules \in Seq(Elements)
    BY <1>1, DocTypes
  <1>4. Begun \in 1..Len(DocRules)
    BY <1>1, <1>2
  <1>5. DocRules[Begun] \in Elements
    BY <1>3, <1>4
  <1>6. ASSUME NEW name
        PROVE  /\ InRule(name) \in Seq(Elements)
               /\ Matching(Todo(5), name) \in Seq(Elements)
    <2>1. DocRules[Begun].children \in Seq(Elements)
      BY <1>5, Children
    <2> QED
      BY <1>1, <2>1, MatchingType, OfElements DEF InRule
  <1>7. ASSUME NEW name
        PROVE  ReadOf(name) \in Seq(Elements)
    BY <1>6, BeforeType DEF ReadOf
  <1> QED
    BY <1>2, <1>4, <1>5, <1>6, <1>7

\* The texts of a rule as parseRule goes through its children.
Texts(name, text) ==
    InRule(name) = ReadOf(name) \o Matching(Todo(5), name) /\ text = LastText(ReadOf(name))

\* A walk that is in a rule, and was not called just now, goes through it.
LEMMA StillInRule ==
    ASSUME Nested, TNext, OnCourse, OnCourse', Len(frames') = 5,
           ~(Descend /\ Len(frames) = 4)
    PROVE  Len(frames) = 5 /\ (ReadText \/ PassOver)
  <1>1. CASE Descend
    <2>1. PICK n : n = Len(frames)
      OBVIOUS
    <2>2. n \in 1..4 /\ Chain(frames, path) /\ n > 0
          /\ frames' = Append(NextSibling, [name |-> Cur.name, todo |-> Cur.children])
      BY <1>1, <2>1, Descending DEF Nested
    <2>3. Chain(NextSibling, path) /\ Len(NextSibling) = n
      BY <2>1, <2>2, Sibling
    <2>4. Sequence(NextSibling)
      BY <2>3 DEF Chain, Sequence, Range
    <2>5. Len(frames') = n + 1
      BY <2>2, <2>3, <2>4, AppendSequence
    <2>6. n # 4
      BY <1>1, <2>1
    <2> QED
      BY <2>2, <2>5, <2>6
  <1>2. CASE ReadText \/ PassOver
    BY <1>2, SiblingLength
  <1>3. CASE LeaveGroup
    <2>1. Len(frames) = 3 /\ frames' = frames
      BY <1>3, LeavingDepth DEF LeaveGroup
    <2> QED
      BY <2>1
  <1>4. CASE AddRule \/ RefuseRule \/ Ascend \/ EndOfDocument \/ AddPrefix \/ RefusePrefix
    <2>1. /\ frames' = Pop(frames) /\ tpc \in {"walk", "prefix"}
      BY <1>4 DEF AddRule, RefuseRule, LeaveRule, Ascend, EndOfDocument, AddPrefix,
             RefusePrefix, Leaving
    <2>2. Chain(frames, path) /\ Len(frames) > 0 /\ Len(frames) \in 0..5
      BY <2>1 DEF Nested, Chain
    <2>3. Len(frames') = Len(frames) - 1
      BY <2>1, <2>2, Popped
    <2>4. \A m \in 0..5 : m - 1 # 5
      OBVIOUS
    <2>5. Len(frames') # 5
      BY <2>2, <2>3, <2>4
    <2> QED
      BY <2>5
  <1> QED
    BY <1>1, <1>2, <1>3, <1>4, Steps

\* The rules come in their order, and key goes with the children of the one at
\* hand.
LEMMA RulesStep ==
    ASSUME TableIInv, Lists, KeyHolds, GroupsInOrder, RulesInOrder, TNext
    PROVE  RulesInOrder'
  <1> SUFFICES ASSUME OnCourse'
               PROVE  /\ Begun' \in 0..Len(DocRules') /\ Rest(DocRules', Begun') = LeftRules'
                      /\ Len(frames') = 5 =>
                           /\ Texts("Range", key.range)'
                           /\ Texts("Length", key.length)'
    BY DEF RulesInOrder, Texts
  <1>1. Nested /\ DocRules' = DocRules /\ doc' = doc
    BY DEF TableIInv, DocRules, DocGroups, TNext, ParseDoc, Descend, ReadText, PassOver,
           RefuseRule, AddRule, Ascend, LeaveGroup, AddPrefix, RefusePrefix, EndOfDocument
  <1>2. CASE ParseDoc /\ tpc' = "walk"
    <2>1. /\ doc.root \in Elements /\ ranges' = ranges /\ rule_nr = 0
          /\ LeftRules' = DocRules /\ Len(frames') = 1
      BY <1>2, ParseStart
    <2>2. DocRules \in Seq(Elements) /\ Rest(DocRules, 0) = DocRules
      BY <2>1, DocTypes, RestAll
    <2>3. Len(frames') # 5
      BY <2>1
    <2>4. Begun' = 0
      BY <2>1, <2>3 DEF Begun, rule_nr
    <2>5. 0 \in 0..Len(DocRules)
      BY <2>2
    <2> QED
      BY <1>1, <2>1, <2>2, <2>3, <2>4, <2>5
  <1>3. CASE OnCourse
    <2>1. /\ Begun \in 0..Len(DocRules) /\ Rest(DocRules, Begun) = LeftRules
          /\ Begun \in Nat
      BY <1>3, BegunStep DEF RulesInOrder
    <2>2. CASE Descend /\ Len(frames) = 4
      <3>1. Begun' = Begun + 1
        BY <1>3, <2>2, BegunStep
      <3>2. /\ Begun + 1 \in 1..Len(DocRules) /\ DocRules[Begun + 1] = Cur
            /\ Rest(DocRules, Begun + 1) = LeftRules'
        BY <1>3, <2>2, IntoNextRule
      <3>3. Begun + 1 \in 0..Len(DocRules)
        BY <2>1, <3>2
      <3>4. Todo(5)' = Cur.children /\ Cur \in Elements
        <4>1. 4 = Len(frames)
          BY <2>2
        <4> QED
          BY <1>1, <2>2, <4>1, DescendTodo
      <3>5. key' = [range |-> NoText, length |-> NoText]
        BY <2>2 DEF Descend
      <3>6. \A name : InRule(name)' = Matching(Todo(5)', name)
        BY <1>1, <3>1, <3>2, <3>4 DEF InRule
      <3>7. ASSUME NEW name, NEW text, text = NoText
            PROVE  /\ InRule(name)' = ReadOf(name)' \o Matching(Todo(5)', name)
                   /\ text = LastText(ReadOf(name)')
        <4> DEFINE x == Matching(Todo(5)', name)
        <4>1. x \in Seq(Elements)
          BY <3>4, Children, MatchingType, OfElements
        <4> HIDE DEF x
        <4>2. <<>> \o x = x /\ <<>> \in Seq(Elements)
          BY <4>1, ConcatEmptySeq
        <4>3. Before(<<>> \o x, x) = <<>>
          BY <4>1, <4>2, BeforeLeft
        <4>4. ReadOf(name)' = Before(InRule(name)', x)
          BY DEF ReadOf, x
        <4>5. InRule(name)' = x
          BY <3>6 DEF x
        <4>6. ReadOf(name)' = <<>>
          BY <4>2, <4>3, <4>4, <4>5
        <4> QED
          BY <3>7, <4>2, <4>5, <4>6 DEF LastText, x
      <3>8. key'.range = NoText /\ key'.length = NoText
        BY <3>5
      <3>9. Texts("Range", key.range)' /\ Texts("Length", key.length)'
        BY <3>7, <3>8 DEF Texts
      <3> QED
        BY <1>1, <3>1, <3>2, <3>3, <3>9
    <2>3. CASE ~(Descend /\ Len(frames) = 4)
      <3>1. Begun' = Begun /\ LeftRules' = LeftRules
        BY <1>1, <1>3, <2>3, BegunStep, LeftRulesStep
      <3>2. ASSUME Len(frames') = 5
            PROVE  Texts("Range", key.range)' /\ Texts("Length", key.length)'
        <4>1. Len(frames) = 5 /\ (ReadText \/ PassOver)
          BY <1>1, <1>3, <2>3, <3>2, StillInRule
        <4>2. /\ DocRules[Begun] \in Elements
              /\ \A name : /\ InRule(name) \in Seq(Elements)
                           /\ ReadOf(name) \in Seq(Elements)
          BY <1>3, <4>1, RuleUnderWay
        <4>3. /\ Todo(5) # <<>> /\ Cur = Head(Todo(5)) /\ Cur \in Elements
              /\ Todo(5)' = Tail(Todo(5)) /\ Todo(5) \in Seq(Elements)
              /\ Frame.name = Levels[5]
          <5>1. 5 = Len(frames)
            BY <4>1
          <5> QED
            BY <1>1, <4>1, <5>1, SiblingTodo DEF Lists
        <4>4. \A name : InRule(name)' = InRule(name)
          BY <1>1, <3>1 DEF InRule
        <4>5. /\ Texts("Range", key.range) /\ Texts("Length", key.length)
          BY <1>3, <4>1 DEF RulesInOrder, Texts
        <4>6. ASSUME NEW name, NEW text, NEW next,
                     Texts(name, text),
                     next = IF Cur.name = name THEN Cur.text ELSE text
              PROVE  /\ InRule(name)' = ReadOf(name)' \o Matching(Todo(5)', name)
                     /\ next = LastText(ReadOf(name)')
          <5> DEFINE read == ReadOf(name)
                     more == More(read, Cur, name)
          <5>1. InRule(name) = read \o Matching(Todo(5), name) /\ text = LastText(read)
            BY <4>6 DEF Texts
          <5>2. /\ InRule(name) = more \o Matching(Todo(5)', name)
                /\ Before(InRule(name), Matching(Todo(5)', name)) = more
            <6>1. Todo(5) \in Seq(Elements) /\ Todo(5) # <<>> /\ read \in Seq(Elements)
              BY <4>2, <4>3
            <6>2. LET m == More(read, Head(Todo(5)), name)
                  IN  /\ read \o Matching(Todo(5), name) = m \o Matching(Tail(Todo(5)), name)
                      /\ Before(m \o Matching(Tail(Todo(5)), name), Matching(Tail(Todo(5)), name))
                             = m
              BY <6>1, ReadOn, Zenon
            <6> HIDE DEF read
            <6> QED
              BY <4>3, <5>1, <6>2
          <5>3. ReadOf(name)' = more
            BY <4>4, <5>2 DEF ReadOf
          <5>4. next = LastText(more)
            <6>1. CASE Cur.name = name
              <7>1. more = ReadOf(name) \o <<Cur>>
                BY <6>1 DEF More
              <7> QED
                BY <4>2, <4>3, <4>6, <6>1, <7>1, LastTextOn
            <6>2. CASE Cur.name # name
              BY <4>6, <5>1, <6>2 DEF More
            <6> QED
              BY <6>1, <6>2
          <5> QED
            BY <4>3, <4>4, <5>2, <5>3, <5>4
        <4>7. /\ key'.range = IF Cur.name = "Range" THEN Cur.text ELSE key.range
              /\ key'.length = IF Cur.name = "Length" THEN Cur.text ELSE key.length
          <5>1. Frame.name = "Rule"
            BY <4>3, LevelNames
          <5>2. key = [range |-> key.range, length |-> key.length]
            BY DEF KeyHolds
          <5>3. CASE ReadText
            BY <5>1, <5>2, <5>3 DEF ReadText
          <5>4. CASE PassOver
            <6>1. Cur.name # "Range" /\ Cur.name # "Length" /\ key' = key
              BY <5>1, <5>4 DEF PassOver, Here, Reads
            <6> QED
              BY <6>1
          <5> QED
            BY <4>1, <5>3, <5>4
        <4> QED
          BY <4>5, <4>6, <4>7 DEF Texts
      <3> QED
        BY <1>1, <2>1, <3>1, <3>2
    <2> QED
      BY <2>2, <2>3
  <1> QED
    BY <1>2, <1>3, OnTheWay

-----------------------------------------------------------------------------
\* The agencies of the groups so far are elements.
LEMMA AgenciesType ==
    ASSUME TableIInv, Lists, GroupsInOrder, OnCourse
    PROVE  Agencies \in Seq(Elements)
  <1>1. doc.root \in Elements /\ source.group \in 0..Len(DocGroups)
    BY DEF Lists, GroupsInOrder
  <1>2. DocGroups \in Seq(Elements)
    BY <1>1, DocTypes
  <1>3. SubSeq(DocGroups, 1, source.group) \in Seq(Elements)
    BY <1>1, <1>2
  <1> QED
    BY <1>3, NamedType, OfElements DEF Agencies

\* key is a record of two texts throughout.
LEMMA KeyStep ==
    ASSUME KeyHolds, TNext
    PROVE  KeyHolds'
  <1>1. CASE ReadText
    <2>1. \/ key' = [key EXCEPT !.range = Cur.text]
          \/ key' = [key EXCEPT !.length = Cur.text]
          \/ key' = key
      BY <1>1 DEF ReadText
    <2> QED
      BY <2>1 DEF KeyHolds
  <1>2. CASE Descend
    BY <1>2 DEF Descend, KeyHolds
  <1>3. CASE ~ReadText /\ ~Descend
    <2>1. key' = key
      BY <1>3 DEF TNext, ParseDoc, PassOver, RefuseRule, AddRule, Ascend, LeaveGroup,
             AddPrefix, RefusePrefix, EndOfDocument
    <2> QED
      BY <2>1 DEF KeyHolds
  <1> QED
    BY <1>1, <1>2, <1>3

\* An entry is given the last agency that was heard.
LEMMA EntryStep ==
    ASSUME TableIInv, Lists, GroupsInOrder, AgencyHeard, AgencyOfGroup, TNext
    PROVE  AgencyOfGroup'
  <1> DEFINE n == prefix_nr
             own == source.prefixes
             Said(k) == Named(SubSeq(DocGroups, 1, k), "Agency")
             AgencyAt(k) == IF Said(k) = <<>> THEN AGENCY_ERROR ELSE Last(Said(k)).text
  <1>1. /\ TablesHold /\ n \in Nat /\ own \in Seq(Nat) /\ Len(own) = n
        /\ source \in [group : Nat, ranges : Seq(Nat), prefixes : Seq(Nat)]
    BY LenProperties DEF TableIInv, Counts, TablesHold, Sequence, prefix_nr
  <1>2. DocGroups' = DocGroups
    BY DEF DocGroups, TNext, ParseDoc, Descend, ReadText, PassOver, RefuseRule, AddRule,
           Ascend, LeaveGroup, AddPrefix, RefusePrefix, EndOfDocument
  <1>3. \A k \in 1..n : prefixes[k].agency = AgencyAt(own[k])
    BY DEF AgencyOfGroup
  <1>4. SUFFICES \A k \in 1..prefix_nr' : prefixes'[k].agency = AgencyAt(source'.prefixes[k])
    BY <1>2 DEF AgencyOfGroup
  <1>5. CASE AddPrefix
    <2> DEFINE g == source.group
               new == Append(own, g)
               e == NewEntry
               es == Append(prefixes, e)
    <2>1. /\ tpc = "prefix" /\ prefixes' = es
          /\ source' = [source EXCEPT !.prefixes = Append(@, source.group)]
      BY <1>5 DEF AddPrefix
    <2>2. source'.prefixes = new
      BY <1>1, <2>1
    <2>3. /\ Len(new) = n + 1 /\ new[n + 1] = g /\ \A k \in 1..n : new[k] = own[k]
      BY <1>1
    <2>4. /\ Len(es) = n + 1 /\ es[n + 1] = e /\ \A k \in 1..n : es[k] = prefixes[k]
      BY <1>1, AppendSequence DEF TablesHold, prefix_nr
    <2>5. e.agency = cur_agency
      BY DEF NewEntry
    <2>6. cur_agency = AgencyAt(g)
      <3>1. Todo(3) = <<>> /\ OnCourse
        BY <2>1 DEF Lists, OnCourse
      <3>2. /\ Agencies = Heard \o Matching(Todo(3), "Agency")
            /\ IF Heard = <<>> THEN cur_agency = AGENCY_ERROR
               ELSE cur_agency = Last(Heard).text
        BY <2>1, <3>1 DEF AgencyHeard
      <3>3. Heard = Agencies
        <4>1. Agencies \in Seq(Elements)
          BY <3>1, AgenciesType
        <4>2. Matching(Todo(3), "Agency") = <<>> /\ <<>> \in Seq(Elements)
          BY <3>1, MatchingNone
        <4>3. Agencies \o <<>> = Agencies
          BY <4>1, ConcatEmptySeq
        <4>4. Before(Agencies \o <<>>, <<>>) = Agencies
          BY <4>1, <4>2, BeforeLeft
        <4> QED
          BY <4>2, <4>3, <4>4 DEF Heard
      <3> QED
        BY <3>2, <3>3 DEF Agencies
    <2> HIDE DEF new, es, e, g, n, own, AgencyAt
    <2>7. \A k \in 1..n + 1 : k \in 1..n \/ k = n + 1
      BY <1>1 DEF n
    <2>8. prefix_nr' = n + 1
      BY <2>1, <2>4 DEF prefix_nr, n
    <2> QED
      BY <1>3, <2>1, <2>2, <2>3, <2>4, <2>5, <2>6, <2>7, <2>8
  <1>6. CASE ~AddPrefix
    <2>1. /\ prefixes' = prefixes
          /\ \/ UNCHANGED source
             \/ source' = [source EXCEPT !.ranges = Append(@, source.group)]
             \/ source' = [source EXCEPT !.group = @ + IF Cur.name = "Group" THEN 1 ELSE 0]
      BY <1>6 DEF TNext, ParseDoc, Descend, ReadText, PassOver, RefuseRule, AddRule, StoreRule,
             Ascend, LeaveGroup, RefusePrefix, EndOfDocument, entries
    <2>2. source'.prefixes = own
      BY <1>1, <2>1
    <2> QED
      BY <1>3, <2>1, <2>2 DEF prefix_nr
  <1> QED
    BY <1>5, <1>6

\* The bounds and the length that are stored are those of the texts read last.
LEMMA RangesStep ==
    ASSUME TableIInv, Lists, RulesInOrder, RangesRead, TNext
    PROVE  RangesRead'
  <1> DEFINE R == rule_nr
  <1>1. /\ Nested /\ TablesHold /\ R \in Nat
    BY LenProperties DEF TableIInv, TablesHold, Sequence, rule_nr
  <1>2. DocRules' = DocRules
    BY DEF DocRules, DocGroups, TNext, ParseDoc, Descend, ReadText, PassOver, RefuseRule, AddRule,
           Ascend, LeaveGroup, AddPrefix, RefusePrefix, EndOfDocument
  <1>3. \A k \in 1..R : /\ k \in 1..Len(DocRules) /\ DocRules[k] \in Elements
                        /\ ranges[k] = RangeOf(DocRules[k])
                        /\ LastText(Named(<<DocRules[k]>>, "Range")) # NoText
    BY DEF RangesRead
  <1>4. SUFFICES /\ \A k \in 1..rule_nr' :
                       /\ k \in 1..Len(DocRules) /\ DocRules[k] \in Elements
                       /\ ranges'[k] = RangeOf(DocRules[k])
                       /\ LastText(Named(<<DocRules[k]>>, "Range")) # NoText
                 /\ tpc' = "done" /\ doc_err' # 2 => rule_nr' = Len(DocRules)
    BY <1>2 DEF RangesRead
  <1>5. CASE AddRule
    <2> DEFINE e == [rng_len |-> Strtoul(key.length),
                     rng_lbound |-> StrtoullCut(LoStr(key.range)),
                     rng_ubound |-> StrtoullCut(HiStr(key.range))]
               es == Append(ranges, e)
               rule == DocRules[R + 1]
    <2>1. /\ tpc = "walk" /\ tpc' = "walk" /\ ranges' = es
          /\ Leaving({"Rule"}) /\ Accepted
      BY <1>5 DEF AddRule, StoreRule, Leaving
    <2>2. Len(frames) = 5 /\ OnCourse /\ Todo(5) = <<>>
      <3>1. Len(frames) = 5 /\ Chain(frames, path)
        BY <1>1, <2>1, LeavingDepth
      <3>2. Len(frames) > 0 /\ Len(frames) >= 5
        BY <3>1
      <3>3. frames[5].todo = <<>>
        BY <2>1, <3>1, <3>2, Depth DEF Leaving
      <3> QED
        BY <2>1, <3>1, <3>2, <3>3 DEF Todo, OnCourse
    <2>3. /\ R + 1 \in 1..Len(DocRules) /\ Begun = R + 1
          /\ rule \in Elements
          /\ \A name : InRule(name) \in Seq(Elements)
      BY <2>2, RuleUnderWay
    <2>4. ASSUME NEW name
          PROVE  /\ ReadOf(name) = Named(<<rule>>, name)
                 /\ LastText(ReadOf(name)) # NoText => LastText(ReadOf(name)) = TextOf(rule, name)
      <3>1. InRule(name) = Named(<<rule>>, name)
        BY <2>3, NamedOne DEF InRule
      <3>2. Matching(Todo(5), name) = <<>> /\ <<>> \in Seq(Elements)
        BY <2>2, MatchingNone
      <3>3. Before(InRule(name) \o <<>>, <<>>) = InRule(name) /\ InRule(name) \o <<>> = InRule(name)
        <4>1. InRule(name) \in Seq(Elements)
          BY <2>3
        <4> QED
          BY <3>2, <4>1, BeforeLeft, ConcatEmptySeq
      <3>4. ReadOf(name) = InRule(name)
        BY <3>2, <3>3 DEF ReadOf
      <3> QED
        BY <3>1, <3>4 DEF LastText, TextOf
    <2>5. /\ key.range = LastText(ReadOf("Range")) /\ key.length = LastText(ReadOf("Length"))
      BY <2>2 DEF RulesInOrder
    <2>6. key.range # NoText /\ key.length # NoText
      BY <2>1 DEF Accepted
    <2>7. /\ key.range = TextOf(rule, "Range") /\ key.length = TextOf(rule, "Length")
          /\ LastText(Named(<<rule>>, "Range")) # NoText
      BY <2>4, <2>5, <2>6
    <2>8. e = RangeOf(rule)
      BY <2>7 DEF RangeOf
    <2>9. /\ Len(es) = R + 1 /\ es[R + 1] = e /\ \A k \in 1..R : es[k] = ranges[k]
      BY <1>1, AppendSequence DEF TablesHold, rule_nr
    <2> HIDE DEF e, es, R
    <2>10. rule_nr' = R + 1
      BY <2>1, <2>9 DEF rule_nr
    <2>11. \A k \in 1..R + 1 : k \in 1..R \/ k = R + 1
      BY <1>1
    <2> QED
      BY <1>3, <2>1, <2>3, <2>7, <2>8, <2>9, <2>10, <2>11
  <1>6. CASE ~AddRule
    <2>1. ranges' = ranges
      BY <1>6 DEF TNext, ParseDoc, Descend, ReadText, PassOver, RefuseRule, Ascend, LeaveGroup,
             AddPrefix, RefusePrefix, EndOfDocument, rules
    <2>2. ASSUME tpc' = "done", doc_err' # 2
          PROVE  R = Len(DocRules)
      <3>1. EndOfDocument
        BY <1>6, <2>2 DEF TNext, ParseDoc, Descend, ReadText, PassOver, RefuseRule, Ascend,
               LeaveGroup, AddPrefix, RefusePrefix, EndOfDocument, Walking, Leaving
      <3>2. Len(frames) = 1 /\ Chain(frames, path) /\ tpc = "walk" /\ Frame.todo = <<>>
        <4>1. Leaving({ROOT})
          BY <3>1 DEF EndOfDocument
        <4> QED
          BY <1>1, <4>1, LeavingDepth DEF Leaving
      <3>3. \A k \in 1..4 : Todo(k) = <<>>
        <4>1. frames[1].todo = <<>>
          <5>1. Len(frames) > 0
            BY <3>2
          <5> QED
            BY <3>2, <5>1, Depth
        <4>2. \A k \in 1..4 : k = 1 \/ ~(1 >= k)
          OBVIOUS
        <4> QED
          BY <3>2, <4>1, <4>2 DEF Todo
      <3>4. LeftRules = <<>>
        <4>1. LeftGroups = <<>>
          BY <3>3, MatchingNone, NamedNone, ConcatEmptySeq DEF LeftGroups, GroupsIn
        <4>2. LeftRules = <<>> \o (<<>> \o <<>>)
          BY <3>3, <4>1, MatchingNone, NamedNone DEF LeftRules, RulesIn
        <4> QED
          BY <4>2
      <3>5. /\ doc.root \in Elements /\ Begun \in 0..Len(DocRules)
            /\ Rest(DocRules, Begun) = <<>>
        BY <3>2, <3>4 DEF Lists, RulesInOrder, OnCourse
      <3>6. DocRules \in Seq(Elements)
        BY <3>5, DocTypes
      <3>7. Begun = Len(DocRules)
        BY <3>5, <3>6, RestNone
      <3>8. Begun = R
        BY <1>1, <3>2 DEF Begun
      <3> QED
        BY <3>7, <3>8
    <2> QED
      BY <1>3, <2>1, <2>2 DEF rule_nr
  <1> QED
    BY <1>5, <1>6

\* At the start nothing is left to look at, and nothing was read.
LEMMA InitWalk ==
    ASSUME TInit
    PROVE  WalkIInv
  <1>1. /\ frames = <<>> /\ Len(frames) = 0 /\ tpc = "doc" /\ doc \in Docs
        /\ source = [group |-> 0, ranges |-> <<>>, prefixes |-> <<>>]
        /\ key = [range |-> NoText, length |-> NoText]
        /\ cur_agency = NoText /\ rule_nr = 0 /\ prefix_nr = 0
    BY DEF TInit, rule_nr, prefix_nr
  <1>2. Lists
    <2>1. \A n \in 1..5 : Todo(n) = <<>>
      <3>1. \A n \in 1..5 : ~(0 >= n)
        OBVIOUS
      <3> QED
        BY <1>1, <3>1 DEF Todo
    <2>2. <<>> \in Seq(Elements)
      OBVIOUS
    <2> QED
      BY <1>1, <2>1, <2>2 DEF Lists, OnCourse
  <1>3. KeyHolds
    BY <1>1 DEF KeyHolds
  <1>4. GroupsInOrder /\ AgencyHeard /\ RulesInOrder
    BY <1>1 DEF GroupsInOrder, AgencyHeard, RulesInOrder, OnCourse
  <1>5. AgencyOfGroup /\ RangesRead
    BY <1>1 DEF AgencyOfGroup, RangesRead
  <1> QED
    BY <1>2, <1>3, <1>4, <1>5 DEF WalkIInv

\* Every step keeps the invariant of the walk.
LEMMA NextWalk ==
    ASSUME TableIInv, WalkIInv, [TNext]_tvars
    PROVE  WalkIInv'
  <1>1. CASE TNext
    BY <1>1, ListsStep, KeyStep, GroupsStep, AgencyStep, RulesStep, EntryStep, RangesStep
       DEF WalkIInv
  <1>2. CASE UNCHANGED tvars
    BY <1>2 DEF tvars, WalkIInv, Lists, KeyHolds, GroupsInOrder, AgencyHeard, RulesInOrder,
           AgencyOfGroup, RangesRead, OnCourse, Todo, Rest, LeftGroups, LeftRules, Begun,
           Agencies, Heard, Before, InRule, ReadOf, rule_nr, prefix_nr, DocGroups, DocRules
  <1> QED
    BY <1>1, <1>2

\* The walk goes through the document in its order.
THEOREM WalkInvariance == TSpec => []WalkIInv
  BY TableInvariance, InitWalk, NextWalk, PTL DEF TSpec

\* An entry has the agency that applies to its group, as the document has it.
THEOREM EntriesHaveAgency == TSpec => []AgencyOfGroup
  <1>1. WalkIInv => AgencyOfGroup
    BY DEF WalkIInv
  <1> QED
    BY <1>1, WalkInvariance, PTL

-----------------------------------------------------------------------------
\* A number made of digits as the recursive functions do it, from 0 on.
Counting(f, step, m) ==
    /\ f \in [0..m -> Int]
    /\ f[0] = 0
    /\ \A i \in 1..m : f[i] = step[i][f[i - 1]]

\* There is such a function for every way to go on.
LEMMA CountingExists ==
    \A m \in Nat : \A step : (\A i \in 1..m : step[i] \in [Int -> Int]) =>
        \E f : Counting(f, step, m)
  <1> DEFINE S == {n \in Nat : \A step : (\A i \in 1..n : step[i] \in [Int -> Int]) =>
                        \E f : Counting(f, step, n)}
  <1>1. 0 \in S
    <2>1. ASSUME NEW step PROVE \E f : Counting(f, step, 0)
      <3> DEFINE f == [i \in 0..0 |-> 0]
      <3>1. f \in [0..0 -> Int] /\ f[0] = 0 /\ \A i \in 1..0 : FALSE
        OBVIOUS
      <3> HIDE DEF f
      <3> QED
        BY <3>1 DEF Counting
    <2> QED
      BY <2>1
  <1>2. ASSUME NEW n \in S PROVE n + 1 \in S
    <2>1. ASSUME NEW step, \A i \in 1..n + 1 : step[i] \in [Int -> Int]
          PROVE  \E f : Counting(f, step, n + 1)
      <3>1. n \in Nat /\ \A i \in 1..n : i \in 1..n + 1
        OBVIOUS
      <3>2. PICK f : Counting(f, step, n)
        <4>1. \A i \in 1..n : step[i] \in [Int -> Int]
          BY <2>1, <3>1
        <4> QED
          BY <4>1
      <3> DEFINE c == step[n + 1][f[n]]
                 g == [i \in 0..n + 1 |-> IF i = n + 1 THEN c ELSE f[i]]
      <3>3. f \in [0..n -> Int] /\ f[0] = 0 /\ c \in Int
        <4>1. n + 1 \in 1..n + 1 /\ n \in 0..n
          BY <3>1
        <4> QED
          BY <2>1, <3>2, <4>1 DEF Counting
      <3>4. g \in [0..n + 1 -> Int]
        <4> HIDE DEF c
        <4>1. ASSUME NEW i \in 0..n + 1, i # n + 1 PROVE i \in 0..n
          BY <3>1, <4>1
        <4> QED
          BY <3>3, <4>1
      <3>5. /\ g[n + 1] = c /\ \A i \in 0..n : g[i] = f[i]
        <4> HIDE DEF c
        <4>1. n + 1 \in 0..n + 1 /\ \A i \in 0..n : i \in 0..n + 1 /\ i # n + 1
          BY <3>1
        <4> QED
          BY <4>1
      <3>6. ASSUME NEW i \in 1..n + 1
            PROVE  g[i] = step[i][g[i - 1]]
        <4>1. CASE i = n + 1
          <5>1. i - 1 = n /\ n \in 0..n
            BY <3>1, <4>1
          <5> HIDE DEF g
          <5> QED
            BY <3>5, <4>1, <5>1
        <4>2. CASE i # n + 1
          <5>1. i \in 1..n /\ i \in 0..n /\ i - 1 \in 0..n
            BY <3>1, <4>2
          <5>2. f[i] = step[i][f[i - 1]]
            BY <3>2, <5>1 DEF Counting
          <5> HIDE DEF g
          <5> QED
            BY <3>5, <5>1, <5>2
        <4> QED
          BY <4>1, <4>2
      <3> HIDE DEF g
      <3>7. g[0] = 0
        <4>1. 0 \in 0..n
          BY <3>1
        <4> QED
          BY <3>3, <3>5, <4>1
      <3>8. Counting(g, step, n + 1)
        BY <3>4, <3>6, <3>7 DEF Counting
      <3> QED
        BY <3>8
    <2>2. n + 1 \in Nat
      OBVIOUS
    <2> HIDE DEF Counting
    <2> QED
      BY <2>1, <2>2
  <1>3. S \in SUBSET Nat
    OBVIOUS
  <1> HIDE DEF S
  <1>4. S = Nat
    BY <1>1, <1>2, <1>3, SetInduction
  <1> QED
    BY <1>4 DEF S

\* The smallest number of a set, as Min finds it.
LEMMA SmallestIsMin ==
    ASSUME NEW S \in SUBSET Nat, NEW n \in S, \A k \in S : n <= k
    PROVE  Min(S) = n
  <1>1. \E x \in S : \A y \in S : x <= y
    OBVIOUS
  <1>2. PICK x : x = Min(S)
    OBVIOUS
  <1>3. x \in S /\ \A y \in S : x <= y
    BY <1>1, <1>2 DEF Min
  <1>4. x <= n /\ n <= x /\ x \in Nat /\ n \in Nat
    BY <1>3
  <1> QED
    BY <1>2, <1>4

\* A text of digits alone has no space, no sign and no end before its end.
LEMMA AllDigits ==
    ASSUME NEW s \in Seq(Int), IsBound(s)
    PROVE  /\ LeadingDigits(s) = s
           /\ StrtoullCut(s) = DigitsCut(s)
           /\ Len(s) \in 1..7 /\ \A i \in 1..Len(s) : s[i] \in 0..9
  <1>1. Len(s) \in 1..7 /\ \A i \in 1..Len(s) : s[i] \in 0..9
    BY DEF IsBound, Digit
  <1>2. LeadingDigits(s) = s
    <2>1. {i \in 1..Len(s) : s[i] \notin Digit} = {}
      BY <1>1 DEF Digit
    <2> QED
      BY <2>1 DEF LeadingDigits, SelectInSeq
  <1>3. StrtoullCut(s) = DigitsCut(s)
    <2> DEFINE I == {i \in 1..Len(s) : s[i] # SPACE}
    <2>1. 1 \in I /\ I \in SUBSET Nat /\ \A i \in I : 1 <= i
      BY <1>1 DEF SPACE
    <2>2. Min(I) = 1 /\ I # {}
      BY <2>1, SmallestIsMin
    <2>3. SubSeq(s, 1, Len(s)) = s
      BY SubSeqFull
    <2>4. s # <<>> /\ s[1] # HYPHEN
      <3>1. 1 \in 1..Len(s) /\ Len(s) # 0
        <4>1. \A m \in 1..7 : 1 \in 1..m /\ m # 0
          OBVIOUS
        <4> QED
          BY <1>1, <4>1
      <3>2. s[1] # HYPHEN
        BY <1>1, <3>1 DEF HYPHEN
      <3>3. s # <<>>
        BY <3>1
      <3> QED
        BY <3>2, <3>3
    <2>5. (IF 1 = 0 THEN <<>> ELSE SubSeq(s, 1, Len(s))) = s
      BY <2>3
    <2>6. (IF I # {} THEN Min(I) ELSE 0) = 1
      BY <2>2
    <2>7. StrtoullCut(s) =
            LET from == IF I # {} THEN Min(I) ELSE 0
                ink == IF from = 0 THEN <<>> ELSE SubSeq(s, from, Len(s))
            IN  IF ink # <<>> /\ ink[1] = HYPHEN THEN Uint32(-DigitsCut(Tail(ink)))
                ELSE DigitsCut(ink)
      BY DEF StrtoullCut, SelectInSeq
    <2> HIDE DEF I
    <2> QED
      BY <2>4, <2>5, <2>6, <2>7
  <1> QED
    BY <1>1, <1>2, <1>3

\* The last of a sequence is one of its elements.
LEMMA LastOfSeq ==
    ASSUME NEW S, NEW s \in Seq(S), s # <<>>
    PROVE  Last(s) \in S
  <1>1. Len(s) \in Nat /\ Len(s) # 0
    BY EmptySeq
  <1>2. Len(s) \in 1..Len(s)
    BY <1>1
  <1> QED
    BY <1>2 DEF Last

\* A part of a text is numbers.
LEMMA PartOfText ==
    ASSUME NEW text \in Seq(0..14), NEW m \in 1..Len(text)
    PROVE  /\ SubSeq(text, 1, m - 1) \in Seq(Int)
           /\ SubSeq(text, m + 1, Len(text)) \in Seq(Int)
  <1>1. Len(text) \in Nat /\ text \in Seq(Int) /\ m \in Nat /\ m >= 1 /\ m <= Len(text)
    <2>1. 0..14 \subseteq Int
      OBVIOUS
    <2> QED
      BY <2>1, SeqMonotonic
  <1>2. \A i \in 1..m - 1 : i \in 1..Len(text)
    BY <1>1
  <1>3. \A i \in m + 1..Len(text) : i \in 1..Len(text)
    BY <1>1
  <1>4. SubSeq(text, 1, m - 1) \in Seq(Int)
    <2>1. m - 1 \in Int /\ 1 \in Int /\ \A i \in 1..m - 1 : text[i] \in Int
      BY <1>1, <1>2
    <2> QED
      BY <2>1, SubSeqProperties
  <1>5. SubSeq(text, m + 1, Len(text)) \in Seq(Int)
    <2>1. m + 1 \in Int /\ Len(text) \in Int /\ \A i \in m + 1..Len(text) : text[i] \in Int
      BY <1>1, <1>3
    <2> QED
      BY <2>1, SubSeqProperties
  <1> QED
    BY <1>4, <1>5

\* A rule that is in the table has a range, which is a text.
LEMMA RangeText ==
    ASSUME WalkIInv, NEW k \in 1..rule_nr
    PROVE  TextOf(DocRules[k], "Range") \in Seq(0..14)
  <1> DEFINE rule == DocRules[k]
             found == Named(<<rule>>, "Range")
  <1>1. k \in 1..Len(DocRules) /\ LastText(found) # NoText /\ rule \in Elements
    BY DEF WalkIInv, RangesRead
  <1>3. <<rule>> \in Seq(Elements)
    BY <1>1
  <1>4. found \in Seq(Of("Range"))
    BY <1>3, NamedType
  <1>5. found # <<>> /\ LastText(found) = Last(found).text
    BY <1>1 DEF LastText
  <1>6. Last(found) \in Of("Range")
    BY <1>4, <1>5, LastOfSeq
  <1> HIDE DEF found
  <1>7. IsElement(Last(found)) /\ Last(found).name = "Range" /\ Last(found).text # NoText
    BY <1>1, <1>5, <1>6, DocsAssumption DEF Of
  <1> QED
    BY <1>7 DEF IsElement, TextOf, found

\* One digit more does not reach WIDTH.
LEMMA DigitFits ==
    ASSUME NEW b \in Nat, b * 10 <= WIDTH, NEW x \in Nat, x < b, NEW c \in 0..9
    PROVE  /\ x * 10 + c \in Nat /\ x * 10 + c < b * 10
           /\ Uint32(x * 10 + c) = x * 10 + c
  <1>1. x * 10 + c \in Nat /\ x * 10 + c < b * 10
    BY SMT
  <1>2. \A y, w \in Nat : y < w => y % w = y
    BY SMT
  <1>3. WIDTH \in Nat
    BY WidthAssumption, SMT
  <1> PICK n : n = x * 10 + c
    BY SMT
  <1>4. n \in Nat /\ n < WIDTH
    BY <1>1, <1>3, SMT
  <1> QED
    BY <1>1, <1>2, <1>3, <1>4, SMT DEF Uint32

\* Seven digits make the number that they stand for, in 32 bits as without them.
LEMMA DigitsFit ==
    ASSUME NEW s \in Seq(Int), IsBound(s)
    PROVE  StrtoullCut(s) = Strtoul(s)
  <1> DEFINE m == Len(s)
             cut == [i \in 1..m |-> [x \in Int |-> Uint32(x * 10 + s[i])]]
             add == [i \in 1..m |-> [x \in Int |-> x * 10 + s[i]]]
             Cut(f) == f = [n \in 0..m |->
                                IF n = 0 THEN 0 ELSE Uint32(f[n - 1] * 10 + s[n])]
             Add(f) == f = [n \in 0..m |-> IF n = 0 THEN 0 ELSE f[n - 1] * 10 + s[n]]
             g == CHOOSE f : Cut(f)
             h == CHOOSE f : Add(f)
  <1>1. /\ m \in 1..7 /\ \A i \in 1..m : s[i] \in 0..9
        /\ LeadingDigits(s) = s /\ StrtoullCut(s) = DigitsCut(s)
    BY AllDigits
  <1>2. StrtoullCut(s) = g[m] /\ Strtoul(s) = h[m]
    BY <1>1 DEF DigitsCut, Strtoul
  <1>3. \A y \in Int : Uint32(y) \in Int
    <2>1. WIDTH \in Nat /\ WIDTH > 0
      BY WidthAssumption
    <2> QED
      BY <2>1 DEF Uint32
  <1>4. m \in Nat /\ \A i \in 1..m : s[i] \in Int
    BY <1>1
  <1>5. \A i \in 1..m : cut[i] \in [Int -> Int] /\ add[i] \in [Int -> Int]
    <2> SUFFICES ASSUME NEW i \in 1..m
                 PROVE  cut[i] \in [Int -> Int] /\ add[i] \in [Int -> Int]
      OBVIOUS
    <2> PICK c : c = s[i]
      OBVIOUS
    <2>0. c \in Int
      BY <1>4
    <2>1. \A x \in Int : x * 10 + c \in Int /\ Uint32(x * 10 + c) \in Int
      <3> SUFFICES ASSUME NEW x \in Int
                   PROVE  x * 10 + c \in Int /\ Uint32(x * 10 + c) \in Int
        OBVIOUS
      <3>1. x * 10 + c \in Int
        BY <2>0
      <3> QED
        BY <1>3, <3>1
    <2>2. /\ [x \in Int |-> Uint32(x * 10 + c)] \in [Int -> Int]
          /\ [x \in Int |-> x * 10 + c] \in [Int -> Int]
      BY <2>1
    <2>3. /\ cut[i] = [x \in Int |-> Uint32(x * 10 + c)]
          /\ add[i] = [x \in Int |-> x * 10 + c]
      OBVIOUS
    <2> QED
      BY <2>2, <2>3
  <1>6. ASSUME NEW f
        PROVE  (Counting(f, cut, m) => Cut(f)) /\ (Counting(f, add, m) => Add(f))
    <2>1. \A n \in 0..m : n # 0 => n \in 1..m /\ n - 1 \in 0..m
      BY <1>4
    <2>2. ASSUME Counting(f, cut, m) PROVE Cut(f)
      <3>1. f \in [0..m -> Int] /\ f[0] = 0 /\ \A i \in 1..m : f[i] = cut[i][f[i - 1]]
        BY <2>2 DEF Counting
      <3>2. ASSUME NEW n \in 0..m
            PROVE  f[n] = IF n = 0 THEN 0 ELSE Uint32(f[n - 1] * 10 + s[n])
        BY <2>1, <3>1
      <3> QED
        BY <3>1, <3>2
    <2>3. ASSUME Counting(f, add, m) PROVE Add(f)
      <3>1. f \in [0..m -> Int] /\ f[0] = 0 /\ \A i \in 1..m : f[i] = add[i][f[i - 1]]
        BY <2>3 DEF Counting
      <3>2. ASSUME NEW n \in 0..m
            PROVE  f[n] = IF n = 0 THEN 0 ELSE f[n - 1] * 10 + s[n]
        BY <2>1, <3>1
      <3> QED
        BY <3>1, <3>2
    <2> QED
      BY <2>2, <2>3
  <1> HIDE DEF cut, add
  <1>7. Cut(g) /\ Add(h)
    <2>1. (\E f : Counting(f, cut, m)) /\ (\E f : Counting(f, add, m))
      BY <1>4, <1>5, CountingExists
    <2> HIDE DEF Cut, Add
    <2>2. (\E f : Cut(f)) /\ (\E f : Add(f))
      BY <1>6, <2>1
    <2> QED
      BY <2>2
  <1> HIDE DEF g, h
  <1>8. /\ g[0] = 0 /\ h[0] = 0
        /\ \A i \in 0..6 : i + 1 <= m =>
              /\ g[i + 1] = Uint32(g[i] * 10 + s[i + 1])
              /\ h[i + 1] = h[i] * 10 + s[i + 1]
    <2>1. 0 \in 0..m
      BY <1>1
    <2>2. ASSUME NEW i \in 0..6, NEW n, n = i + 1, n <= m
          PROVE  g[n] = Uint32(g[i] * 10 + s[n]) /\ h[n] = h[i] * 10 + s[n]
      <3>1. n \in 0..m /\ n # 0 /\ n - 1 = i
        BY <1>1, <2>2
      <3> QED
        BY <1>7, <3>1
    <2> QED
      BY <1>7, <2>1, <2>2
  <1> HIDE DEF m
  <1> DEFINE Small(i, b) == i <= m => g[i] = h[i] /\ g[i] \in Nat /\ g[i] < b
  <1>9. ASSUME NEW i \in 0..6, NEW b \in Nat, b * 10 <= WIDTH, Small(i, b)
        PROVE  Small(i + 1, b * 10)
    <2> SUFFICES ASSUME i + 1 <= m
                 PROVE  g[i + 1] = h[i + 1] /\ g[i + 1] \in Nat /\ g[i + 1] < b * 10
      BY SMT
    <2>1. i <= m /\ i + 1 \in 1..m
      BY <1>1, SMT
    <2> PICK x, c : x = g[i] /\ c = s[i + 1]
      OBVIOUS
    <2>2. x = h[i] /\ x \in Nat /\ x < b /\ c \in 0..9 /\ b \in Nat /\ b * 10 <= WIDTH
      BY <1>1, <1>9, <2>1, SMT
    <2>3. x * 10 + c \in Nat /\ x * 10 + c < b * 10 /\ Uint32(x * 10 + c) = x * 10 + c
      BY <2>2, DigitFits, Zenon
    <2>4. g[i + 1] = Uint32(x * 10 + c) /\ h[i + 1] = x * 10 + c
      BY <1>8, <2>2
    <2> QED
      BY <2>3, <2>4, SMT
  <1>10. Small(0, 1)
    BY <1>8, SMT
  <1> HIDE DEF Small
  <1> DEFINE b1 == 10
             b2 == b1 * 10
             b3 == b2 * 10
             b4 == b3 * 10
             b5 == b4 * 10
             b6 == b5 * 10
             b7 == b6 * 10
  <1>11. /\ {1, b1, b2, b3, b4, b5, b6} \subseteq Nat
         /\ \A b \in {1, b1, b2, b3, b4, b5, b6} : b * 10 <= WIDTH
    BY WidthAssumption, SMT
  <1>12. Small(1, b1) /\ Small(2, b2) /\ Small(3, b3)
    <2>1. Small(0 + 1, 1 * 10)
      BY <1>9, <1>10, <1>11
    <2> HIDE DEF b3, b2
    <2>2. Small(1 + 1, b1 * 10)
      BY <1>9, <1>11, <2>1
    <2>3. Small(2 + 1, b2 * 10)
      BY <1>9, <1>11, <2>2 DEF b2
    <2> QED
      BY <2>1, <2>2, <2>3 DEF b2, b3
  <1> HIDE DEF b1, b2, b3
  <1>13. Small(4, b4) /\ Small(5, b5) /\ Small(6, b6) /\ Small(7, b7)
    <2> HIDE DEF b4, b5, b6, b7
    <2>1. Small(3 + 1, b3 * 10)
      BY <1>9, <1>11, <1>12
    <2>2. Small(4 + 1, b4 * 10)
      BY <1>9, <1>11, <2>1 DEF b4
    <2>3. Small(5 + 1, b5 * 10)
      BY <1>9, <1>11, <2>2 DEF b5
    <2>4. Small(6 + 1, b6 * 10)
      BY <1>9, <1>11, <2>3 DEF b6
    <2> QED
      BY <2>1, <2>2, <2>3, <2>4 DEF b4, b5, b6, b7
  <1> HIDE DEF b4, b5, b6, b7
  <1>14. g[m] = h[m]
    <2>1. \A n \in 1..7 : n \in {1, 2, 3, 4, 5, 6, 7}
      BY SMT
    <2> PICK n : n = m
      OBVIOUS
    <2>2. n \in 1..7
      BY <1>1
    <2>3. n <= m
      BY <2>2
    <2>4. ASSUME NEW b, Small(n, b) PROVE g[n] = h[n]
      BY <2>3, <2>4 DEF Small
    <2>5. \E b : Small(n, b)
      BY <1>11, <1>12, <1>13, <2>1, <2>2
    <2> QED
      BY <2>4, <2>5
  <1> QED
    BY <1>2, <1>14, SMT

\* The two halves of a range whose lower bound is digits alone.
LEMMA Halves ==
    ASSUME NEW text \in Seq(0..14), NEW m \in 1..Len(text), text[m] = HYPHEN,
           IsBound(SubSeq(text, 1, m - 1))
    PROVE  /\ LoStr(text) = SubSeq(text, 1, m - 1)
           /\ HiStr(text) = SubSeq(text, m + 1, Len(text))
  <1> DEFINE I == {i \in 1..Len(text) : text[i] = HYPHEN}
             lo == SubSeq(text, 1, m - 1)
  <1>1. Len(text) \in Nat /\ m \in Nat /\ m >= 1 /\ m <= Len(text)
    OBVIOUS
  <1>2. Len(lo) = m - 1 /\ \A i \in 1..m - 1 : lo[i] = text[i]
    <2>1. m - 1 \in Nat /\ \A i \in 1..m - 1 : i \in 1..Len(text)
      BY <1>1
    <2> QED
      BY <1>1, <2>1, SubSeqProperties
  <1>3. \A i \in 1..m - 1 : text[i] # HYPHEN
    BY <1>2 DEF IsBound, Digit, HYPHEN
  <1>4. \A i \in I : m <= i
    <2> SUFFICES ASSUME NEW i \in I, ~(m <= i) PROVE FALSE
      OBVIOUS
    <2>1. i \in 1..m - 1
      BY <1>1
    <2> QED
      BY <1>3, <2>1
  <1>5. I \in SUBSET Nat /\ m \in I
    BY <1>1
  <1>6. Min(I) = m /\ I # {} /\ m # 0
    BY <1>1, <1>4, <1>5, SmallestIsMin
  <1>7. HyphenAt(text) =
            LET at == IF I # {} THEN Min(I) ELSE 0
            IN  IF at = 0 THEN Len(text) + 1 ELSE at
    BY DEF HyphenAt, SelectInSeq
  <1> HIDE DEF I
  <1>8. HyphenAt(text) = m
    BY <1>6, <1>7
  <1> QED
    BY <1>8 DEF LoStr, HiStr

\* The range table is the document's: as long as its rules, and bounds of up to
\* seven digits are stored as they were written, whatever else the document
\* holds.
THEOREM RangesAreDocuments == TSpec => []RangesOfDocument
  <1>1. WalkIInv /\ TableIInv => RangesOfDocument
    <2> SUFFICES ASSUME WalkIInv, TableIInv
                 PROVE  RangesOfDocument
      OBVIOUS
    <2>1. /\ tpc = "done" /\ doc_err # 2 => rule_nr = Len(DocRules)
      BY DEF WalkIInv, RangesRead
    <2>2. ASSUME NEW k \in 1..rule_nr,
                 NEW m \in 1..Len(TextOf(DocRules[k], "Range")),
                 TextOf(DocRules[k], "Range")[m] = HYPHEN,
                 IsBound(SubSeq(TextOf(DocRules[k], "Range"), 1, m - 1)),
                 IsBound(SubSeq(TextOf(DocRules[k], "Range"), m + 1,
                                Len(TextOf(DocRules[k], "Range"))))
          PROVE  /\ ranges[k].rng_lbound
                        = Strtoul(SubSeq(TextOf(DocRules[k], "Range"), 1, m - 1))
                 /\ ranges[k].rng_ubound
                        = Strtoul(SubSeq(TextOf(DocRules[k], "Range"), m + 1,
                                         Len(TextOf(DocRules[k], "Range"))))
                 /\ ranges[k].rng_len = Strtoul(TextOf(DocRules[k], "Length"))
      <3> DEFINE text == TextOf(DocRules[k], "Range")
                 lo == SubSeq(text, 1, m - 1)
                 hi == SubSeq(text, m + 1, Len(text))
      <3>1. ranges[k] = RangeOf(DocRules[k])
        BY DEF WalkIInv, RangesRead
      <3>2. text \in Seq(0..14)
        BY RangeText
      <3> HIDE DEF text
      <3>3. LoStr(text) = lo /\ HiStr(text) = hi
        BY <2>2, <3>2, Halves DEF text
      <3>4. lo \in Seq(Int) /\ hi \in Seq(Int)
        BY <2>2, <3>2, PartOfText DEF text
      <3>5. StrtoullCut(lo) = Strtoul(lo) /\ StrtoullCut(hi) = Strtoul(hi)
        BY <2>2, <3>4, DigitsFit DEF text
      <3>6. /\ ranges[k].rng_lbound = StrtoullCut(LoStr(text))
            /\ ranges[k].rng_ubound = StrtoullCut(HiStr(text))
            /\ ranges[k].rng_len = Strtoul(TextOf(DocRules[k], "Length"))
        BY <3>1 DEF RangeOf, text
      <3> QED
        BY <3>3, <3>5, <3>6 DEF text
    <2> QED
      BY <2>1, <2>2 DEF RangesOfDocument
  <1> QED
    BY <1>1, TableInvariance, WalkInvariance, PTL

-----------------------------------------------------------------------------
\* The digits of a text are at most as many as its bytes.
LEMMA JoinedLength ==
    \A n \in Nat : \A E : \A p \in Seq(Seq(E)) :
        Len(p) = n /\ (\A i \in 1..n : Len(p[i]) <= 1) => Len(Joined(p)) <= n
  <1> DEFINE S == {n \in Nat : \A E : \A p \in Seq(Seq(E)) :
                    Len(p) = n /\ (\A i \in 1..n : Len(p[i]) <= 1) => Len(Joined(p)) <= n}
  <1>1. 0 \in S
    <2>1. ASSUME NEW E, NEW p \in Seq(Seq(E)), Len(p) = 0 PROVE Len(Joined(p)) <= 0
      <3>1. p = <<>>
        BY <2>1, EmptySeq
      <3> QED
        BY <3>1, JoinedEmpty
    <2> QED
      BY <2>1
  <1>2. ASSUME NEW n \in S PROVE n + 1 \in S
    <2>1. n \in Nat /\ n + 1 \in Nat
      OBVIOUS
    <2>2. ASSUME NEW E, NEW p \in Seq(Seq(E)), Len(p) = n + 1,
                 \A i \in 1..n + 1 : Len(p[i]) <= 1
          PROVE  Len(Joined(p)) <= n + 1
      <3>1. PICK r \in Seq(Seq(E)), x \in Seq(E) : p = Append(r, x) /\ Len(r) = n
        BY <2>1, <2>2, FrontLast
      <3>2. /\ p[n + 1] = x /\ \A i \in 1..n : p[i] = r[i]
        BY <3>1
      <3>3. Len(x) <= 1 /\ \A i \in 1..n : Len(r[i]) <= 1
        <4>1. n + 1 \in 1..n + 1 /\ \A i \in 1..n : i \in 1..n + 1
          BY <2>1
        <4> QED
          BY <2>2, <3>2, <4>1
      <3>4. Len(Joined(r)) <= n
        BY <3>1, <3>3
      <3>5. Joined(p) = Joined(r) \o x /\ Joined(r) \in Seq(E)
        BY <3>1, JoinedAppend, JoinedType
      <3> PICK j : j = Joined(r)
        OBVIOUS
      <3>6. Len(j \o x) = Len(j) + Len(x) /\ Len(j) \in Nat /\ Len(x) \in Nat
        BY <3>5
      <3> QED
        BY <2>1, <3>3, <3>4, <3>5, <3>6
    <2> QED
      BY <2>1, <2>2
  <1>3. S \in SUBSET Nat
    OBVIOUS
  <1> HIDE DEF S
  <1>4. S = Nat
    BY <1>1, <1>2, <1>3, SetInduction
  <1> QED
    BY <1>4 DEF S

\* The digits of a text are no more than its bytes.
LEMMA NumericDigits ==
    ASSUME NEW text \in Seq(0..14)
    PROVE  Numeric(text) \in Seq(Digit) /\ Len(Numeric(text)) <= Len(text)
  <1> DEFINE m == Len(text)
             p == [n \in 1..m |-> IF text[n] \in Digit THEN <<text[n]>> ELSE <<>>]
             Found(f) ==
                f = [n \in 0..m |-> IF n = 0 THEN <<>> ELSE f[n - 1] \o
                        IF text[n] \in Digit THEN <<text[n]>> ELSE <<>>]
             g == CHOOSE f : Found(f)
  <1>1. m \in Nat /\ Len(p) = m
    OBVIOUS
  <1>2. Numeric(text) = g[m]
    BY DEF Numeric
  <1>3. ASSUME NEW n \in 1..m
        PROVE  /\ p[n] = IF text[n] \in Digit THEN <<text[n]>> ELSE <<>>
               /\ p[n] \in Seq(Digit) /\ Len(p[n]) <= 1
    <2>1. p[n] = IF text[n] \in Digit THEN <<text[n]>> ELSE <<>>
      OBVIOUS
    <2> HIDE DEF p
    <2>2. CASE text[n] \in Digit
      <3>1. <<text[n]>> \in Seq(Digit) /\ Len(<<text[n]>>) = 1
        BY <2>2
      <3> QED
        BY <2>1, <2>2, <3>1
    <2>3. CASE text[n] \notin Digit
      <3>1. <<>> \in Seq(Digit) /\ Len(<<>>) = 0
        OBVIOUS
      <3> QED
        BY <2>1, <2>3, <3>1
    <2> QED
      BY <2>1, <2>2, <2>3
  <1>4. p \in Seq(Seq(Digit))
    BY <1>1, <1>3
  <1>5. \A f : Found(f) <=> Folds(f, p)
    <2> SUFFICES ASSUME NEW f PROVE Found(f) <=> Folds(f, p)
      OBVIOUS
    <2>1. [n \in 0..m |-> IF n = 0 THEN <<>> ELSE f[n - 1] \o
                IF text[n] \in Digit THEN <<text[n]>> ELSE <<>>]
             = [n \in 0..m |-> IF n = 0 THEN <<>> ELSE f[n - 1] \o p[n]]
      BY <1>1
    <2> QED
      BY <1>1, <2>1 DEF Folds, FoldsTo
  <1>6. \E f : Folds(f, p)
    BY <1>1, FoldsExist
  <1> HIDE DEF p
  <1>7. Folds(g, p)
    <2> HIDE DEF Found
    <2> QED
      BY <1>5, <1>6, Zenon
  <1>8. Numeric(text) = Joined(p)
    BY <1>1, <1>2, <1>7, FoldsJoin
  <1>9. Joined(p) \in Seq(Digit) /\ Len(Joined(p)) <= m
    BY <1>1, <1>3, <1>4, JoinedType, JoinedLength
  <1> QED
    BY <1>8, <1>9

\* What is copied into one of the arrays, with its NUL, are 15 bytes at most.
LEMMA CopiedFits ==
    ASSUME NEW str \in Seq(0..14)
    PROVE  Copied(str) \in Nat /\ Copied(str) <= 15
  <1> DEFINE C == {n \in 1..Len(str) : Fits(SubSeq(str, 1, n))}
  <1>1. C \in SUBSET 1..14
    <2> SUFFICES ASSUME NEW n \in 1..Len(str), Fits(SubSeq(str, 1, n))
                 PROVE  n \in 1..14
      OBVIOUS
    <2>1. n \in Nat /\ n <= Len(str) /\ Len(str) \in Nat
      OBVIOUS
    <2>2. \A i \in 1..n : str[i] \in 0..14
      BY <2>1
    <2>3. Len(SubSeq(str, 1, n)) = n
      BY <2>1, <2>2, SubSeqProperties
    <2> QED
      BY <2>1, <2>3 DEF Fits
  <1>2. IsFiniteSet(1..14) /\ Cardinality(1..14) = 14
    <2>0. PICK last \in Int : last = 14
      OBVIOUS
    <2>1. IsFiniteSet(1..last) /\ Cardinality(1..last) = last
      <3>1. 1 \in Int /\ ~(1 > last) /\ last - 1 + 1 = last
        BY <2>0
      <3> QED
        BY <3>1, FS_Interval
    <2> QED
      BY <2>0, <2>1
  <1>3. IsFiniteSet(C) /\ Cardinality(C) <= 14
    BY <1>1, <1>2, FS_Subset
  <1>4. Cardinality(C) \in Nat
    BY <1>3, FS_CardinalityType
  <1> HIDE DEF C
  <1>5. Cardinality(C) + (IF Fits(str) THEN 1 ELSE 0) \in Nat
        /\ Cardinality(C) + (IF Fits(str) THEN 1 ELSE 0) <= 15
    BY <1>3, <1>4
  <1> QED
    BY <1>5 DEF Copied, C

\* The two halves of any text are texts.
LEMMA HalvesType ==
    ASSUME NEW text \in Seq(0..14)
    PROVE  LoStr(text) \in Seq(0..14) /\ HiStr(text) \in Seq(0..14)
  <1> DEFINE I == {i \in 1..Len(text) : text[i] = HYPHEN}
  <1>1. Len(text) \in Nat
    OBVIOUS
  <1>2. I # {} => Min(I) \in 1..Len(text)
    <2> SUFFICES ASSUME I # {} PROVE Min(I) \in 1..Len(text)
      OBVIOUS
    <2>1. I \in SUBSET Nat
      BY <1>1
    <2>2. PICK n \in I : \A k \in I : n <= k
      <3> HIDE DEF I
      <3> QED
        BY <2>1, Smallest
    <2>3. Min(I) = n
      <3> HIDE DEF I
      <3> QED
        BY <2>1, <2>2, SmallestIsMin
    <2> QED
      BY <2>2, <2>3
  <1>3. HyphenAt(text) =
            LET at == IF I # {} THEN Min(I) ELSE 0
            IN  IF at = 0 THEN Len(text) + 1 ELSE at
    BY DEF HyphenAt, SelectInSeq
  <1> HIDE DEF I
  <1> PICK h : h = HyphenAt(text)
    OBVIOUS
  <1>4. h \in Nat /\ h >= 1 /\ h <= Len(text) + 1
    BY <1>1, <1>2, <1>3
  <1>5. SubSeq(text, 1, h - 1) \in Seq(0..14)
    <2>1. h - 1 \in Int /\ \A i \in 1..h - 1 : i \in 1..Len(text)
      BY <1>1, <1>4
    <2>2. \A i \in 1..h - 1 : text[i] \in 0..14
      BY <2>1
    <2> QED
      BY <2>1, <2>2, SubSeqProperties
  <1>6. SubSeq(text, h + 1, Len(text)) \in Seq(0..14)
    <2>1. h + 1 \in Int /\ Len(text) \in Int
          /\ \A i \in h + 1..Len(text) : i \in 1..Len(text)
      BY <1>1, <1>4
    <2>2. \A i \in h + 1..Len(text) : text[i] \in 0..14
      BY <2>1
    <2> QED
      BY <2>1, <2>2, SubSeqProperties
  <1> QED
    BY <1>5, <1>6 DEF LoStr, HiStr

\* The code relies on prefixes of fewer bytes than numeric_prefix has.
ShortPrefixes ==
    \A e \in Elements :
        e.name = "Prefix" /\ e.text # NoText => Len(e.text) < ARRAY_SIZE

\* What is copied comes from short texts, or is cut.
ShortTexts ==
    /\ written \in [lo : 0..15, hi : 0..15, numeric : 0..ARRAY_SIZE]
    /\ tpc = "prefix" \/ cur_prefix # NoText =>
          cur_prefix \in Seq(0..14) /\ Len(cur_prefix) < ARRAY_SIZE
    /\ key.range # NoText => key.range \in Seq(0..14)

\* add_rule_str writes inside its arrays, however long the bounds.
LEMMA WrittenStep ==
    ASSUME ShortTexts
    PROVE  WrittenBounds \in [lo : 0..15, hi : 0..15, numeric : 0..ARRAY_SIZE]
  <1>1. written \in [lo : 0..15, hi : 0..15, numeric : 0..ARRAY_SIZE]
    BY DEF ShortTexts
  <1>2. CASE key.range = NoText \/ key.length = NoText
    BY <1>1, <1>2 DEF WrittenBounds
  <1>3. CASE ~(key.range = NoText \/ key.length = NoText)
    <2> DEFINE lo == AtLeast(written.lo, Copied(LoStr(key.range)))
               hi == IF Fits(LoStr(key.range))
                     THEN AtLeast(written.hi, Copied(HiStr(key.range))) ELSE written.hi
    <2>1. key.range \in Seq(0..14)
      BY <1>3 DEF ShortTexts
    <2>2. /\ Copied(LoStr(key.range)) \in Nat /\ Copied(LoStr(key.range)) <= 15
          /\ Copied(HiStr(key.range)) \in Nat /\ Copied(HiStr(key.range)) <= 15
      BY <2>1, HalvesType, CopiedFits
    <2>3. lo \in 0..15 /\ hi \in 0..15
      BY <1>1, <2>2 DEF AtLeast
    <2>4. WrittenBounds = [written EXCEPT !.lo = lo, !.hi = hi]
      BY <1>3 DEF WrittenBounds
    <2> HIDE DEF lo, hi
    <2> QED
      BY <1>1, <2>3, <2>4
  <1> QED
    BY <1>2, <1>3

\* Texts that are short stay so until they are copied.
LEMMA TextsStep ==
    ASSUME ShortPrefixes, TableIInv, WalkIInv, ShortTexts, TNext
    PROVE  ShortTexts'
  <1> DEFINE W == [lo : 0..15, hi : 0..15, numeric : 0..ARRAY_SIZE]
             PrefixText(text) == text \in Seq(0..14) /\ Len(text) < ARRAY_SIZE
  <1>1. /\ Nested /\ Lists /\ KeyHolds
        /\ written \in W
        /\ tpc = "prefix" \/ cur_prefix # NoText => PrefixText(cur_prefix)
        /\ key.range # NoText => key.range \in Seq(0..14)
    BY DEF TableIInv, WalkIInv, ShortTexts
  <1>2. CASE ReadText
    <2>1. Cur \in Elements /\ tpc = "walk"
      <3> PICK n : n = Len(frames)
        OBVIOUS
      <3> QED
        BY <1>1, <1>2, SiblingTodo
    <2>2. UNCHANGED written /\ tpc' # "prefix"
      BY <1>2, <2>1 DEF ReadText
    <2>3. Cur.name = "Prefix" /\ Cur.text # NoText => PrefixText(Cur.text)
      BY <2>1, DocsAssumption DEF ShortPrefixes, IsElement
    <2>4. Cur.name = "Range" /\ Cur.text # NoText => Cur.text \in Seq(0..14)
      BY <2>1, DocsAssumption DEF IsElement
    <2>5. cur_prefix' = IF Cur.name = "Prefix" THEN Cur.text ELSE cur_prefix
      BY <1>2 DEF ReadText
    <2>6. key'.range = IF Cur.name = "Range" THEN Cur.text ELSE key.range
      BY <1>1, <1>2 DEF ReadText, KeyHolds
    <2> QED
      BY <1>1, <2>2, <2>3, <2>4, <2>5, <2>6 DEF ShortTexts
  <1>3. CASE Descend
    <2>1. /\ UNCHANGED written /\ cur_prefix' \in {NoText, cur_prefix}
          /\ key'.range = NoText /\ tpc = "walk" /\ tpc' # "prefix"
      BY <1>3 DEF Descend, Forget, Walking
    <2> QED
      BY <1>1, <2>1 DEF ShortTexts
  <1>4. CASE AddRule \/ RefuseRule
    <2>1. /\ written' = WrittenBounds /\ UNCHANGED <<cur_prefix, key>> /\ tpc' # "prefix"
      BY <1>4 DEF AddRule, RefuseRule, Leaving
    <2>2. WrittenBounds \in W
      BY WrittenStep
    <2> QED
      BY <1>1, <2>1, <2>2 DEF ShortTexts
  <1>5. CASE LeaveGroup
    <2>1. /\ cur_prefix' = IF cur_prefix = NoText THEN PREFIX_ERROR ELSE cur_prefix
          /\ UNCHANGED <<written, key>>
      BY <1>5 DEF LeaveGroup
    <2>2. PrefixText(PREFIX_ERROR)
      <3>1. <<14>> \in Seq(0..14) /\ Len(<<14>>) = 1
        OBVIOUS
      <3> QED
        BY <3>1 DEF PREFIX_ERROR, LETTER, ARRAY_SIZE
    <2> QED
      BY <1>1, <2>1, <2>2 DEF ShortTexts
  <1>6. CASE AddPrefix
    <2> DEFINE k == Len(NewEntry.prefix) + 1
               numeric == AtLeast(written.numeric, k)
    <2>1. /\ tpc = "prefix" /\ tpc' = "walk" /\ UNCHANGED <<cur_prefix, key>>
          /\ written' = [written EXCEPT !.numeric = numeric]
      BY <1>6 DEF AddPrefix
    <2>2. PrefixText(cur_prefix)
      BY <1>1, <2>1
    <2>3. NewEntry.prefix \in Seq(Digit) /\ Len(NewEntry.prefix) <= Len(cur_prefix)
      BY <2>2, NumericDigits DEF NewEntry
    <2>4. Len(NewEntry.prefix) \in Nat /\ Len(cur_prefix) \in Nat
      BY <2>2, <2>3, LenProperties
    <2>5. numeric \in 0..ARRAY_SIZE
      <3>1. ARRAY_SIZE \in Nat
        BY DEF ARRAY_SIZE
      <3>2. written.numeric \in Nat /\ written.numeric <= ARRAY_SIZE
        BY <1>1, <3>1
      <3>3. k \in Nat /\ k <= ARRAY_SIZE
        BY <2>2, <2>3, <2>4, <3>1
      <3> HIDE DEF k
      <3> QED
        BY <3>1, <3>2, <3>3 DEF AtLeast
    <2> HIDE DEF numeric
    <2>6. written' \in W
      BY <1>1, <2>1, <2>5
    <2> QED
      BY <1>1, <2>1, <2>2, <2>6 DEF ShortTexts
  <1>7. CASE ParseDoc \/ PassOver \/ Ascend \/ RefusePrefix \/ EndOfDocument
    <2>1. UNCHANGED <<written, cur_prefix, key>> /\ tpc' # "prefix"
      BY <1>7 DEF ParseDoc, PassOver, Ascend, RefusePrefix, EndOfDocument, Walking, Leaving
    <2> QED
      BY <1>1, <2>1 DEF ShortTexts
  <1> QED
    BY <1>2, <1>3, <1>4, <1>5, <1>6, <1>7 DEF TNext

\* With prefixes that fit, what is copied onto the stack fits.
LEMMA TextsInvariance ==
    ASSUME ShortPrefixes
    PROVE  TSpec => []ShortTexts
  <1>1. TInit => ShortTexts
    <2> SUFFICES ASSUME TInit PROVE ShortTexts
      OBVIOUS
    <2>1. /\ written = [lo |-> 0, hi |-> 0, numeric |-> 0] /\ tpc = "doc"
          /\ cur_prefix = NoText /\ key.range = NoText
      BY DEF TInit
    <2>2. written \in [lo : 0..15, hi : 0..15, numeric : 0..ARRAY_SIZE]
      BY <2>1 DEF ARRAY_SIZE
    <2> QED
      BY <2>1, <2>2 DEF ShortTexts
  <1>2. TableIInv /\ WalkIInv /\ ShortTexts /\ [TNext]_tvars => ShortTexts'
    <2>1. UNCHANGED tvars /\ ShortTexts => ShortTexts'
      BY DEF tvars, ShortTexts
    <2> QED
      BY <2>1, TextsStep
  <1> QED
    BY <1>1, <1>2, TableInvariance, WalkInvariance, PTL DEF TSpec

\* The arrays on the stack hold what add_rule_str and add_prefix copy there:
\* bounds of any length, and prefixes that are short enough, which nothing in
\* add_prefix sees to.
THEOREM ArraysSuffice ==
    ASSUME ShortPrefixes
    PROVE  TSpec => []ArraysHold
  <1>1. ShortTexts => ArraysHold
    BY DEF ShortTexts, ArraysHold, ARRAY_SIZE
  <1> QED
    BY <1>1, TextsInvariance, PTL
==============================================================================
