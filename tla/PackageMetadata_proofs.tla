------------------------ MODULE PackageMetadata_proofs ------------------------
(***************************************************************************)
(* What mconf_depends and gen_package_mk write, for any packages, options  *)
(* and words: the menu meets every dependency and asks for nothing else,   *)
(* and no package is compiled before what it depends on.                   *)
(*                                                                         *)
(* RunInv is what holds between two turns.  Told: a word that was met has  *)
(* its line, is selected, or is taken along, and what it takes along was   *)
(* met in full or is put off.  Sound: a line is what a word of a package   *)
(* says that is taken along where the conditions of the line are met.      *)
(* NothingMoreAsked follows from the second; DependsMet from both, by      *)
(* induction over the packages in the order in which they take each other  *)
(* along: a package that is selected is as visible as what selects it.     *)
(***************************************************************************)
EXTENDS PackageMetadata, SequenceTheorems, WellFoundedInduction, TLAPS

-----------------------------------------------------------------------------
(* The prerequisites. *)

(* A set of numbers has a least one.                                          *)
LEMMA LeastNumber ==
  ASSUME NEW S \in SUBSET Nat, S # {}
  PROVE  \E m \in S : \A k \in S : m <= k
<1> DEFINE R == OpToRel(<, Nat)
<1>1. IsWellFoundedOn(R, Nat)
  BY NatLessThanWellFounded
<1>2. \A x, y \in Nat : y < x => <<y, x>> \in R
  BY DEF OpToRel
<1> HIDE DEF R
<1>3. PICK x \in S : \A y \in S : ~ (<<y, x>> \in R)
  BY <1>1, WFMin
<1>4. \A y \in S : x <= y
  <2>1. SUFFICES ASSUME NEW y \in S PROVE x <= y
    OBVIOUS
  <2>2. x \in Nat /\ y \in Nat /\ ~(y < x)
    BY <1>2, <1>3
  <2>3. QED
    BY <2>2
<1>5. QED
  BY <1>4

(* The first of a set of turns.                                               *)
LEMMA FirstTurn ==
  ASSUME NEW U \in SUBSET (Nat \X Nat \X Nat), U # {}
  PROVE  \E t \in U : \A u \in U : ~Earlier(u, t)
<1>1. PICK a \in {u[1] : u \in U} : \A n \in {u[1] : u \in U} : a <= n
  <2> DEFINE S == {u[1] : u \in U}
  <2>1. S \in SUBSET Nat /\ S # {}
    OBVIOUS
  <2> HIDE DEF S
  <2>2. \E m \in S : \A k \in S : m <= k
    BY <2>1, LeastNumber
  <2>3. QED
    BY <2>2 DEF S
<1> DEFINE V == {u \in U : u[1] = a}
<1>2. PICK b \in {u[2] : u \in V} : \A n \in {u[2] : u \in V} : b <= n
  <2> DEFINE S == {u[2] : u \in V}
  <2>1. S \in SUBSET Nat /\ S # {}
    BY <1>1
  <2> HIDE DEF S
  <2>2. \E m \in S : \A k \in S : m <= k
    BY <2>1, LeastNumber
  <2>3. QED
    BY <2>2 DEF S
<1> DEFINE W == {u \in V : u[2] = b}
<1>3. PICK c \in {u[3] : u \in W} : \A n \in {u[3] : u \in W} : c <= n
  <2> DEFINE S == {u[3] : u \in W}
  <2>1. S \in SUBSET Nat /\ S # {}
    BY <1>2
  <2> HIDE DEF S
  <2>2. \E m \in S : \A k \in S : m <= k
    BY <2>1, LeastNumber
  <2>3. QED
    BY <2>2 DEF S
<1>4. PICK t \in W : t[3] = c
  BY <1>3
<1>5. \A u \in U : ~Earlier(u, t)
  <2>1. SUFFICES ASSUME NEW u \in U, Earlier(u, t) PROVE FALSE
    OBVIOUS
  <2>2. t[1] = a /\ t[2] = b /\ t[3] = c /\ t \in Nat \X Nat \X Nat /\ u \in Nat \X Nat \X Nat
    BY <1>4
  <2>3. a <= u[1]
    BY <1>1
  <2>4. u[1] = a => b <= u[2]
    BY <1>2
  <2>5. u[1] = a /\ u[2] = b => c <= u[3]
    BY <1>3
  <2>6. QED
    BY <2>1, <2>2, <2>3, <2>4, <2>5 DEF Earlier
<1>6. QED
  BY <1>4, <1>5

(* The prerequisites written are those of the packages' descriptions.        *)
MkInv ==
  /\ package \in Metadata
  /\ mk # None => mk = [src \in Sources(package) |-> Deplines(package, src)]

(* Every word whose condition is met has a prerequisite of its own, or that of a *)
(* turn before it that noted the same provider.                                  *)
LEMMA Compiled ==
  ASSUME MetadataAssumption, MkInv, NegatedOptions(package), OneSource(package), mk # None,
         NEW v \in Values, NEW p \in Listed, NEW d \in WordsOf(package, p),
         d.on.sym \notin Option, Holds(d.cond, v),
         NEW q \in Range(Wanted(package, d.on.sym)), d.on.sym \in Virtual => v[q] # no
  PROVE  \/ package.src[q] \in {package.src[p], "base-files"}
         \/ \E l \in mk[package.src[p]] :
              l.idx = package.src[q] /\ ConditionalDep(l.cond, v) /\ ConditionalDep(l.guard, v)
<1> DEFINE M == package
           src == M.src[p]
           name == d.on.sym
<1>1. Described(M) /\ p \in Packages /\ M.depends[p] \in Seq(AnyWord) /\ d \in AnyWord
  BY RangeEquality DEF MetadataAssumption, MkInv, Listed, Described, WordsOf, Range
<1>2. PICK i \in DOMAIN Package : Package[i] = p
  BY <1>1 DEF Packages, Range
<1>3. PICK j \in DOMAIN M.depends[p] : M.depends[p][j] = d
  BY DEF WordsOf, Range
<1>4. PICK k \in DOMAIN Wanted(M, name) : Wanted(M, name)[k] = q
  BY DEF Range
<1> DEFINE t == <<i, j, k>>
<1>5. t \in Turns(M, src)
  BY <1>2, <1>3, <1>4 DEF Turns
<1>6. WordAt(M, t) = d /\ NameAt(M, t) = name /\ DepAt(M, t) = q
  BY <1>2, <1>3, <1>4 DEF WordAt, NameAt, DepAt
<1>7. IdxAt(M, t) = M.src[q]
  <2>1. CASE name \in Virtual
    <3>1. Wanted(M, name) = M.providers[name] /\ M.providers[name] \in Seq(Packages) /\ M.providers[name] # <<>>
      BY <1>1, <2>1 DEF Wanted, Described
    <3>2. Wanted(M, name)[1] \in Range(M.providers[name])
      BY <3>1 DEF Range
    <3>3. QED
      BY <1>1, <1>6, <2>1, <3>1, <3>2 DEF IdxAt, OneSource
  <2>2. CASE name \notin Virtual
    <3>1. Wanted(M, name) = <<name>> /\ q = name
      BY <1>4, <2>2 DEF Wanted
    <3>2. QED
      BY <1>6, <3>1 DEF IdxAt
  <2>3. QED
    BY <2>1, <2>2
<1>8. mk[src] = Deplines(M, src)
  <2>1. src \in Sources(M)
    BY <1>1 DEF Sources
  <2>2. QED
    BY <2>1 DEF MkInv
<1>9. SUFFICES ASSUME M.src[q] \notin {src, "base-files"}
      PROVE  \E l \in Deplines(M, src) : l.idx = M.src[q] /\ ConditionalDep(l.cond, v) /\ ConditionalDep(l.guard, v)
  BY <1>8
<1>10. ConditionalDep(d.cond, v)
  <2>1. CASE d.cond = None
    BY <2>1 DEF ConditionalDep
  <2>2. CASE d.cond # None
    <3>1. d.cond \in Literals /\ d.cond \in Conditions(M) /\ LitValue(d.cond, v) # no
      BY <1>1, <2>2 DEF AnyWord, Conditions, Holds
    <3>2. CASE d.cond.neg = FALSE
      BY <3>1, <3>2 DEF ConditionalDep, LitValue
    <3>3. CASE d.cond.neg = TRUE
      <4>1. d.cond.sym \in Option
        BY <3>1, <3>3 DEF NegatedOptions
      <4>2. v[d.cond.sym] \in {no, yes}
        BY <4>1 DEF Values
      <4>3. v[d.cond.sym] = no
        BY <3>1, <3>3, <4>2 DEF LitValue, no, yes
      <4>4. (v[d.cond.sym] = no) = TRUE
        BY <4>3
      <4>5. QED
        BY <3>3, <4>4, Zenon DEF ConditionalDep
    <3>4. QED
      BY <3>1, <3>2, <3>3 DEF Literals
  <2>3. QED
    BY <2>1, <2>2
<1>11. CASE ~NotedBefore(M, src, t)
  <2>1. Depline(M, t) \in Deplines(M, src)
    BY <1>5, <1>7, <1>9, <1>11 DEF Deplines
  <2>2. ConditionalDep(Depline(M, t).guard, v)
    <3>1. CASE name \in Virtual
      BY <1>6, <3>1 DEF Depline, ConditionalDep, Lit
    <3>2. CASE name \notin Virtual
      BY <1>6, <3>2 DEF Depline, ConditionalDep
    <3>3. QED
      BY <3>1, <3>2
  <2>3. QED
    BY <1>6, <1>7, <1>10, <2>1, <2>2 DEF Depline
<1>12. CASE NotedBefore(M, src, t)
  <2> DEFINE U == {u \in Turns(M, src) : NameAt(M, u) \in Virtual /\ DepAt(M, u) = q /\ IdxAt(M, u) = M.src[q]}
  <2>1. name \in Virtual /\ t \in U
    BY <1>5, <1>6, <1>7, <1>12 DEF NotedBefore
  <2>2. Turns(M, src) \subseteq Nat \X Nat \X Nat
    <3>1. \A n \in DOMAIN Package : n \in Nat /\ Package[n] \in Packages
      BY DEF MetadataAssumption
    <3>2. \A a \in Packages : M.depends[a] \in Seq(AnyWord)
      BY <1>1 DEF Described
    <3>3. \A a \in Packages : \A n \in DOMAIN M.depends[a] : n \in Nat
      BY <3>2
    <3>4. \A x : \A n \in DOMAIN Wanted(M, x) : n \in Nat
      BY <1>1 DEF Wanted, Described
    <3>5. QED
      BY <3>1, <3>3, <3>4 DEF Turns
  <2>3. PICK u \in U : \A x \in U : ~Earlier(x, u)
    <3>1. U \in SUBSET (Nat \X Nat \X Nat) /\ U # {}
      BY <2>1, <2>2
    <3> HIDE DEF U
    <3>2. QED
      BY <3>1, FirstTurn
  <2>4. ~NotedBefore(M, src, u)
    BY <2>3 DEF NotedBefore
  <2>5. Depline(M, u) \in Deplines(M, src)
    BY <1>9, <2>3, <2>4 DEF Deplines
  <2>6. WordAt(M, u).cond = None
    <3>1. Package[u[1]] \in Packages /\ WordAt(M, u) \in WordsOf(M, Package[u[1]])
      <4>1. u[1] \in DOMAIN Package /\ u[2] \in DOMAIN M.depends[Package[u[1]]]
        BY <2>3 DEF Turns
      <4>2. QED
        BY <4>1 DEF Packages, Range, WordAt, WordsOf
    <3>2. QED
      BY <2>3, <3>1 DEF OneSource, NameAt
  <2>7. QED
    BY <2>1, <2>3, <2>5, <2>6 DEF Depline, ConditionalDep, Lit
<1>13. QED
  BY <1>11, <1>12

LEMMA AllCompiled ==
  ASSUME MetadataAssumption, MkInv PROVE NegatedOptions(package) /\ OneSource(package) => CompiledBefore
<1>1. SUFFICES ASSUME NegatedOptions(package), OneSource(package), mk # None, NEW v \in Values,
                      NEW p \in Listed, NEW d \in WordsOf(package, p), d.on.sym \notin Option, Holds(d.cond, v),
                      NEW q \in Range(Wanted(package, d.on.sym)), d.on.sym \in Virtual => v[q] # no
      PROVE  package.src[q] \in {l.idx : l \in {k \in mk[package.src[p]] :
                                    ConditionalDep(k.cond, v) /\ ConditionalDep(k.guard, v)}}
                                \cup {package.src[p], "base-files"}
  BY DEF CompiledBefore
<1>2. QED
  BY <1>1, Compiled

-----------------------------------------------------------------------------
(* What one turn of the loop of mconf_depends changes. *)

(* The types of what mconf_depends keeps.                                     *)
Conds == {None} \cup Literals
Asked == [sym : Packages \cup Option \cup Virtual, neg : BOOLEAN]
CallType == [of : Packages, only_dep : BOOLEAN, cond : Seq(Literals)]
LineType == [form : {"plain", "if", "unless"}, any : SUBSET Asked, cond : Seq(Literals)]
GenType ==
  [select : SUBSET LineType, depends : SUBSET LineType,
   seen : SUBSET (Seq(Literals) \X Conds \X Asked), t_depends : Seq(CallType)]

(* All lines of a package.                                                    *)
Lines(w) == w.select \cup w.depends

(* The line of a word that selects.                                           *)
SelectLine(on, condition) == Line(IF condition = <<>> THEN "plain" ELSE "if", {on}, condition)

(* What a turn leaves of the lines.                                           *)
Kept(w, x) == x.select = w.select /\ x.depends = w.depends
SaysDepends(w, x, line) ==
  x.select = w.select /\ line \in Lines(x) /\ x.depends \in {w.depends, w.depends \cup {line}}
SaysSelect(w, x, line) == x.select = w.select \cup {line} /\ x.depends = w.depends \ {line}

(* A turn that is not passed over.                                            *)
Turned(M, p, call, w, d, x) ==
  LET condition == Under(p, call.cond, d.cond)
  IN  /\ ~Skipped(w, call.cond, d)
      /\ x.seen = w.seen \cup {<<call.cond, d.cond, d.on>>}
      /\ \/ d.on.sym \in M.buildonly /\ Kept(w, x) /\ x.t_depends = w.t_depends
         \/ /\ d.on.sym \notin M.buildonly /\ d.on.sym \in Virtual
            /\ SaysDepends(w, x, Providers(M, d.on.sym)) /\ x.t_depends = w.t_depends
         \/ /\ d.on.sym \notin M.buildonly \cup Virtual /\ d.plus
            /\ x.t_depends = IF d.on.sym \in Packages THEN Append(w.t_depends, Call(d.on.sym, TRUE, condition))
                             ELSE w.t_depends
            /\ \/ (call.only_dep \/ condition = <<d.on>>) /\ Kept(w, x)
               \/ ~call.only_dep /\ condition # <<d.on>> /\ SaysSelect(w, x, SelectLine(d.on, condition))
         \/ /\ d.on.sym \notin M.buildonly \cup Virtual /\ ~d.plus /\ x.t_depends = w.t_depends
            /\ \/ (condition = <<>> \/ Selects(w, condition)) /\ SaysDepends(w, x, Plain({d.on}))
               \/ SaysDepends(w, x, Line("unless", {d.on}, condition))

LEMMA LitIsLiteral == \A s \in Packages \cup Option : Lit(s) \in Literals
BY DEF Lit, Literals

LEMMA RangeAppend ==
  ASSUME NEW T, NEW s \in Seq(T), NEW e \in T
  PROVE  Range(Append(s, e)) = Range(s) \cup {e}
<1>1. Append(s, e) = s \o <<e>> /\ <<e>> \in Seq(T)
  BY AppendIsConcat
<1>2. Range(<<e>>) = {e}
  BY DEF Range
<1>3. Range(s \o <<e>>) = Range(s) \cup Range(<<e>>)
  BY <1>1, RangeConcatenation
<1>4. QED
  BY <1>1, <1>2, <1>3

(* The condition of a word within that of the package selected.               *)
LEMMA UnderOf ==
  ASSUME NEW p \in Packages, NEW parent \in Seq(Literals), NEW c \in Conds
  PROVE  /\ Under(p, parent, c) \in Seq(Literals)
         /\ c \in {None, Lit(p)} => Under(p, parent, c) = parent
         /\ c \notin {None, Lit(p)} =>
              Under(p, parent, c) # <<>> /\ Range(Under(p, parent, c)) = Range(parent) \cup {c}
<1>1. CASE c \in {None, Lit(p)}
  BY <1>1 DEF Under
<1>2. CASE c \notin {None, Lit(p)}
  <2>1. c \in Literals /\ Under(p, parent, c) = Append(parent, c)
    BY <1>2 DEF Under, Conds
  <2>2. Append(parent, c) \in Seq(Literals) /\ Append(parent, c) # <<>> /\ Len(Append(parent, c)) = Len(parent) + 1
    BY <2>1
  <2>3. Range(Append(parent, c)) = Range(parent) \cup {c}
    BY <2>1, RangeAppend
  <2>4. QED
    BY <1>2, <2>1, <2>2, <2>3
<1>3. QED
  BY <1>1, <1>2

LEMMA PlainType ==
  /\ \A any \in SUBSET Asked : Plain(any) \in LineType
  /\ \A any \in SUBSET Asked, c \in Seq(Literals), f \in {"plain", "if", "unless"} : Line(f, any, c) \in LineType
<1>1. <<>> \in Seq(Literals)
  OBVIOUS
<1>2. QED
  BY <1>1 DEF Plain, Line, LineType

LEMMA ProvidersType ==
  ASSUME NEW M, Described(M), NEW name \in Virtual
  PROVE  Providers(M, name) \in LineType
<1>1. Range(M.providers[name]) \subseteq Packages
  BY RangeOfSeq DEF Described
<1>2. {Lit(p) : p \in Range(M.providers[name])} \in SUBSET Asked
  <2>1. \A p \in Packages : Lit(p) \in Asked
    BY DEF Lit, Asked
  <2>2. QED
    BY <1>1, <2>1
<1>3. QED
  BY <1>2, PlainType DEF Providers

(* What noting a line changes.                                                *)
LEMMA NotesDepends ==
  ASSUME NEW w \in GenType, NEW line \in LineType
  PROVE  LET x == NoteDepends(w, line)
         IN  x \in GenType /\ x.seen = w.seen /\ x.t_depends = w.t_depends /\ SaysDepends(w, x, line)
<1>1. CASE line \in w.select
  BY <1>1 DEF NoteDepends, SaysDepends, Lines
<1>2. CASE line \notin w.select
  <2>1. NoteDepends(w, line) = [w EXCEPT !.depends = @ \cup {line}]
    BY <1>2 DEF NoteDepends
  <2>2. QED
    BY <2>1 DEF GenType, SaysDepends, Lines
<1>3. QED
  BY <1>1, <1>2

LEMMA NotesSelect ==
  ASSUME NEW w \in GenType, NEW line \in LineType
  PROVE  LET x == NoteSelect(w, line)
         IN  x \in GenType /\ x.seen = w.seen /\ x.t_depends = w.t_depends /\ SaysSelect(w, x, line)
<1> DEFINE x == NoteSelect(w, line)
<1>1. x = [w EXCEPT !.select = @ \cup {line}, !.depends = @ \ {line}]
  BY DEF NoteSelect
<1>2. x.seen = w.seen /\ x.t_depends = w.t_depends /\ x.select = w.select \cup {line} /\ x.depends = w.depends \ {line}
  BY <1>1 DEF GenType
<1>3. x = [select |-> x.select, depends |-> x.depends, seen |-> x.seen, t_depends |-> x.t_depends]
  BY <1>1, <1>2 DEF GenType
<1>4. x.select \in SUBSET LineType /\ x.depends \in SUBSET LineType
      /\ x.seen \in SUBSET (Seq(Literals) \X Conds \X Asked) /\ x.t_depends \in Seq(CallType)
  BY <1>2 DEF GenType
<1>5. x \in GenType
  <2> HIDE DEF x
  <2> QED BY <1>3, <1>4, Zenon DEF GenType
<1>6. QED
  BY <1>2, <1>5 DEF SaysSelect

(* One turn: the word is passed over, or it is met and says something.        *)
LEMMA TurnCases ==
  ASSUME MetadataAssumption, NEW M, Described(M), NEW p \in Packages, NEW call \in CallType,
         NEW w \in GenType, NEW d \in AnyWord
  PROVE  LET x == Turn(M, p, call, w, d)
         IN  /\ x \in GenType
             /\ (Skipped(w, call.cond, d) /\ x = w) \/ Turned(M, p, call, w, d, x)
<1> DEFINE x == Turn(M, p, call, w, d)
           condition == Under(p, call.cond, d.cond)
           key == <<call.cond, d.cond, d.on>>
           s == [w EXCEPT !.seen = @ \cup {key}]
<1> SUFFICES x \in GenType /\ ((Skipped(w, call.cond, d) /\ x = w) \/ Turned(M, p, call, w, d, x))
  OBVIOUS
<1>0. M.buildonly \cap Virtual = {}
  BY DEF MetadataAssumption, Described
<1>1. call.cond \in Seq(Literals) /\ d.cond \in Conds /\ d.on \in Asked /\ key \in Seq(Literals) \X Conds \X Asked
  BY DEF CallType, AnyWord, Conds, Asked
<1>2. condition \in Seq(Literals)
  BY <1>1, UnderOf
<1>3. s \in GenType /\ s.seen = w.seen \cup {key} /\ s.t_depends = w.t_depends /\ Kept(w, s)
  BY <1>1 DEF GenType, Kept
<1>4. CASE Skipped(w, call.cond, d)
  <2>1. x = w
    BY <1>4 DEF Turn
  <2>2. QED
    BY <1>4, <2>1
<1>5. CASE ~Skipped(w, call.cond, d) /\ d.on.sym \in M.buildonly
  <2>1. x = s
    BY <1>0, <1>5 DEF Turn
  <2>2. QED
    BY <1>3, <1>5, <2>1 DEF Turned
<1>6. CASE ~Skipped(w, call.cond, d) /\ d.on.sym \notin M.buildonly /\ d.on.sym \in Virtual
  <2>1. x = NoteDepends(s, Providers(M, d.on.sym))
    BY <1>0, <1>6 DEF Turn
  <2>2. Providers(M, d.on.sym) \in LineType
    BY <1>6, ProvidersType
  <2>3. x \in GenType /\ x.seen = s.seen /\ x.t_depends = s.t_depends /\ SaysDepends(s, x, Providers(M, d.on.sym))
    BY <1>3, <2>1, <2>2, NotesDepends
  <2> HIDE DEF x
  <2>4. QED
    BY <1>3, <1>6, <2>3 DEF Turned, Kept, SaysDepends, Lines
<1>7. CASE ~Skipped(w, call.cond, d) /\ d.on.sym \notin M.buildonly \cup Virtual /\ d.plus
  <2> DEFINE c == Chased(s, d, condition)
  <2>1. x = Selected(c, d, call.only_dep, condition)
    BY <1>7 DEF Turn
  <2>2. /\ c \in GenType /\ c.seen = s.seen /\ Kept(s, c)
        /\ c.t_depends = IF d.on.sym \in Packages THEN Append(w.t_depends, Call(d.on.sym, TRUE, condition))
                         ELSE w.t_depends
    <3>1. CASE d.on.sym \in Packages
      <4>1. Call(d.on.sym, TRUE, condition) \in CallType
        BY <1>2, <3>1 DEF Call, CallType
      <4>2. c = [s EXCEPT !.t_depends = Append(@, Call(d.on.sym, TRUE, condition))]
        BY <3>1 DEF Chased
      <4> HIDE DEF s, c, condition
      <4>3. Append(s.t_depends, Call(d.on.sym, TRUE, condition)) \in Seq(CallType)
        <5>1. s.t_depends \in Seq(CallType)
          BY <1>3 DEF GenType
        <5> DEFINE e == Call(d.on.sym, TRUE, condition)
        <5>2. e \in CallType
          BY <4>1
        <5> HIDE DEF e
        <5>3. Append(s.t_depends, e) \in Seq(CallType)
          BY <5>1, <5>2
        <5>4. QED
          BY <5>3 DEF e
      <4>4. QED
        BY <1>3, <3>1, <4>2, <4>3 DEF GenType, Kept
    <3>2. CASE d.on.sym \notin Packages
      <4>1. c = s
        BY <3>2 DEF Chased
      <4>2. QED
        BY <1>3, <3>2, <4>1 DEF Kept
    <3>3. QED
      BY <3>1, <3>2
  <2>3. CASE call.only_dep \/ condition = <<d.on>>
    <3>1. x = c
      BY <2>1, <2>3 DEF Selected
    <3> HIDE DEF x, c, s
    <3>2. QED
      BY <1>3, <1>7, <2>2, <2>3, <3>1 DEF Turned, Kept
  <2>4. CASE ~(call.only_dep \/ condition = <<d.on>>)
    <3>1. x = NoteSelect(c, SelectLine(d.on, condition))
      BY <2>1, <2>4 DEF Selected, SelectLine
    <3>2. SelectLine(d.on, condition) \in LineType
      BY <1>1, <1>2, PlainType DEF SelectLine
    <3> HIDE DEF c
    <3>3. x \in GenType /\ x.seen = c.seen /\ x.t_depends = c.t_depends /\ SaysSelect(c, x, SelectLine(d.on, condition))
      BY <2>2, <3>1, <3>2, NotesSelect
    <3> HIDE DEF x, s
    <3>4. QED
      BY <1>3, <1>7, <2>2, <2>4, <3>3 DEF Turned, Kept, SaysSelect
  <2>5. QED
    BY <2>3, <2>4
<1>8. CASE ~Skipped(w, call.cond, d) /\ d.on.sym \notin M.buildonly \cup Virtual /\ ~d.plus
  <2>1. x = DependedOn(s, d, condition)
    BY <1>8 DEF Turn
  <2>2. Selects(s, condition) = Selects(w, condition)
    BY <1>3 DEF Selects, Kept
  <2> DEFINE line == IF condition = <<>> \/ Selects(s, condition) THEN Plain({d.on})
                     ELSE Line("unless", {d.on}, condition)
  <2>3. line \in LineType
    BY <1>1, <1>2, PlainType
  <2>4. x = NoteDepends(s, line)
    BY <2>1 DEF DependedOn
  <2>5. \/ (condition = <<>> \/ Selects(w, condition)) /\ line = Plain({d.on})
        \/ line = Line("unless", {d.on}, condition)
    BY <2>2
  <2> HIDE DEF line
  <2>6. x \in GenType /\ x.seen = s.seen /\ x.t_depends = s.t_depends /\ SaysDepends(s, x, line)
    BY <1>3, <2>3, <2>4, NotesDepends
  <2> HIDE DEF x, s
  <2>7. SaysDepends(w, x, line)
    BY <1>3, <2>6 DEF SaysDepends, Kept
  <2>8. QED
    BY <1>3, <1>8, <2>5, <2>6, <2>7 DEF Turned, Kept
<1>9. QED
  BY <1>4, <1>5, <1>6, <1>7, <1>8

-----------------------------------------------------------------------------
(* What holds of the lines while mconf_depends is at work. *)

(* All words of a package were met under a condition; and they are or will be. *)
HeardAll(M, w, of, cond) == \A d \in WordsOf(M, of) : Skipped(w, cond, d)
Followed(M, w, C, s, cond) == s \in Packages => Call(s, TRUE, cond) \in C \/ HeardAll(M, w, s, cond)

(* What became of a word that was met: a line that asks for what it names;     *)
(* it is selected; or it is taken along by a package that is.                 *)
AsksFor(w, on, cond) == Plain({on}) \in Lines(w) \/ Line("unless", {on}, cond) \in Lines(w)
Takes(M, w, C, on, cond) ==
  (cond = <<on>> \/ SelectLine(on, cond) \in w.select) /\ Followed(M, w, C, on.sym, cond)
SaysTake(M, b, i, cond, on) ==
  LET d == M.depends[b][i]
  IN  First(M, b, i) /\ d.plus /\ d.cond = cond /\ d.on = on
TakenBy(M, p, parent, cond, on) ==
  /\ \E b \in Chosen(M) : \E i \in DOMAIN M.depends[b] : SaysTake(M, b, i, cond, on)
  /\ parent # <<>> \/ \A d \in WordsOf(M, p) : d.cond # cond \/ d.on # on
Told(M, p, w, C, parent, cond, on) ==
  LET condition == Under(p, parent, cond)
  IN  \/ on.sym \in M.buildonly
      \/ on.sym \in Virtual /\ Providers(M, on.sym) \in Lines(w)
      \/ /\ on.sym \notin M.buildonly \cup Virtual
         /\ \/ AsksFor(w, on, condition)
            \/ Takes(M, w, C, on, condition)
            \/ Followed(M, w, C, on.sym, condition) /\ TakenBy(M, p, parent, cond, on)
ToldInv(M, p, w, C) == \A k \in w.seen : Told(M, p, w, C, k[1], k[2], k[3])

(* The calls: the first is for the package itself, the others are for those    *)
(* taken along.                                                               *)
NoneProvided(M, o) ==
  \E S \in SUBSET Packages : o \in S /\ Closed(M, S) /\ \A q \in S : \A e \in WordsOf(M, q) : e.on.sym \notin Virtual
CallOf(M, p, c) ==
  /\ Range(c.cond) \subseteq Conditions(M)
  /\ \/ c = Call(p, FALSE, <<>>)
     \/ c.only_dep /\ c.of \in Chosen(M) /\ (c.cond # <<>> => NoneProvided(M, c.of))
CallInv(M, p, C) == \A c \in C : CallOf(M, p, c)

SelectOf(M, p, w, C, line, d) ==
  LET condition == Under(p, <<>>, d.cond)
  IN  d.plus /\ d.on.sym \in Taken(M) /\ line = SelectLine(d.on, condition) /\ Followed(M, w, C, d.on.sym, condition)
SelectInv(M, p, w, C) == \A line \in w.select : \E d \in WordsOf(M, p) : SelectOf(M, p, w, C, line, d)

FormOf(M, line) ==
  /\ line.any \subseteq Literals /\ line.any # {}
  /\ Range(line.cond) \subseteq Conditions(M)
  /\ line.form = "unless" \/ (line.form = "plain" /\ line.cond = <<>>)
FormInv(M, w) == \A line \in w.depends : FormOf(M, line)

(* The packages that p takes along where the conditions Met hold.             *)
Gathered(M, p, S, Met) ==
  /\ p \in S /\ Lit(p) \in Met /\ Always(M, p) \subseteq Met
  /\ \A a \in S : \A d \in WordsOf(M, a) :
       d.plus /\ d.cond \in Met \cup {None} /\ d.on.sym \in Packages \ M.buildonly => d.on.sym \in S
(* A line is what a word says where the conditions Met hold.                  *)
Source(M, a, i, line, Met) ==
  LET d == M.depends[a][i]
  IN  /\ First(M, a, i) /\ d.on.sym \notin M.buildonly
      /\ d.on.sym \in Virtual => line = Providers(M, d.on.sym)
      /\ d.on.sym \notin Virtual => ~d.plus /\ line.any = {d.on} /\ d.cond \in Met \cup {None}
CallsSound(C, S, Met) == \A c \in C : Range(c.cond) \subseteq Met => c.of \in S
LinesSound(M, w, S, Met) ==
  \A line \in w.depends : Range(line.cond) \subseteq Met =>
    \E a \in S : \E i \in DOMAIN M.depends[a] : Source(M, a, i, line, Met)
SoundInv(M, p, w, C) ==
  \A S \in SUBSET Packages : \A Met \in SUBSET Literals :
    Gathered(M, p, S, Met) => CallsSound(C, S, Met) /\ LinesSound(M, w, S, Met)

RunInv(M, p, w, C) ==
  /\ w \in GenType /\ C \in SUBSET CallType
  /\ CallInv(M, p, C) /\ SelectInv(M, p, w, C) /\ FormInv(M, w) /\ SoundInv(M, p, w, C) /\ ToldInv(M, p, w, C)

(* One turn, with the calls pending before and after it.                      *)
WordOf(M, call, i) == M.depends[call.of][i]
Stepping(M, p, w, C, call, i, x, D) ==
  /\ Described(M) /\ ProvidedPlainly(M) /\ p \in Packages \ M.buildonly
  /\ RunInv(M, p, w, C) /\ Range(w.t_depends) \subseteq C
  /\ call \in C /\ i \in DOMAIN M.depends[call.of]
  /\ \A j \in 1..(i - 1) : Skipped(w, call.cond, WordOf(M, call, j))
  /\ call.only_dep => HeardAll(M, w, p, <<>>)
  /\ x = Turn(M, p, call, w, WordOf(M, call, i))
  /\ D = C \cup Range(x.t_depends)

(* What was met, told or put off stays so as more is noted and calls end.     *)
LEMMA SkippedGrows ==
  ASSUME NEW w, NEW x, w.seen \subseteq x.seen, NEW cond, NEW d, Skipped(w, cond, d)
  PROVE  Skipped(x, cond, d)
BY DEF Skipped

LEMMA FollowedGrows ==
  ASSUME NEW M, NEW w, NEW x, w.seen \subseteq x.seen, NEW C, NEW D, NEW s, NEW cond,
         \A c \in C \ D : HeardAll(M, w, c.of, c.cond), Followed(M, w, C, s, cond)
  PROVE  Followed(M, x, D, s, cond)
<1>1. SUFFICES ASSUME s \in Packages, Call(s, TRUE, cond) \notin D PROVE HeardAll(M, x, s, cond)
  BY DEF Followed
<1>2. HeardAll(M, w, s, cond)
  <2>1. CASE Call(s, TRUE, cond) \in C
    <3>1. HeardAll(M, w, Call(s, TRUE, cond).of, Call(s, TRUE, cond).cond)
      BY <1>1, <2>1
    <3>2. QED
      BY <3>1 DEF Call
  <2>2. QED
    BY <1>1, <2>1 DEF Followed
<1>3. QED
  BY <1>2, SkippedGrows DEF HeardAll

LEMMA ToldGrows ==
  ASSUME NEW M, NEW p, NEW w, NEW x, w.seen \subseteq x.seen, w.select \subseteq x.select,
         Lines(w) \subseteq Lines(x), NEW C, NEW D, \A c \in C \ D : HeardAll(M, w, c.of, c.cond),
         NEW parent, NEW cond, NEW on, Told(M, p, w, C, parent, cond, on)
  PROVE  Told(M, p, x, D, parent, cond, on)
<1> DEFINE condition == Under(p, parent, cond)
<1>1. Followed(M, w, C, on.sym, condition) => Followed(M, x, D, on.sym, condition)
  BY FollowedGrows
<1>2. AsksFor(w, on, condition) => AsksFor(x, on, condition)
  BY DEF AsksFor
<1>3. Takes(M, w, C, on, condition) => Takes(M, x, D, on, condition)
  BY <1>1 DEF Takes
<1>4. QED
  BY <1>1, <1>2, <1>3 DEF Told

LEMMA SelectGrows ==
  ASSUME NEW M, NEW p, NEW w, NEW x, w.seen \subseteq x.seen, NEW C, NEW D,
         \A c \in C \ D : HeardAll(M, w, c.of, c.cond), NEW line, NEW d, SelectOf(M, p, w, C, line, d)
  PROVE  SelectOf(M, p, x, D, line, d)
BY FollowedGrows DEF SelectOf

(* What a turn is given.                                                      *)
LEMMA SteppingTypes ==
  ASSUME MetadataAssumption, NEW M, NEW p, NEW w, NEW C, NEW call, NEW i, NEW x, NEW D,
         Stepping(M, p, w, C, call, i, x, D)
  PROVE  LET d == WordOf(M, call, i)
         IN  /\ M.depends \in [Packages -> Seq(AnyWord)] /\ p \in Packages /\ w \in GenType /\ call \in CallType
             /\ call.of \in Packages /\ call.cond \in Seq(Literals)
             /\ d \in AnyWord /\ d \in WordsOf(M, call.of) /\ d.cond \in Conds /\ d.on \in Asked
             /\ Under(p, call.cond, d.cond) \in Seq(Literals)
             /\ x \in GenType /\ w.seen \subseteq x.seen /\ w.select \subseteq x.select /\ Lines(w) \subseteq Lines(x)
             /\ C \subseteq D /\ D \in SUBSET CallType /\ Skipped(x, call.cond, d)
             /\ (Skipped(w, call.cond, d) /\ x = w /\ D = C) \/ Turned(M, p, call, w, d, x)
<1> DEFINE d == WordOf(M, call, i)
<1>1. /\ Described(M) /\ p \in Packages /\ w \in GenType /\ C \subseteq CallType /\ call \in CallType
      /\ i \in DOMAIN M.depends[call.of] /\ Range(w.t_depends) \subseteq C
      /\ x = Turn(M, p, call, w, d) /\ D = C \cup Range(x.t_depends)
  BY DEF Stepping, RunInv
<1>2. M.depends \in [Packages -> Seq(AnyWord)] /\ call.of \in Packages /\ call.cond \in Seq(Literals)
  BY <1>1 DEF Described, CallType
<1>3. M.depends[call.of] \in Seq(AnyWord)
  BY <1>2
<1>4. d \in AnyWord /\ d \in WordsOf(M, call.of)
  BY <1>1, <1>3 DEF WordOf, WordsOf, Range
<1>5. d.cond \in Conds /\ d.on \in Asked
  BY <1>4 DEF AnyWord, Conds, Asked
<1>6. Under(p, call.cond, d.cond) \in Seq(Literals)
  BY <1>1, <1>2, <1>5, UnderOf
<1>7. x \in GenType /\ ((Skipped(w, call.cond, d) /\ x = w) \/ Turned(M, p, call, w, d, x))
  BY <1>1, <1>4, TurnCases
<1>8. D \in SUBSET CallType
  <2>1. x.t_depends \in Seq(CallType)
    BY <1>7 DEF GenType
  <2>2. Range(x.t_depends) \subseteq CallType
    BY <2>1, RangeOfSeq
  <2>3. QED
    BY <1>1, <2>2
<1> HIDE DEF d
<1>9. CASE Skipped(w, call.cond, d) /\ x = w
  BY <1>1, <1>2, <1>4, <1>5, <1>6, <1>7, <1>8, <1>9 DEF d
<1>10. CASE Turned(M, p, call, w, d, x)
  <2>1. x.seen = w.seen \cup {<<call.cond, d.cond, d.on>>}
    BY <1>10 DEF Turned
  <2>2. Skipped(x, call.cond, d)
    BY <2>1 DEF Skipped
  <2>3. w.select \subseteq x.select /\ Lines(w) \subseteq Lines(x)
    BY <1>10 DEF Turned, Kept, SaysDepends, SaysSelect, Lines
  <2>4. QED
    BY <1>1, <1>2, <1>4, <1>5, <1>6, <1>7, <1>8, <1>10, <2>1, <2>2, <2>3 DEF d
<1>11. QED
  BY <1>7, <1>9, <1>10

(* The calls that a turn adds.                                                *)
LEMMA SteppingCalls ==
  ASSUME MetadataAssumption, NEW M, NEW p, NEW w, NEW C, NEW call, NEW i, NEW x, NEW D,
         Stepping(M, p, w, C, call, i, x, D), Turned(M, p, call, w, WordOf(M, call, i), x)
  PROVE  LET d == WordOf(M, call, i)
             e == Call(d.on.sym, TRUE, Under(p, call.cond, d.cond))
         IN  \/ d.on.sym \notin M.buildonly \cup Virtual /\ d.plus /\ d.on.sym \in Packages /\ D = C \cup {e}
             \/ ~(d.on.sym \notin M.buildonly \cup Virtual /\ d.plus /\ d.on.sym \in Packages) /\ D = C
<1> DEFINE d == WordOf(M, call, i)
           e == Call(d.on.sym, TRUE, Under(p, call.cond, d.cond))
<1>1. Range(w.t_depends) \subseteq C /\ D = C \cup Range(x.t_depends) /\ w.t_depends \in Seq(CallType)
  BY DEF Stepping, RunInv, GenType
<1>2. CASE d.on.sym \notin M.buildonly \cup Virtual /\ d.plus /\ d.on.sym \in Packages
  <2>1. x.t_depends = Append(w.t_depends, e)
    BY <1>2 DEF Turned
  <2>2. e \in CallType
    BY <1>2, SteppingTypes DEF Call, CallType
  <2> HIDE DEF e
  <2>3. Range(Append(w.t_depends, e)) = Range(w.t_depends) \cup {e}
    BY <1>1, <2>2, RangeAppend
  <2>4. QED
    BY <1>1, <1>2, <2>1, <2>3 DEF e
<1>3. CASE ~(d.on.sym \notin M.buildonly \cup Virtual /\ d.plus /\ d.on.sym \in Packages)
  <2>1. x.t_depends = w.t_depends
    BY <1>3 DEF Turned
  <2>2. QED
    BY <1>1, <1>3, <2>1
<1>4. QED
  BY <1>2, <1>3

(* What asks with a + is taken, and a package that is taken is chosen.        *)
LEMMA TakenOf ==
  ASSUME NEW M, NEW q \in Packages, NEW d \in WordsOf(M, q), d.plus, d.on.sym \notin M.buildonly \cup Virtual
  PROVE  d.on.sym \in Taken(M) /\ (d.on.sym \in Packages => d.on.sym \in Chosen(M))
<1>1. d \in {e \in UNION {WordsOf(M, r) : r \in Packages} : e.plus}
  OBVIOUS
<1>2. d.on.sym \in Taken(M)
  BY <1>1 DEF Taken
<1>3. QED
  BY <1>2 DEF Chosen

LEMMA ConditionOf ==
  ASSUME NEW M, NEW q \in Packages, NEW d \in WordsOf(M, q), d.cond # None
  PROVE  d.cond \in Conditions(M)
BY DEF Conditions

LEMMA UnderConditions ==
  ASSUME NEW M, NEW p \in Packages, NEW q \in Packages, NEW d \in WordsOf(M, q), d.cond \in Conds,
         NEW parent \in Seq(Literals), Range(parent) \subseteq Conditions(M)
  PROVE  Range(Under(p, parent, d.cond)) \subseteq Conditions(M)
<1>1. CASE d.cond \in {None, Lit(p)}
  BY <1>1, UnderOf
<1>2. CASE d.cond \notin {None, Lit(p)}
  BY <1>2, UnderOf, ConditionOf
<1>3. QED
  BY <1>1, <1>2

(* The calls a turn puts off are for packages that are taken along.           *)
LEMMA StepCalls ==
  ASSUME MetadataAssumption, NEW M, NEW p, NEW w, NEW C, NEW call, NEW i, NEW x, NEW D,
         Stepping(M, p, w, C, call, i, x, D)
  PROVE  CallInv(M, p, D)
<1> DEFINE d == WordOf(M, call, i)
           condition == Under(p, call.cond, d.cond)
           e == Call(d.on.sym, TRUE, condition)
<1>1. CallInv(M, p, C) /\ CallOf(M, p, call) /\ ProvidedPlainly(M)
  BY DEF Stepping, RunInv, CallInv
<1>2. /\ p \in Packages /\ call.of \in Packages /\ call.cond \in Seq(Literals) /\ d \in WordsOf(M, call.of)
      /\ d.cond \in Conds /\ ((D = C) \/ Turned(M, p, call, w, d, x))
  BY SteppingTypes
<1>3. CASE D = C
  BY <1>1, <1>3
<1>4. CASE D # C
  <2>1. d.on.sym \notin M.buildonly \cup Virtual /\ d.plus /\ d.on.sym \in Packages /\ D = C \cup {e}
    <3>1. Turned(M, p, call, w, d, x)
      BY <1>2, <1>4
    <3> DEFINE takes == d.on.sym \notin M.buildonly \cup Virtual /\ d.plus /\ d.on.sym \in Packages
    <3>2. (takes /\ D = C \cup {e}) \/ (~takes /\ D = C)
      BY <3>1, SteppingCalls, Zenon
    <3>3. QED
      BY <1>4, <3>2
  <2>2. d.on.sym \in Chosen(M)
    BY <1>2, <2>1, TakenOf
  <2>3. Range(condition) \subseteq Conditions(M)
    BY <1>1, <1>2, UnderConditions DEF CallOf
  <2>4. ASSUME condition # <<>> PROVE NoneProvided(M, d.on.sym)
    <3>1. CASE call.cond = <<>>
      <4>1. d.cond # None
        <5>1. d.cond = None => condition = call.cond
          BY <1>2, UnderOf
        <5>2. QED
          BY <2>4, <3>1, <5>1
      <4>2. QED
        BY <1>1, <1>2, <2>1, <4>1 DEF ProvidedPlainly, NoneProvided
    <3>2. CASE call.cond # <<>>
      <4>1. NoneProvided(M, call.of)
        BY <1>1, <3>2 DEF CallOf, Call
      <4>2. QED
        BY <1>2, <2>1, <4>1 DEF NoneProvided, Closed
    <3>3. QED
      BY <3>1, <3>2
  <2>5. e.of = d.on.sym /\ e.cond = condition /\ e.only_dep
    BY DEF Call
  <2> HIDE DEF e
  <2>6. CallOf(M, p, e)
    BY <2>2, <2>3, <2>4, <2>5 DEF CallOf
  <2>7. QED
    BY <1>1, <2>1, <2>6 DEF CallInv, e
<1>5. QED
  BY <1>3, <1>4

(* The first call is the one for the package's own words.                     *)
LEMMA TopCall ==
  ASSUME NEW M, NEW p, NEW call, CallOf(M, p, call), ~call.only_dep
  PROVE  call.of = p /\ call.cond = <<>>
BY DEF CallOf, Call

(* A line that selects is the one of a word of the package itself.            *)
LEMMA StepSelect ==
  ASSUME MetadataAssumption, NEW M, NEW p, NEW w, NEW C, NEW call, NEW i, NEW x, NEW D,
         Stepping(M, p, w, C, call, i, x, D)
  PROVE  SelectInv(M, p, x, D)
<1> DEFINE d == WordOf(M, call, i)
           condition == Under(p, call.cond, d.cond)
           e == Call(d.on.sym, TRUE, condition)
<1>1. SelectInv(M, p, w, C) /\ CallOf(M, p, call)
  BY DEF Stepping, RunInv, CallInv
<1>2. /\ p \in Packages /\ call.of \in Packages /\ d \in WordsOf(M, call.of)
      /\ w.seen \subseteq x.seen /\ C \subseteq D /\ ((x = w /\ D = C) \/ Turned(M, p, call, w, d, x))
  BY SteppingTypes
<1>3. \A line \in w.select : \E k \in WordsOf(M, p) : SelectOf(M, p, x, D, line, k)
  BY <1>1, <1>2, SelectGrows DEF SelectInv
<1>4. CASE x.select = w.select
  BY <1>3, <1>4 DEF SelectInv
<1>5. CASE x.select # w.select
  <2>1. /\ d.on.sym \notin M.buildonly \cup Virtual /\ d.plus /\ ~call.only_dep
        /\ x.select = w.select \cup {SelectLine(d.on, condition)}
    BY <1>2, <1>5 DEF Turned, Kept, SaysDepends, SaysSelect
  <2>2. call.of = p /\ call.cond = <<>>
    BY <1>1, <2>1, TopCall
  <2>3. d.on.sym \in Taken(M)
    BY <1>2, <2>1, TakenOf
  <2>4. Followed(M, x, D, d.on.sym, condition)
    <3>1. SUFFICES ASSUME d.on.sym \in Packages PROVE e \in D
      BY DEF Followed
    <3>2. QED
      <4>1. Turned(M, p, call, w, d, x)
        BY <1>2, <1>5
      <4>2. D = C \cup {e}
        BY <2>1, <3>1, <4>1, SteppingCalls
      <4>3. QED
        BY <4>2
  <2>5. SelectOf(M, p, x, D, SelectLine(d.on, condition), d)
    BY <2>1, <2>2, <2>3, <2>4 DEF SelectOf
  <2>6. QED
    BY <1>2, <1>3, <2>1, <2>2, <2>5 DEF SelectInv
<1>6. QED
  BY <1>4, <1>5

(* The lines a turn writes have the forms of dependencies.                    *)
LEMMA StepForm ==
  ASSUME MetadataAssumption, NEW M, NEW p, NEW w, NEW C, NEW call, NEW i, NEW x, NEW D,
         Stepping(M, p, w, C, call, i, x, D)
  PROVE  FormInv(M, x)
<1> DEFINE d == WordOf(M, call, i)
           condition == Under(p, call.cond, d.cond)
<1>1. FormInv(M, w) /\ CallOf(M, p, call)
  BY DEF Stepping, RunInv, CallInv
<1>2. /\ p \in Packages /\ call.of \in Packages /\ call.cond \in Seq(Literals) /\ d \in WordsOf(M, call.of)
      /\ d.cond \in Conds /\ (x = w \/ Turned(M, p, call, w, d, x))
  BY SteppingTypes
<1>3. Range(condition) \subseteq Conditions(M)
  BY <1>1, <1>2, UnderConditions DEF CallOf
<1>4. \A line \in x.depends \ w.depends : \/ line.form = "plain" /\ line.cond = <<>>
                                          \/ line.form = "unless" /\ line.cond = condition
  <2>1. SUFFICES ASSUME NEW line \in x.depends \ w.depends
        PROVE  (line.form = "plain" /\ line.cond = <<>>) \/ (line.form = "unless" /\ line.cond = condition)
    OBVIOUS
  <2>2. line \in {Providers(M, d.on.sym), Plain({d.on}), Line("unless", {d.on}, condition)}
    BY <1>2, <2>1 DEF Turned, Kept, SaysDepends, SaysSelect
  <2>3. QED
    BY <2>2 DEF Providers, Plain, Line
<1>5. \A line \in x.depends \ w.depends : line.any \subseteq Literals /\ line.any # {}
  <2>1. SUFFICES ASSUME NEW line \in x.depends \ w.depends PROVE line.any \subseteq Literals /\ line.any # {}
    OBVIOUS
  <2>2. CASE d.on.sym \in Virtual
    <3>1. line = Providers(M, d.on.sym)
      BY <1>2, <2>1, <2>2 DEF Turned, Kept, SaysDepends, SaysSelect
    <3>2. line.any = {Lit(r) : r \in Range(M.providers[d.on.sym])}
      BY <3>1 DEF Providers, Plain, Line
    <3>3. M.providers[d.on.sym] \in Seq(Packages) /\ M.providers[d.on.sym] # <<>>
      BY <2>2 DEF Stepping, Described
    <3>4. Range(M.providers[d.on.sym]) \subseteq Packages /\ M.providers[d.on.sym][1] \in Range(M.providers[d.on.sym])
      BY <3>3, RangeOfSeq DEF Range
    <3>5. QED
      BY <3>2, <3>4, LitIsLiteral
  <2>3. CASE d.on.sym \notin Virtual
    <3>1. line \in {Plain({d.on}), Line("unless", {d.on}, condition)}
      BY <1>2, <2>1, <2>3 DEF Turned, Kept, SaysDepends, SaysSelect
    <3>2. line.any = {d.on}
      BY <3>1 DEF Plain, Line
    <3>3. d.on \in Literals
      BY <2>3, SteppingTypes DEF Asked, Literals
    <3>4. QED
      BY <3>2, <3>3
  <2>4. QED
    BY <2>2, <2>3
<1>6. \A line \in x.depends \ w.depends : FormOf(M, line)
  <2>1. Range(<<>>) = {}
    BY DEF Range
  <2>2. QED
    BY <1>3, <1>4, <1>5, <2>1 DEF FormOf
<1>7. QED
  BY <1>1, <1>6 DEF FormInv

(* A word that is not passed over is the first of its kind.                   *)
LEMMA FirstOf ==
  ASSUME NEW M, NEW w, NEW call, NEW i,
         \A j \in 1..(i - 1) : Skipped(w, call.cond, WordOf(M, call, j)), ~Skipped(w, call.cond, WordOf(M, call, i))
  PROVE  First(M, call.of, i)
BY DEF First, Skipped, OptionItself, WordOf

(* Where the condition of what a turn says holds, so do those it is made of.  *)
LEMMA ConditionMet ==
  ASSUME NEW p \in Packages, NEW parent \in Seq(Literals), NEW c \in Conds, NEW Met, Lit(p) \in Met,
         Range(Under(p, parent, c)) \subseteq Met
  PROVE  Range(parent) \subseteq Met /\ c \in Met \cup {None}
<1>1. CASE c \in {None, Lit(p)}
  BY <1>1, UnderOf
<1>2. CASE c \notin {None, Lit(p)}
  BY <1>2, UnderOf
<1>3. QED
  BY <1>1, <1>2

(* What p selects without a condition it takes always.                        *)
LEMMA PlainSelects ==
  ASSUME NEW M, NEW p \in Packages, NEW w, NEW C, NEW c, SelectInv(M, p, w, C), Plain({c}) \in w.select,
         \A d \in WordsOf(M, p) : d.cond \in Conds
  PROVE  c \in Always(M, p)
<1>1. PICK d \in WordsOf(M, p) : SelectOf(M, p, w, C, Plain({c}), d)
  BY DEF SelectInv
<1> DEFINE condition == Under(p, <<>>, d.cond)
<1>2. d.plus /\ d.on.sym \in Taken(M) /\ Plain({c}) = SelectLine(d.on, condition)
  BY <1>1 DEF SelectOf
<1>3. Plain({c}).form = "plain" /\ Plain({c}).any = {c}
  BY DEF Plain, Line
<1>4. condition = <<>>
  BY <1>2, <1>3 DEF SelectLine, Line
<1>5. c = d.on
  <2>1. SelectLine(d.on, condition).any = {d.on}
    BY DEF SelectLine, Line
  <2>2. {c} = {d.on}
    BY <1>2, <1>3, <2>1, Zenon
  <2>3. QED
    BY <2>2
<1>6. d.cond \in {None, Lit(p)}
  <2>1. <<>> \in Seq(Literals)
    OBVIOUS
  <2>2. QED
    BY <1>4, <2>1, UnderOf
<1>7. QED
  BY <1>2, <1>5, <1>6 DEF Always

(* A turn writes no line and puts off no call that the packages gathered do not *)
(* account for.                                                                 *)
LEMMA StepSound ==
  ASSUME MetadataAssumption, NEW M, NEW p, NEW w, NEW C, NEW call, NEW i, NEW x, NEW D,
         Stepping(M, p, w, C, call, i, x, D)
  PROVE  SoundInv(M, p, x, D)
<1> DEFINE d == WordOf(M, call, i)
           condition == Under(p, call.cond, d.cond)
           e == Call(d.on.sym, TRUE, condition)
           takes == d.on.sym \notin M.buildonly \cup Virtual /\ d.plus /\ d.on.sym \in Packages
<1>0. Turned(M, p, call, w, d, x) => (takes /\ D = C \cup {e}) \/ (~takes /\ D = C)
  BY SteppingCalls, Zenon
<1>1. SUFFICES ASSUME NEW S \in SUBSET Packages, NEW Met \in SUBSET Literals, Gathered(M, p, S, Met)
      PROVE  CallsSound(D, S, Met) /\ LinesSound(M, x, S, Met)
  BY DEF SoundInv
<1>2. CallsSound(C, S, Met) /\ LinesSound(M, w, S, Met) /\ SelectInv(M, p, w, C) /\ CallOf(M, p, call) /\ call \in C
      /\ i \in DOMAIN M.depends[call.of]
  BY <1>1 DEF Stepping, RunInv, SoundInv, CallInv
<1>3. /\ p \in Packages /\ call.of \in Packages /\ call.cond \in Seq(Literals) /\ d \in WordsOf(M, call.of)
      /\ d.cond \in Conds /\ d.on \in Asked /\ condition \in Seq(Literals)
      /\ (x = w /\ D = C) \/ Turned(M, p, call, w, d, x)
  BY SteppingTypes
<1>4. ASSUME Range(condition) \subseteq Met PROVE call.of \in S /\ d.cond \in Met \cup {None}
  <2>1. Range(call.cond) \subseteq Met /\ d.cond \in Met \cup {None}
    BY <1>1, <1>3, <1>4, ConditionMet DEF Gathered
  <2>2. QED
    BY <1>2, <2>1 DEF CallsSound
<1>5. CASE x = w /\ D = C
  BY <1>2, <1>5
<1>6. CASE Turned(M, p, call, w, d, x)
  <2>1. CallsSound(D, S, Met)
    <3>1. (takes /\ D = C \cup {e}) \/ (~takes /\ D = C)
      BY <1>0, <1>6
    <3>2. e.of = d.on.sym /\ e.cond = condition
      BY DEF Call
    <3>3. ASSUME takes, Range(condition) \subseteq Met PROVE d.on.sym \in S
      BY <1>1, <1>3, <1>4, <3>3 DEF Gathered
    <3> HIDE DEF e
    <3>4. QED
      BY <1>2, <3>1, <3>2, <3>3 DEF CallsSound
  <2>2. LinesSound(M, x, S, Met)
    <3>1. SUFFICES ASSUME NEW line \in x.depends \ w.depends, Range(line.cond) \subseteq Met
          PROVE  call.of \in S /\ Source(M, call.of, i, line, Met)
      BY <1>2 DEF LinesSound
    <3>2. First(M, call.of, i)
      <4>1. ~Skipped(w, call.cond, d) /\ \A j \in 1..(i - 1) : Skipped(w, call.cond, WordOf(M, call, j))
        BY <1>6 DEF Turned, Stepping
      <4>2. QED
        BY <4>1, FirstOf
    <3>3. d = M.depends[call.of][i]
      BY DEF WordOf
    <3>4. CASE d.on.sym \in Virtual
      <4>1. d.on.sym \notin M.buildonly /\ line = Providers(M, d.on.sym)
        BY <1>6, <3>1, <3>4 DEF Turned, Kept, SaysDepends
      <4>2. call.cond = <<>>
        <5>1. SUFFICES ASSUME call.cond # <<>> PROVE FALSE
          OBVIOUS
        <5>2. NoneProvided(M, call.of)
          BY <1>2, <5>1 DEF CallOf, Call
        <5>3. QED
          BY <1>3, <3>4, <5>2 DEF NoneProvided
      <4>3. Range(call.cond) \subseteq Met
        BY <4>2 DEF Range
      <4>4. call.of \in S
        BY <1>2, <4>3 DEF CallsSound
      <4>5. QED
        BY <3>2, <3>3, <3>4, <4>1, <4>4 DEF Source
    <3>5. CASE d.on.sym \notin Virtual
      <4>1. /\ d.on.sym \notin M.buildonly /\ ~d.plus
            /\ \/ (condition = <<>> \/ Selects(w, condition)) /\ line = Plain({d.on})
               \/ line = Line("unless", {d.on}, condition)
        BY <1>6, <3>1, <3>5 DEF Turned, Kept, SaysDepends, SaysSelect
      <4>2. line.any = {d.on}
        BY <4>1 DEF Plain, Line
      <4>3. Range(condition) \subseteq Met
        <5>1. CASE condition = <<>>
          BY <5>1 DEF Range
        <5>2. CASE Selects(w, condition)
          <6>1. Len(condition) = 1 /\ Plain({condition[1]}) \in w.select
            BY <5>2 DEF Selects
          <6>2. \A k \in WordsOf(M, p) : k.cond \in Conds
            <7>1. M.depends[p] \in Seq(AnyWord)
              BY <1>3, SteppingTypes
            <7>2. WordsOf(M, p) \subseteq AnyWord
              BY <7>1, RangeOfSeq DEF WordsOf
            <7>3. QED
              BY <7>2 DEF AnyWord, Conds
          <6>3. condition[1] \in Always(M, p)
            BY <1>2, <1>3, <6>1, <6>2, PlainSelects
          <6>4. Range(condition) = {condition[1]}
            BY <1>3, <6>1 DEF Range
          <6>5. QED
            BY <1>1, <6>3, <6>4 DEF Gathered
        <5>3. CASE line = Line("unless", {d.on}, condition)
          BY <3>1, <5>3 DEF Line
        <5>4. QED
          BY <4>1, <5>1, <5>2, <5>3
      <4>4. QED
        BY <1>4, <3>2, <3>3, <3>5, <4>1, <4>2, <4>3 DEF Source
    <3>6. QED
      BY <3>4, <3>5
  <2>3. QED
    BY <2>1, <2>2
<1>7. QED
  BY <1>3, <1>5, <1>6

(* A turn leaves no word that was met without a line or a package taken along. *)
LEMMA StepTold ==
  ASSUME MetadataAssumption, NEW M, NEW p, NEW w, NEW C, NEW call, NEW i, NEW x, NEW D,
         Stepping(M, p, w, C, call, i, x, D)
  PROVE  ToldInv(M, p, x, D)
<1> DEFINE d == WordOf(M, call, i)
           condition == Under(p, call.cond, d.cond)
           e == Call(d.on.sym, TRUE, condition)
<1>1. ToldInv(M, p, w, C) /\ CallOf(M, p, call) /\ call \in C /\ i \in DOMAIN M.depends[call.of]
      /\ (call.only_dep => HeardAll(M, w, p, <<>>)) /\ p \in Packages
  BY DEF Stepping, RunInv, CallInv
<1>2. /\ call.of \in Packages /\ call.cond \in Seq(Literals) /\ d \in WordsOf(M, call.of)
      /\ d.cond \in Conds /\ d.on \in Asked /\ condition \in Seq(Literals)
      /\ w.seen \subseteq x.seen /\ w.select \subseteq x.select /\ Lines(w) \subseteq Lines(x) /\ C \subseteq D
      /\ (x = w /\ D = C) \/ Turned(M, p, call, w, d, x)
  BY SteppingTypes
<1>3. \A k \in w.seen : Told(M, p, x, D, k[1], k[2], k[3])
  BY <1>1, <1>2, ToldGrows DEF ToldInv
<1>4. CASE x = w /\ D = C
  BY <1>1, <1>4
<1>5. CASE Turned(M, p, call, w, d, x)
  <2>1. SUFFICES Told(M, p, x, D, call.cond, d.cond, d.on)
    BY <1>3, <1>5 DEF ToldInv, Turned
  <2>2. CASE d.on.sym \in M.buildonly
    BY <2>2 DEF Told
  <2>3. CASE d.on.sym \notin M.buildonly /\ d.on.sym \in Virtual
    <3>1. Providers(M, d.on.sym) \in Lines(x)
      BY <1>5, <2>3 DEF Turned, SaysDepends
    <3>2. QED
      BY <2>3, <3>1 DEF Told
  <2>4. CASE d.on.sym \notin M.buildonly \cup Virtual /\ ~d.plus
    <3>1. AsksFor(x, d.on, condition)
      BY <1>5, <2>4 DEF Turned, SaysDepends, AsksFor
    <3>2. QED
      BY <2>4, <3>1 DEF Told
  <2>5. CASE d.on.sym \notin M.buildonly \cup Virtual /\ d.plus
    <3>1. Followed(M, x, D, d.on.sym, condition)
      <4> DEFINE takes == d.on.sym \notin M.buildonly \cup Virtual /\ d.plus /\ d.on.sym \in Packages
      <4>1. (takes /\ D = C \cup {e}) \/ (~takes /\ D = C)
        BY <1>5, SteppingCalls, Zenon
      <4>2. d.on.sym \in Packages => e \in D
        BY <2>5, <4>1
      <4>3. QED
        BY <4>2 DEF Followed
    <3>2. CASE ~call.only_dep
      <4>1. condition = <<d.on>> \/ SelectLine(d.on, condition) \in x.select
        BY <1>5, <2>5, <3>2 DEF Turned, SaysSelect
      <4>2. QED
        BY <2>5, <3>1, <4>1 DEF Told, Takes
    <3>3. CASE call.only_dep
      <4>1. call.of \in Chosen(M)
        BY <1>1, <3>3 DEF CallOf, Call
      <4>2. SaysTake(M, call.of, i, d.cond, d.on)
        <5>1. ~Skipped(w, call.cond, d) /\ \A j \in 1..(i - 1) : Skipped(w, call.cond, WordOf(M, call, j))
          BY <1>5 DEF Turned, Stepping
        <5>2. First(M, call.of, i)
          BY <5>1, FirstOf
        <5>3. QED
          BY <2>5, <5>2 DEF SaysTake, WordOf
      <4>3. call.cond # <<>> \/ \A k \in WordsOf(M, p) : k.cond # d.cond \/ k.on # d.on
        <5>1. SUFFICES ASSUME call.cond = <<>>, NEW k \in WordsOf(M, p), k.cond = d.cond, k.on = d.on PROVE FALSE
          OBVIOUS
        <5>2. Skipped(w, <<>>, k) /\ ~Skipped(w, call.cond, d)
          BY <1>1, <1>5, <3>3 DEF HeardAll, Turned
        <5>3. QED
          BY <5>1, <5>2 DEF Skipped, OptionItself
      <4>4. TakenBy(M, p, call.cond, d.cond, d.on)
        BY <1>1, <4>1, <4>2, <4>3 DEF TakenBy
      <4>5. QED
        BY <2>5, <3>1, <4>4 DEF Told
    <3>4. QED
      BY <3>2, <3>3
  <2>6. QED
    BY <2>2, <2>3, <2>4, <2>5
<1>6. QED
  BY <1>2, <1>4, <1>5

LEMMA StepRun ==
  ASSUME MetadataAssumption, NEW M, NEW p, NEW w, NEW C, NEW call, NEW i, NEW x, NEW D,
         Stepping(M, p, w, C, call, i, x, D)
  PROVE  RunInv(M, p, x, D)
<1>1. x \in GenType /\ D \in SUBSET CallType
  BY SteppingTypes
<1>2. CallInv(M, p, D) /\ SelectInv(M, p, x, D) /\ FormInv(M, x) /\ SoundInv(M, p, x, D) /\ ToldInv(M, p, x, D)
  BY StepCalls, StepSelect, StepForm, StepSound, StepTold
<1>3. QED
  BY <1>1, <1>2 DEF RunInv

(* Calls that are over may be left away.                                      *)
LEMMA CallsOver ==
  ASSUME NEW M, NEW p, NEW w, NEW C, NEW x, NEW D, RunInv(M, p, w, C),
         x = [w EXCEPT !.t_depends = <<>>], D \subseteq C, \A c \in C \ D : HeardAll(M, w, c.of, c.cond)
  PROVE  RunInv(M, p, x, D)
<1>1. w \in GenType /\ C \in SUBSET CallType /\ CallInv(M, p, C) /\ SelectInv(M, p, w, C) /\ FormInv(M, w)
      /\ SoundInv(M, p, w, C) /\ ToldInv(M, p, w, C)
  BY DEF RunInv
<1>2. x \in GenType /\ x.seen = w.seen /\ x.select = w.select /\ x.depends = w.depends
  <2>1. <<>> \in Seq(CallType)
    OBVIOUS
  <2>2. QED
    BY <1>1, <2>1 DEF GenType
<1>3. Lines(x) = Lines(w)
  BY <1>2 DEF Lines
<1>4. CallInv(M, p, D)
  BY <1>1 DEF CallInv
<1>5. SelectInv(M, p, x, D)
  <2>1. SUFFICES ASSUME NEW line \in x.select PROVE \E d \in WordsOf(M, p) : SelectOf(M, p, x, D, line, d)
    BY DEF SelectInv
  <2>2. PICK d \in WordsOf(M, p) : SelectOf(M, p, w, C, line, d)
    BY <1>1, <1>2 DEF SelectInv
  <2>3. w.seen \subseteq x.seen
    BY <1>2
  <2>4. SelectOf(M, p, x, D, line, d)
    BY <2>2, <2>3, SelectGrows
  <2>5. QED
    BY <2>4
<1>6. FormInv(M, x)
  BY <1>1, <1>2 DEF FormInv
<1>7. SoundInv(M, p, x, D)
  BY <1>1, <1>2 DEF SoundInv, CallsSound, LinesSound
<1>8. ToldInv(M, p, x, D)
  <2>1. SUFFICES ASSUME NEW k \in x.seen PROVE Told(M, p, x, D, k[1], k[2], k[3])
    BY DEF ToldInv
  <2>2. Told(M, p, w, C, k[1], k[2], k[3])
    BY <1>1, <1>2 DEF ToldInv
  <2>3. w.seen \subseteq x.seen /\ w.select \subseteq x.select /\ Lines(w) \subseteq Lines(x)
    BY <1>2, <1>3
  <2>4. \A parent, cond, on : Told(M, p, w, C, parent, cond, on) => Told(M, p, x, D, parent, cond, on)
    BY <2>3, ToldGrows
  <2>5. QED
    BY <2>2, <2>4
<1>9. QED
  BY <1>1, <1>2, <1>4, <1>5, <1>6, <1>7, <1>8 DEF RunInv

-----------------------------------------------------------------------------
(* The package whose lines are being generated, and those that have theirs.   *)
Pending == Range(calls) \cup Range(gen.t_depends)
HeardSoFar ==
  \A i \in DOMAIN WordsNow : i < at => Skipped(gen, calls[1].cond, WordsNow[i])
Running ==
  /\ pkg \in Listed /\ calls \in Seq(CallType) /\ at \in Nat \ {0}
  /\ RunInv(package, pkg, gen, Pending)
  /\ \A c \in Range(gen.t_depends) : c.only_dep
  /\ \/ calls = <<Call(pkg, FALSE, <<>>)>>
     \/ (\A c \in Range(calls) : c.only_dep) /\ HeardAll(package, gen, pkg, <<>>)
  /\ calls # <<>> => HeardSoFar
  /\ calls = <<>> => gen.t_depends = <<>>

Done(M, p, w) == RunInv(M, p, w, {}) /\ HeardAll(M, w, p, <<>>)
MenuOf(w) == [select |-> w.select, depends |-> w.depends]
MenuInv ==
  /\ DOMAIN menu = Packages
  /\ \A p \in Listed : menu[p] # None => \E w \in GenType : Done(package, p, w) /\ menu[p] = MenuOf(w)

ConfigInv ==
  /\ MkInv /\ (pkg = None => calls = <<>>)
  /\ ProvidedPlainly(package) => MenuInv /\ (pkg # None => Running)

LEMMA ConfigInit == MetadataAssumption /\ Init => ConfigInv
BY DEF Init, ConfigInv, MkInv, MenuInv, Listed

(* The first call of a package.                                               *)
LEMMA BeginStep ==
  ASSUME MetadataAssumption, ConfigInv, Begin, ProvidedPlainly(package)
  PROVE  MenuInv' /\ Running'
<1>1. MenuInv'
  BY DEF Begin, ConfigInv, MenuInv, Listed
<1>2. pkg' \in Listed /\ package' = package /\ Listed' = Listed
  BY DEF Begin, Listed
<1>3. calls' = <<Call(pkg', FALSE, <<>>)>> /\ at' = 1 /\ gen' = Nothing
  BY DEF Begin
<1>4. Described(package) /\ pkg' \in Packages
  BY <1>2 DEF ConfigInv, MkInv, MetadataAssumption, Listed
<1> DEFINE top == Call(pkg', FALSE, <<>>)
<1>5. top \in CallType /\ top.of = pkg' /\ top.cond = <<>>
  <2>1. <<>> \in Seq(Literals)
    OBVIOUS
  <2>2. QED
    BY <1>4, <2>1 DEF Call, CallType
<1>6. calls' \in Seq(CallType) /\ Range(calls') = {top} /\ Range(Nothing.t_depends) = {} /\ Range(<<>>) = {}
  <2>1. \A c \in CallType : <<c>> \in Seq(CallType) /\ Range(<<c>>) = {c}
    BY DEF Range
  <2>2. <<top>> \in Seq(CallType) /\ Range(<<top>>) = {top}
    BY <1>5, <2>1
  <2>3. Nothing.t_depends = <<>> /\ Range(<<>>) = {}
    BY DEF Nothing, Range
  <2>4. QED
    BY <1>3, <2>2, <2>3
<1>7. RunInv(package, pkg', Nothing, {top})
  <2>1. Nothing \in GenType
    <3>1. <<>> \in Seq(CallType)
      OBVIOUS
    <3>2. QED
      BY <3>1 DEF Nothing, GenType
  <2>2. CallInv(package, pkg', {top})
    BY <1>5, <1>6 DEF CallInv, CallOf
  <2>3. SelectInv(package, pkg', Nothing, {top}) /\ FormInv(package, Nothing) /\ ToldInv(package, pkg', Nothing, {top})
    BY DEF SelectInv, FormInv, ToldInv, Nothing
  <2>4. SoundInv(package, pkg', Nothing, {top})
    BY <1>5 DEF SoundInv, Gathered, CallsSound, LinesSound, Nothing
  <2>5. QED
    BY <1>5, <2>1, <2>2, <2>3, <2>4 DEF RunInv
<1>8. Pending' = {top}
  BY <1>3, <1>6 DEF Pending
<1>9. HeardSoFar'
  <2>1. \A i \in DOMAIN WordsNow' : ~(i < 1)
    <3>1. WordsNow' = package.depends[pkg']
      BY <1>2, <1>3, <1>5 DEF WordsNow
    <3>2. package.depends[pkg'] \in Seq(AnyWord)
      BY <1>4 DEF Described
    <3>3. QED
      BY <3>1, <3>2
  <2>2. QED
    BY <1>3, <2>1 DEF HeardSoFar
<1>10. calls' # <<>>
  BY <1>3
<1>11. \A c \in Range(gen'.t_depends) : c.only_dep
  BY <1>3, <1>6
<1>12. RunInv(package, pkg, gen, Pending)'
  BY <1>2, <1>3, <1>7, <1>8
<1>13. Running'
  <2>1. (pkg \in Listed /\ calls \in Seq(CallType) /\ at \in Nat \ {0})'
    <3>1. pkg' \in Listed'
      BY <1>2
    <3>2. calls' \in Seq(CallType)
      BY <1>6
    <3>3. at' \in Nat \ {0}
      BY <1>3
    <3>4. CallType' = CallType
      OBVIOUS
    <3>5. QED
      BY <3>1, <3>2, <3>3
  <2>2. (calls = <<Call(pkg, FALSE, <<>>)>>)'
    BY <1>3, Zenon
  <2>3. (calls # <<>> => HeardSoFar)'
    BY <1>9, Zenon
  <2>4. (calls = <<>> => gen.t_depends = <<>>)'
    BY <1>10, Zenon
  <2>5. QED
    BY <1>11, <1>12, <2>1, <2>2, <2>3, <2>4, Zenon DEF Running
<1>14. QED
  BY <1>1, <1>13

(* What a turn puts off is for packages taken along.                          *)
LEMMA PutOffGrows ==
  ASSUME MetadataAssumption, NEW M, NEW p, NEW w, NEW C, NEW call, NEW i, NEW x, NEW D,
         Stepping(M, p, w, C, call, i, x, D)
  PROVE  /\ Range(w.t_depends) \subseteq Range(x.t_depends)
         /\ (\A c \in Range(w.t_depends) : c.only_dep) => \A c \in Range(x.t_depends) : c.only_dep
<1> DEFINE d == WordOf(M, call, i)
           e == Call(d.on.sym, TRUE, Under(p, call.cond, d.cond))
<1>1. w.t_depends \in Seq(CallType) /\ (x = w \/ Turned(M, p, call, w, d, x))
      /\ Under(p, call.cond, d.cond) \in Seq(Literals)
  BY SteppingTypes DEF GenType
<1>2. CASE x.t_depends = w.t_depends
  BY <1>2
<1>3. CASE x.t_depends # w.t_depends
  <2>1. x.t_depends = Append(w.t_depends, e) /\ d.on.sym \in Packages
    BY <1>1, <1>3 DEF Turned
  <2>2. e \in CallType /\ e.only_dep
    BY <1>1, <2>1 DEF Call, CallType
  <2> HIDE DEF e
  <2>3. Range(x.t_depends) = Range(w.t_depends) \cup {e}
    BY <1>1, <2>1, <2>2, RangeAppend
  <2>4. QED
    BY <2>2, <2>3
<1>4. QED
  BY <1>2, <1>3

(* The calls of a run are of packages, and its package is one.                *)
LEMMA RunningTypes ==
  ASSUME MetadataAssumption, ConfigInv, ProvidedPlainly(package), pkg # None
  PROVE  /\ Running /\ Described(package) /\ pkg \in Packages \ package.buildonly
         /\ gen \in GenType /\ gen.t_depends \in Seq(CallType) /\ Range(gen.t_depends) \subseteq Pending
         /\ calls # <<>> => calls[1] \in Range(calls) /\ calls[1] \in Pending /\ calls[1] \in CallType
<1>1. Running /\ Described(package) /\ pkg \in Packages \ package.buildonly
  BY DEF ConfigInv, MkInv, MetadataAssumption, Running, Listed
<1>2. gen \in GenType /\ gen.t_depends \in Seq(CallType)
  BY <1>1 DEF Running, RunInv, GenType
<1>3. calls # <<>> => 1 \in DOMAIN calls /\ calls[1] \in CallType
  BY <1>1 DEF Running
<1>4. QED
  BY <1>1, <1>2, <1>3 DEF Pending, Range

(* A turn.                                                                    *)
LEMMA DependStep ==
  ASSUME MetadataAssumption, ConfigInv, Depend, ProvidedPlainly(package)
  PROVE  MenuInv' /\ Running'
<1>1. pkg # None /\ calls # <<>>
  BY DEF Depend, ConfigInv
<1>2. /\ Running /\ Described(package) /\ pkg \in Packages \ package.buildonly
      /\ gen \in GenType /\ Range(gen.t_depends) \subseteq Pending
      /\ calls[1] \in Range(calls) /\ calls[1] \in Pending /\ calls[1] \in CallType
  BY <1>1, RunningTypes
<1>3. MenuInv'
  BY DEF Depend, ConfigInv, MenuInv, Listed
<1> DEFINE call == calls[1]
           D == Pending \cup Range(gen'.t_depends)
<1>4. at \in DOMAIN WordsNow /\ WordsNow \in Seq(AnyWord) /\ at \in Nat \ {0}
  <2>1. call.of \in Packages
    BY <1>2 DEF CallType
  <2>2. WordsNow \in Seq(AnyWord)
    BY <1>2, <2>1 DEF WordsNow, Described
  <2>3. at \in Nat \ {0} /\ at <= Len(WordsNow)
    BY <1>2 DEF Running, Depend
  <2>4. QED
    BY <2>2, <2>3
<1>5. \/ calls = <<Call(pkg, FALSE, <<>>)>>
      \/ (\A c \in Range(calls) : c.only_dep) /\ HeardAll(package, gen, pkg, <<>>)
  BY <1>2 DEF Running
<1>6. call.only_dep => HeardAll(package, gen, pkg, <<>>)
  <2>1. calls = <<Call(pkg, FALSE, <<>>)>> => ~call.only_dep
    BY DEF Call
  <2>2. QED
    BY <1>5, <2>1
<1>7. Stepping(package, pkg, gen, Pending, call, at, gen', D)
  <2>1. RunInv(package, pkg, gen, Pending)
    BY <1>2 DEF Running
  <2>2. \A j \in 1..(at - 1) : Skipped(gen, call.cond, WordOf(package, call, j))
    BY <1>1, <1>2, <1>4 DEF Running, HeardSoFar, WordsNow, WordOf
  <2>3. gen' = Turn(package, pkg, call, gen, WordOf(package, call, at))
    BY DEF Depend, WordsNow, WordOf
  <2>4. at \in DOMAIN package.depends[call.of]
    BY <1>4 DEF WordsNow
  <2>5. QED
    BY <1>2, <1>6, <2>1, <2>2, <2>3, <2>4 DEF Stepping
<1>8. RunInv(package, pkg, gen', D)
  BY <1>7, StepRun
<1>9. Range(gen.t_depends) \subseteq Range(gen'.t_depends) /\ \A c \in Range(gen'.t_depends) : c.only_dep
  BY <1>2, <1>7, PutOffGrows DEF Running
<1>10. Pending' = D
  BY <1>9 DEF Pending, Depend
<1>11. gen.seen \subseteq gen'.seen /\ Skipped(gen', call.cond, WordsNow[at])
  <2>1. WordsNow[at] = WordOf(package, call, at)
    BY DEF WordsNow, WordOf
  <2>2. QED
    BY <1>7, <2>1, SteppingTypes
<1>12. HeardSoFar'
  <2>1. WordsNow' = WordsNow /\ calls' = calls /\ at' = at + 1
    BY DEF Depend, WordsNow
  <2>2. SUFFICES ASSUME NEW i \in DOMAIN WordsNow, i < at + 1 PROVE Skipped(gen', call.cond, WordsNow[i])
    BY <2>1 DEF HeardSoFar
  <2>3. CASE i = at
    BY <1>11, <2>3
  <2>4. CASE i # at
    <3>1. i < at
      BY <1>4, <2>2, <2>4
    <3>2. Skipped(gen, call.cond, WordsNow[i])
      BY <1>1, <1>2, <3>1 DEF Running, HeardSoFar
    <3>3. QED
      BY <1>11, <3>2, SkippedGrows
  <2>5. QED
    BY <2>3, <2>4
<1>13. HeardAll(package, gen, pkg, <<>>) => HeardAll(package, gen', pkg, <<>>)
  BY <1>11, SkippedGrows DEF HeardAll
<1>14. Running'
  <2>1. calls' = calls /\ pkg' = pkg /\ package' = package /\ Listed' = Listed /\ at' = at + 1
    BY DEF Depend, Listed
  <2>2. (pkg \in Listed /\ calls \in Seq(CallType) /\ at \in Nat \ {0})'
    BY <1>2, <1>4, <2>1 DEF Running
  <2>3. RunInv(package, pkg, gen, Pending)'
    BY <1>8, <1>10, <2>1
  <2>4. (\/ calls = <<Call(pkg, FALSE, <<>>)>>
         \/ (\A c \in Range(calls) : c.only_dep) /\ HeardAll(package, gen, pkg, <<>>))'
    <3>1. CASE calls = <<Call(pkg, FALSE, <<>>)>>
      BY <2>1, <3>1, Zenon
    <3>2. CASE (\A c \in Range(calls) : c.only_dep) /\ HeardAll(package, gen, pkg, <<>>)
      BY <1>13, <2>1, <3>2, Zenon
    <3>3. QED
      BY <1>5, <3>1, <3>2
  <2>5. (calls # <<>> => HeardSoFar)' /\ (calls = <<>> => gen.t_depends = <<>>)'
    BY <1>1, <1>12, <2>1
  <2>6. QED
    BY <1>9, <2>2, <2>3, <2>4, <2>5, Zenon DEF Running
<1>15. QED
  BY <1>3, <1>14

LEMMA RangeOfBoth ==
  \A s, t \in Seq(CallType) : Range(s \o t) = Range(s) \cup Range(t)
BY RangeConcatenation

(* The end of a call: those it put off come first.                            *)
LEMMA ReturnStep ==
  ASSUME MetadataAssumption, ConfigInv, Return, ProvidedPlainly(package)
  PROVE  MenuInv' /\ Running'
<1>1. pkg # None /\ calls # <<>>
  BY DEF Return, ConfigInv
<1>2. /\ Running /\ Described(package) /\ pkg \in Packages \ package.buildonly
      /\ gen \in GenType /\ gen.t_depends \in Seq(CallType) /\ calls[1] \in Range(calls) /\ calls[1] \in CallType
      /\ RunInv(package, pkg, gen, Pending) /\ calls \in Seq(CallType)
  BY <1>1, RunningTypes DEF Running
<1>3. MenuInv'
  BY DEF Return, ConfigInv, MenuInv, Listed
<1> DEFINE call == calls[1]
<1>4. HeardAll(package, gen, call.of, call.cond)
  <2>1. call.of \in Packages
    BY <1>2 DEF CallType
  <2>2. WordsNow \in Seq(AnyWord)
    BY <1>2, <2>1 DEF WordsNow, Described
  <2>3. at \in Nat /\ at > Len(WordsNow)
    BY <1>2 DEF Running, Return
  <2>4. \A i \in DOMAIN WordsNow : Skipped(gen, call.cond, WordsNow[i])
    BY <1>1, <1>2, <2>2, <2>3 DEF Running, HeardSoFar
  <2>5. QED
    BY <2>4 DEF HeardAll, WordsOf, WordsNow, Range
<1>5. Tail(calls) \in Seq(CallType) /\ Range(calls) = {call} \cup Range(Tail(calls))
  <2>1. Tail(calls) \in Seq(CallType) /\ calls = <<call>> \o Tail(calls) /\ <<call>> \in Seq(CallType)
    BY <1>1, <1>2
  <2>2. Range(<<call>> \o Tail(calls)) = Range(<<call>>) \cup Range(Tail(calls))
    BY <2>1, RangeOfBoth
  <2>3. Range(<<call>>) = {call}
    BY DEF Range
  <2>4. QED
    BY <2>1, <2>2, <2>3
<1>6. calls' = gen.t_depends \o Tail(calls) /\ gen' = [gen EXCEPT !.t_depends = <<>>]
  BY DEF Return
<1>7. calls' \in Seq(CallType) /\ Range(calls') = Range(gen.t_depends) \cup Range(Tail(calls))
  <2>1. Range(gen.t_depends \o Tail(calls)) = Range(gen.t_depends) \cup Range(Tail(calls))
    BY <1>2, <1>5, RangeOfBoth
  <2>2. QED
    BY <1>2, <1>5, <1>6, <2>1
<1>8. gen'.seen = gen.seen /\ gen'.t_depends = <<>> /\ Range(gen'.t_depends) = {}
  BY <1>2, <1>6 DEF GenType, Range
<1>9. Pending' = Range(calls')
  BY <1>8 DEF Pending
<1>10. RunInv(package, pkg, gen', Pending')
  <2> DEFINE D == Pending'
  <2>1. D \subseteq Pending /\ Pending \ D \subseteq {call}
    BY <1>5, <1>7, <1>9 DEF Pending
  <2>2. \A c \in Pending \ D : HeardAll(package, gen, c.of, c.cond)
    BY <1>4, <2>1
  <2> HIDE DEF D
  <2>3. RunInv(package, pkg, gen', D)
    BY <1>2, <1>6, <2>1, <2>2, CallsOver
  <2>4. QED
    BY <2>3 DEF D
<1>11. (\A c \in Range(calls') : c.only_dep) /\ HeardAll(package, gen, pkg, <<>>)
  <2>1. \A c \in Range(gen.t_depends) : c.only_dep
    BY <1>2 DEF Running
  <2>2. CASE calls = <<Call(pkg, FALSE, <<>>)>>
    <3>1. call.of = pkg /\ call.cond = <<>>
      BY <2>2 DEF Call
    <3>2. Tail(calls) = <<>>
      BY <1>2, <2>2
    <3>3. Range(<<>>) = {}
      BY DEF Range
    <3>4. QED
      BY <1>4, <1>7, <2>1, <3>1, <3>2, <3>3
  <2>3. CASE (\A c \in Range(calls) : c.only_dep) /\ HeardAll(package, gen, pkg, <<>>)
    BY <1>5, <1>7, <2>1, <2>3
  <2>4. QED
    BY <1>2, <2>2, <2>3 DEF Running
<1>12. HeardSoFar'
  <2>1. CASE calls' = <<>>
    <3>1. at' = 1
      BY DEF Return
    <3>2. QED
      BY <3>1 DEF HeardSoFar
  <2>2. CASE calls' # <<>>
    <3>1. calls'[1] \in CallType
      BY <1>7, <2>2
    <3>2. calls'[1].of \in Packages
      BY <3>1 DEF CallType
    <3>3. package.depends[calls'[1].of] \in Seq(AnyWord)
      BY <1>2, <3>2 DEF Described
    <3>4. WordsNow' = package.depends[calls'[1].of] /\ at' = 1
      BY DEF WordsNow, Return
    <3>5. \A i \in DOMAIN WordsNow' : ~(i < 1)
      BY <3>3, <3>4
    <3>6. QED
      BY <3>4, <3>5 DEF HeardSoFar
  <2>3. QED
    BY <2>1, <2>2
<1>13. Running'
  <2>1. pkg' = pkg /\ package' = package /\ Listed' = Listed /\ at' = 1 /\ pkg \in Listed
    BY <1>2 DEF Return, Listed, Running
  <2>2. (pkg \in Listed /\ calls \in Seq(CallType) /\ at \in Nat \ {0})'
    <3>1. at' \in Nat \ {0}
      BY <2>1
    <3>2. QED
      BY <1>7, <2>1, <3>1
  <2>3. RunInv(package, pkg, gen, Pending)'
    BY <1>10, <2>1
  <2>4. HeardAll(package, gen', pkg, <<>>)
    BY <1>8, <1>11, SkippedGrows DEF HeardAll
  <2>5. (\A c \in Range(gen.t_depends) : c.only_dep)' /\ (\A c \in Range(calls) : c.only_dep)'
    BY <1>8, <1>11
  <2>6. QED
    BY <1>8, <1>12, <2>1, <2>2, <2>3, <2>4, <2>5, Zenon DEF Running
<1>14. QED
  BY <1>3, <1>13

(* The end of the last call.                                                  *)
LEMMA WriteStep ==
  ASSUME MetadataAssumption, ConfigInv, Write, ProvidedPlainly(package)
  PROVE  MenuInv'
<1>1. pkg # None /\ calls = <<>> /\ package' = package /\ Listed' = Listed
  BY DEF Write, Listed
<1>2. Running /\ gen \in GenType
  BY <1>1, RunningTypes
<1>3. Done(package, pkg, gen)
  <2>1. gen.t_depends = <<>>
    BY <1>1, <1>2 DEF Running
  <2>2. Pending = {}
    BY <1>1, <2>1 DEF Pending, Range
  <2>3. RunInv(package, pkg, gen, Pending)
    BY <1>2 DEF Running
  <2>4. calls # <<Call(pkg, FALSE, <<>>)>>
    BY <1>1
  <2>5. HeardAll(package, gen, pkg, <<>>)
    BY <1>2, <2>4 DEF Running
  <2>6. QED
    BY <2>2, <2>3, <2>5 DEF Done
<1>4. DOMAIN menu = Packages /\ \A p \in Listed : menu[p] # None => \E w \in GenType : Done(package, p, w) /\ menu[p] = MenuOf(w)
  BY DEF ConfigInv, MenuInv
<1>5. menu' = [menu EXCEPT ![pkg] = MenuOf(gen)]
  BY DEF Write, MenuOf
<1>6. DOMAIN menu' = Packages
  BY <1>4, <1>5
<1>7. ASSUME NEW p \in Listed, menu'[p] # None PROVE \E w \in GenType : Done(package, p, w) /\ menu'[p] = MenuOf(w)
  <2>1. p \in Packages
    BY DEF Listed
  <2>2. CASE p = pkg
    <3>1. menu'[p] = MenuOf(gen)
      BY <1>4, <1>5, <2>1, <2>2
    <3>2. QED
      BY <1>2, <1>3, <2>2, <3>1
  <2>3. CASE p # pkg
    <3>1. menu'[p] = menu[p]
      BY <1>4, <1>5, <2>1, <2>3
    <3>2. QED
      BY <1>4, <1>7, <3>1
  <2>4. QED
    BY <2>2, <2>3
<1>8. QED
  BY <1>1, <1>6, <1>7 DEF MenuInv

(* The invariant is inductive.                                                *)
LEMMA ConfigStep ==
  ASSUME MetadataAssumption, ConfigInv, [Next]_vars
  PROVE  ConfigInv'
<1>1. CASE Begin
  <2>1. MkInv' /\ package' = package /\ pkg' # None
    BY <1>1 DEF ConfigInv, MkInv, MetadataAssumption, Begin, Sources, Listed
  <2>2. QED
    BY <1>1, <2>1, BeginStep DEF ConfigInv
<1>2. CASE Depend
  <2>1. MkInv' /\ package' = package /\ pkg' = pkg /\ calls' = calls
    BY <1>2 DEF ConfigInv, MkInv, Depend, Sources
  <2>2. QED
    BY <1>2, <2>1, DependStep DEF ConfigInv
<1>3. CASE Return
  <2>1. MkInv' /\ package' = package /\ pkg' = pkg /\ calls # <<>>
    BY <1>3 DEF ConfigInv, MkInv, Return, Sources
  <2>2. QED
    BY <1>3, <2>1, ReturnStep DEF ConfigInv
<1>4. CASE Write
  <2>1. MkInv' /\ package' = package /\ pkg' = None /\ calls' = <<>>
    BY <1>4 DEF ConfigInv, MkInv, Write, Sources
  <2>2. QED
    BY <1>4, <2>1, WriteStep DEF ConfigInv
<1>5. CASE GenPackageMk
  <2>1. package' = package /\ menu' = menu /\ pkg' = pkg /\ calls' = calls /\ Listed' = Listed /\ pkg = None
        /\ mk' = [src \in Sources(package) |-> Deplines(package, src)]
    BY <1>5 DEF GenPackageMk, Configured, Listed
  <2>2. QED
    BY <2>1 DEF ConfigInv, MkInv, MenuInv
<1>6. CASE UNCHANGED vars
  BY <1>6 DEF vars, ConfigInv, MkInv, MenuInv, Running, Listed, Pending, HeardSoFar, WordsNow
<1>7. QED
  BY <1>1, <1>2, <1>3, <1>4, <1>5, <1>6 DEF Next

-----------------------------------------------------------------------------
(* The values of conditions and lines. *)

(* The values of expressions.                                                 *)
Levels == {no, mod, yes}

LEMMA LevelOf == Levels \subseteq Nat /\ no \in Levels /\ yes \in Levels /\ \A x \in Levels : no <= x /\ x <= yes
BY DEF Levels, no, mod, yes

LEMMA MostOf ==
  ASSUME NEW S \in SUBSET Levels, S # {}
  PROVE  Most(S) \in S /\ \A y \in S : y <= Most(S)
<1>1. \E x \in S : \A y \in S : x >= y
  <2>1. CASE yes \in S
    BY <2>1 DEF Levels, no, mod, yes
  <2>2. CASE yes \notin S /\ mod \in S
    BY <2>2 DEF Levels, no, mod, yes
  <2>3. CASE yes \notin S /\ mod \notin S
    <3>1. \A x \in S : x = no
      BY <2>3 DEF Levels
    <3>2. no \in S /\ no >= no
      BY <3>1 DEF no, yes
    <3>3. QED
      BY <3>1, <3>2
  <2>4. QED
    BY <2>1, <2>2, <2>3
<1>2. Most(S) \in S /\ \A y \in S : Most(S) >= y
  BY <1>1, Zenon DEF Most
<1>3. QED
  BY <1>2, LevelOf

LEMMA LeastOf ==
  ASSUME NEW S \in SUBSET Levels, S # {}
  PROVE  Least(S) \in S /\ \A y \in S : Least(S) <= y
<1>1. \E x \in S : \A y \in S : x <= y
  <2>1. CASE no \in S
    BY <2>1 DEF Levels, no, mod, yes
  <2>2. CASE no \notin S /\ mod \in S
    BY <2>2 DEF Levels, no, mod, yes
  <2>3. CASE no \notin S /\ mod \notin S
    <3>1. \A x \in S : x = yes
      BY <2>3 DEF Levels
    <3>2. yes \in S /\ yes <= yes
      BY <3>1 DEF no, yes
    <3>3. QED
      BY <3>1, <3>2
  <2>4. QED
    BY <2>1, <2>2, <2>3
<1>2. QED
  BY <1>1, Zenon DEF Least

Config == [Packages \cup Option -> Levels]

LEMMA ValuesAreConfigs == Values \subseteq Config
BY DEF Values, Config, Levels

LEMMA LitValueOf ==
  ASSUME NEW l \in Literals, NEW v \in Config
  PROVE  /\ LitValue(l, v) \in Levels /\ v[l.sym] \in Levels
         /\ l.neg = FALSE => LitValue(l, v) = v[l.sym]
         /\ l.neg = TRUE => LitValue(l, v) = yes - v[l.sym]
<1>1. v[l.sym] \in Levels /\ l.neg \in BOOLEAN
  BY DEF Literals, Config
<1>2. QED
  BY <1>1 DEF LitValue, Levels, no, mod, yes

(* A condition is at most each of its literals, and the most that is.         *)
LEMMA CondValueOf ==
  ASSUME NEW cond \in Seq(Literals), NEW v \in Config
  PROVE  /\ CondValue(cond, v) \in Levels
         /\ \A l \in Range(cond) : CondValue(cond, v) <= LitValue(l, v)
         /\ \A x \in Levels : (\A l \in Range(cond) : x <= LitValue(l, v)) => x <= CondValue(cond, v)
<1> DEFINE S == {yes} \cup {LitValue(cond[i], v) : i \in DOMAIN cond}
<1>1. S \in SUBSET Levels /\ S # {}
  <2>1. \A i \in DOMAIN cond : cond[i] \in Literals
    OBVIOUS
  <2>2. \A i \in DOMAIN cond : LitValue(cond[i], v) \in Levels
    BY <2>1, LitValueOf
  <2>3. QED
    BY <2>2, LevelOf
<1>2. CondValue(cond, v) = Least(S)
  BY DEF CondValue
<1>3. \A l \in Range(cond) : LitValue(l, v) \in S
  BY DEF Range
<1>4. \A y \in S : y = yes \/ \E l \in Range(cond) : y = LitValue(l, v)
  BY DEF Range
<1> HIDE DEF S
<1>5. Least(S) \in S /\ \A y \in S : Least(S) <= y
  BY <1>1, LeastOf
<1>6. QED
  BY <1>1, <1>2, <1>3, <1>4, <1>5, LevelOf

(* A line is at least each of its literals, and is one of them or the negation *)
(* of its condition.                                                           *)
LEMMA LineValueOf ==
  ASSUME NEW line \in LineType, line.any \subseteq Literals, line.any # {}, NEW v \in Config
  PROVE  /\ LineValue(line, v) \in Levels
         /\ \A l \in line.any : LitValue(l, v) <= LineValue(line, v)
         /\ line.form = "unless" => yes - CondValue(line.cond, v) <= LineValue(line, v)
         /\ \/ line.form = "unless" /\ LineValue(line, v) = yes - CondValue(line.cond, v)
            \/ \E l \in line.any : LineValue(line, v) = LitValue(l, v)
<1> DEFINE S == {LitValue(l, v) : l \in line.any}
                \cup (IF line.form = "unless" THEN {yes - CondValue(line.cond, v)} ELSE {})
<1>1. S # {} /\ S \in SUBSET Levels
  <2>1. CondValue(line.cond, v) \in Levels
    BY CondValueOf DEF LineType
  <2>2. yes - CondValue(line.cond, v) \in Levels
    BY <2>1 DEF Levels, no, mod, yes
  <2>3. \A l \in line.any : LitValue(l, v) \in Levels
    BY LitValueOf
  <2>4. QED
    BY <2>2, <2>3
<1>2. LineValue(line, v) = Most(S)
  BY DEF LineValue
<1>3. Most(S) \in S /\ \A y \in S : y <= Most(S)
  <2> HIDE DEF S
  <2>1. QED
    BY <1>1, MostOf
<1>4. QED
  BY <1>1, <1>2, <1>3

(* A package is visible as far as all its lines allow.                        *)
LEMMA VisibleOf ==
  ASSUME NEW M, NEW w \in GenType, FormInv(M, w), NEW p, menu[p] = MenuOf(w), NEW v \in Config
  PROVE  /\ Visible(p, v) \in Levels
         /\ \A line \in w.depends : Visible(p, v) <= LineValue(line, v)
         /\ Visible(p, v) # yes => \E line \in w.depends : Visible(p, v) = LineValue(line, v)
         /\ \A x \in Levels : (\A line \in w.depends : x <= LineValue(line, v)) => x <= Visible(p, v)
<1> DEFINE S == {yes} \cup {LineValue(line, v) : line \in w.depends}
<1>1. S \in SUBSET Levels /\ S # {}
  <2>1. \A line \in w.depends : line \in LineType /\ line.any \subseteq Literals /\ line.any # {}
    BY DEF GenType, FormInv, FormOf
  <2>2. QED
    BY <2>1, LineValueOf, LevelOf
<1>2. Visible(p, v) = Least(S)
  BY DEF Visible, MenuOf
<1>3. Least(S) \in S /\ \A y \in S : Least(S) <= y
  <2> HIDE DEF S
  <2>1. QED
    BY <1>1, LeastOf
<1>4. QED
  BY <1>1, <1>2, <1>3, LevelOf

-----------------------------------------------------------------------------
(* Nothing more is asked. *)

(* The lines of a package of a finished menu.                                 *)
LEMMA MenuLines ==
  ASSUME MetadataAssumption, ConfigInv, ProvidedPlainly(package), Configured, NEW p \in Listed
  PROVE  /\ Described(package) /\ p \in Packages \ package.buildonly
         /\ \E w \in GenType : menu[p] = MenuOf(w) /\ RunInv(package, p, w, {}) /\ HeardAll(package, w, p, <<>>)
BY DEF ConfigInv, MkInv, MetadataAssumption, MenuInv, Configured, Listed, Done

LEMMA WordType ==
  ASSUME NEW M, Described(M), NEW q \in Packages, NEW d \in WordsOf(M, q)
  PROVE  /\ d \in AnyWord /\ d.cond \in Conds /\ d.on \in Asked /\ d.on.neg \in BOOLEAN
         /\ d.on.sym \notin Virtual => d.on \in Literals
         /\ d.cond # None => d.cond \in Literals
<1>1. M.depends[q] \in Seq(AnyWord)
  BY DEF Described
<1>2. WordsOf(M, q) \subseteq AnyWord
  BY <1>1, RangeOfSeq DEF WordsOf
<1>3. QED
  BY <1>2 DEF AnyWord, Conds, Asked, Literals

(* What a package depends on and cannot select is off.                       *)
Hinders(d, u, v) ==
  /\ ~d.plus \/ d.on.sym \in Virtual
  /\ d.on.sym \in Virtual \/ Holds(d.cond, u)
  /\ \A r \in Real(d.on.sym) : LitValue([d.on EXCEPT !.sym = r], v) = no

(* The packages switched on with p are gathered, so the line that hides p is what *)
(* a word of one of them says.                                                    *)
LEMMA NothingMore ==
  ASSUME MetadataAssumption, ConfigInv, ProvidedPlainly(package), NegatedOptions(package), Configured,
         NEW v \in Values, \A q \in Packages : v[q] # mod, NEW p \in Listed, Visible(p, v) = no,
         NEW S \in SUBSET (Taken(package) \cup {p}), NEW u,
         u = [s \in DOMAIN v |-> IF s \in S THEN yes ELSE v[s]], p \in S, TakesAll(S, u)
  PROVE  \E q \in S \cap Packages : \E d \in WordsOf(package, q) : Hinders(d, u, v)
<1> DEFINE M == package
           T == S \cap Packages
           Met == {l \in Literals : LitValue(l, u) # no}
<1>1. Described(M) /\ p \in Packages \ M.buildonly
  BY MenuLines
<1>2. PICK w \in GenType : menu[p] = MenuOf(w) /\ RunInv(M, p, w, {})
  BY MenuLines
<1>3. v \in Config /\ u \in Config /\ (\A s \in Packages \cup Option : u[s] = IF s \in S THEN yes ELSE v[s])
  BY ValuesAreConfigs, LevelOf DEF Config
<1>4. PICK line \in w.depends : LineValue(line, v) = no
  <2>1. FormInv(M, w)
    BY <1>2 DEF RunInv
  <2>2. Visible(p, v) # yes
    BY DEF no, yes
  <2>3. QED
    BY <1>2, <1>3, <2>1, <2>2, VisibleOf
<1>5. line \in LineType /\ FormOf(M, line) /\ SoundInv(M, p, w, {})
  BY <1>2, <1>4 DEF GenType, RunInv, FormInv
<1>6. line.any \subseteq Literals /\ line.any # {} /\ line.cond \in Seq(Literals) /\ Range(line.cond) \subseteq Literals
  <2>1. line.cond \in Seq(Literals)
    BY <1>5 DEF LineType
  <2>2. QED
    BY <1>5, <2>1, RangeOfSeq DEF FormOf
<1>7. \A l \in line.any : LitValue(l, v) = no
  <2>1. SUFFICES ASSUME NEW l \in line.any PROVE LitValue(l, v) = no
    OBVIOUS
  <2>2. LitValue(l, v) <= no /\ LitValue(l, v) \in Levels
    <3>1. l \in Literals /\ LitValue(l, v) <= LineValue(line, v)
      BY <1>3, <1>5, <1>6, LineValueOf
    <3>2. QED
      BY <1>3, <1>4, <3>1, LitValueOf
  <2>3. QED
    BY <2>2 DEF Levels, no, mod, yes
<1>8. Gathered(M, p, T, Met)
  <2>1. Lit(p) \in Met
    <3>1. Lit(p) \in Literals /\ Lit(p).sym = p /\ Lit(p).neg = FALSE
      BY <1>1, LitIsLiteral DEF Lit
    <3>2. LitValue(Lit(p), u) = yes
      <4>1. u[p] = yes
        BY <1>1, <1>3
      <4>2. LitValue(Lit(p), u) = u[Lit(p).sym]
        BY <1>3, <3>1, LitValueOf
      <4>3. QED
        BY <3>1, <4>1, <4>2
    <3>3. QED
      BY <3>1, <3>2 DEF no, yes
  <2>2. \A a \in T : \A d \in WordsOf(M, a) : d.plus /\ d.on.sym \in Taken(M) /\ d.cond \in Met \cup {None} => d.on.sym \in S
    BY DEF TakesAll, Holds
  <2>3. Always(M, p) \subseteq Met
    <3>1. SUFFICES ASSUME NEW d \in WordsOf(M, p), d.plus, d.cond \in {None, Lit(p)}, d.on.sym \in Taken(M)
          PROVE  d.on \in Met
      BY DEF Always
    <3>2. d.on.sym \in S
      BY <1>1, <2>1, <2>2, <3>1
    <3>3. d.on.neg = FALSE /\ d.on \in Literals
      BY <1>1, <3>1, WordType DEF Described, Taken
    <3>4. LitValue(d.on, u) = yes
      <4>1. u[d.on.sym] = yes
        BY <1>3, <3>2, <3>3 DEF Literals
      <4>2. QED
        BY <1>3, <3>3, <4>1, LitValueOf
    <3>5. QED
      BY <3>3, <3>4 DEF no, yes
  <2>4. ASSUME NEW a \in T, NEW d \in WordsOf(M, a), d.plus, d.cond \in Met \cup {None}, d.on.sym \in Packages \ M.buildonly
        PROVE  d.on.sym \in T
    <3>1. d.on.sym \notin Virtual
      BY <2>4 DEF MetadataAssumption
    <3>2. d.on.sym \in Taken(M)
      BY <2>4, <3>1, TakenOf
    <3>3. QED
      BY <2>2, <2>4, <3>2
  <2>5. QED
    BY <1>1, <2>1, <2>3, <2>4 DEF Gathered
<1>9. Range(line.cond) \subseteq Met
  <2>1. SUFFICES ASSUME NEW l \in Range(line.cond) PROVE LitValue(l, u) # no
    BY <1>6
  <2>2. l \in Literals /\ l \in Conditions(M)
    BY <1>5, <1>6 DEF FormOf
  <2>3. LitValue(l, v) = yes
    <3>1. line.form = "unless"
      <4>1. line.cond # <<>>
        BY DEF Range
      <4>2. QED
        BY <1>5, <4>1 DEF FormOf
    <3>2. yes - CondValue(line.cond, v) <= no
      BY <1>3, <1>4, <1>5, <1>6, <3>1, LineValueOf
    <3>3. CondValue(line.cond, v) \in Levels /\ CondValue(line.cond, v) <= LitValue(l, v) /\ LitValue(l, v) \in Levels
      BY <1>3, <1>6, <2>2, CondValueOf, LitValueOf
    <3>4. QED
      BY <3>2, <3>3 DEF Levels, no, mod, yes
  <2>4. CASE l.neg = TRUE
    <3>1. l.sym \in Option \ Taken(M)
      BY <2>2, <2>4 DEF NegatedOptions
    <3>2. l.sym \notin S
      BY <1>1, <3>1 DEF MetadataAssumption
    <3>3. u[l.sym] = v[l.sym]
      BY <1>3, <3>1, <3>2
    <3>4. LitValue(l, u) = LitValue(l, v)
      BY <3>3 DEF LitValue
    <3>5. QED
      BY <2>3, <3>4 DEF no, yes
  <2>5. CASE l.neg = FALSE
    <3>1. v[l.sym] = yes
      BY <1>3, <2>2, <2>3, <2>5, LitValueOf
    <3>2. u[l.sym] = yes
      BY <1>3, <2>2, <3>1 DEF Literals
    <3>3. LitValue(l, u) = yes
      BY <1>3, <2>2, <2>5, <3>2, LitValueOf
    <3>4. QED
      BY <3>3 DEF no, yes
  <2>6. QED
    BY <2>2, <2>4, <2>5 DEF Literals
<1>10. PICK a \in T : \E i \in DOMAIN M.depends[a] : Source(M, a, i, line, Met)
  BY <1>4, <1>5, <1>8, <1>9 DEF SoundInv, LinesSound
<1>11. PICK i \in DOMAIN M.depends[a] : Source(M, a, i, line, Met)
  BY <1>10
<1> DEFINE d == M.depends[a][i]
<1>12. d \in WordsOf(M, a) /\ a \in Packages
  BY DEF WordsOf, Range
<1> HIDE DEF d
<1>13. d.on \in Asked /\ (d.cond # None => d.cond \in Literals)
  BY <1>1, <1>12, WordType
<1>14. CASE d.on.sym \in Virtual
  <2>1. line = Providers(M, d.on.sym)
    BY <1>11, <1>14 DEF Source, d
  <2>2. ASSUME NEW r \in Real(d.on.sym) PROVE LitValue([d.on EXCEPT !.sym = r], v) = no
    <3>1. r \in Range(M.providers[d.on.sym])
      BY <1>14 DEF Real, Wanted
    <3>2. Lit(r) \in line.any
      BY <2>1, <3>1 DEF Providers, Plain, Line
    <3>3. d.on.neg = FALSE
      BY <1>1, <1>12, <1>14, WordType DEF Described, MetadataAssumption
    <3>4. [d.on EXCEPT !.sym = r] = Lit(r)
      <4>1. [d.on EXCEPT !.sym = r] = [sym |-> r, neg |-> d.on.neg]
        BY <1>13 DEF Asked
      <4>2. QED
        BY <3>3, <4>1, Zenon DEF Lit
    <3>5. QED
      BY <1>7, <3>2, <3>4
  <2>3. QED
    BY <1>12, <1>14, <2>2 DEF Hinders
<1>15. CASE d.on.sym \notin Virtual
  <2>1. ~d.plus /\ line.any = {d.on} /\ d.cond \in Met \cup {None}
    BY <1>11, <1>15 DEF Source, d
  <2>2. Holds(d.cond, u)
    BY <2>1 DEF Holds
  <2>3. ASSUME NEW r \in Real(d.on.sym) PROVE LitValue([d.on EXCEPT !.sym = r], v) = no
    <3>1. r = d.on.sym
      BY <1>15 DEF Real, Wanted, Range
    <3>2. [d.on EXCEPT !.sym = r] = d.on
      BY <1>13, <3>1 DEF Asked
    <3>3. QED
      BY <1>7, <2>1, <3>2
  <2>4. QED
    BY <1>12, <2>1, <2>2, <2>3 DEF Hinders
<1>16. QED
  BY <1>14, <1>15

LEMMA AllNothingMore ==
  ASSUME MetadataAssumption, ConfigInv
  PROVE  ProvidedPlainly(package) /\ NegatedOptions(package) => NothingMoreAsked
<1>1. SUFFICES ASSUME ProvidedPlainly(package), NegatedOptions(package), Configured, NEW v \in Values,
                      \A q \in Packages : v[q] # mod, NEW p \in Listed, Visible(p, v) = no,
                      NEW S \in SUBSET (Taken(package) \cup {p})
      PROVE  LET u == [s \in DOMAIN v |-> IF s \in S THEN yes ELSE v[s]]
             IN  p \in S /\ TakesAll(S, u) =>
                   \E q \in S \cap Packages : \E d \in WordsOf(package, q) :
                     /\ ~d.plus \/ d.on.sym \in Virtual
                     /\ d.on.sym \in Virtual \/ Holds(d.cond, u)
                     /\ \A r \in Real(d.on.sym) : LitValue([d.on EXCEPT !.sym = r], v) = no
  BY DEF NothingMoreAsked
<1>2. ASSUME NEW u, u = [s \in DOMAIN v |-> IF s \in S THEN yes ELSE v[s]], p \in S, TakesAll(S, u)
      PROVE  \E q \in S \cap Packages : \E d \in WordsOf(package, q) : Hinders(d, u, v)
  BY <1>1, <1>2, NothingMore
<1>3. QED
  BY <1>2 DEF Hinders

-----------------------------------------------------------------------------
(* What a package asks for is met. *)

(* The lines of p are those of w.                                             *)
Final(p, w) ==
  w \in GenType /\ menu[p] = MenuOf(w) /\ RunInv(package, p, w, {}) /\ HeardAll(package, w, p, <<>>)

(* A finished menu, of packages that take each other along without surprises,  *)
(* in a configuration kconfig leaves.                                         *)
Settling(v) ==
  /\ Described(package) /\ \A p \in Listed : \E w \in GenType : Final(p, w)
  /\ v \in Values /\ v \in Config /\ Settled(v) /\ Definite(v)

AllOn(cond, v) == \A l \in Range(cond) : LitValue(l, v) = yes
IsOn(c, v) == c = None \/ LitValue(c, v) = yes

(* A condition on a package that is met is y.                                 *)
LEMMA MetIsOn ==
  ASSUME NEW v \in Config, Definite(v), NEW l \in Literals, l \in Conditions(package)
  PROVE  LitValue(l, v) \in {no, yes}
<1>1. v[l.sym] \in {no, yes}
  BY LitValueOf DEF Definite, Levels
<1>2. QED
  BY <1>1 DEF LitValue, no, yes

LEMMA AllOnValue ==
  ASSUME NEW v \in Config, NEW cond \in Seq(Literals), AllOn(cond, v)
  PROVE  CondValue(cond, v) = yes
<1>1. \A l \in Range(cond) : yes <= LitValue(l, v)
  BY DEF AllOn, yes
<1>2. yes <= CondValue(cond, v) /\ CondValue(cond, v) \in Levels
  BY <1>1, CondValueOf, LevelOf
<1>3. QED
  BY <1>2 DEF Levels, no, mod, yes

LEMMA UnderOn ==
  ASSUME NEW v \in Config, NEW p \in Packages, NEW parent \in Seq(Literals), NEW c \in Conds, AllOn(parent, v), IsOn(c, v)
  PROVE  AllOn(Under(p, parent, c), v)
<1>1. CASE c \in {None, Lit(p)}
  BY <1>1, UnderOf
<1>2. CASE c \notin {None, Lit(p)}
  BY <1>2, UnderOf DEF AllOn, IsOn
<1>3. QED
  BY <1>1, <1>2

(* What selects a symbol.                                                     *)
LEMMA SelectedToOf ==
  ASSUME MetadataAssumption, NEW v, Settling(v), NEW s
  PROVE  /\ SelectedTo(s, v) \in Levels
         /\ \A p \in Listed : \A line \in menu[p].select : Lit(s) \in line.any =>
              Least({v[p], Visible(p, v), CondValue(line.cond, v)}) <= SelectedTo(s, v)
         /\ SelectedTo(s, v) # no =>
              \E p \in Listed : \E line \in menu[p].select :
                /\ Lit(s) \in line.any /\ SelectedTo(s, v) <= v[p] /\ SelectedTo(s, v) <= Visible(p, v)
                /\ SelectedTo(s, v) <= CondValue(line.cond, v)
<1> DEFINE value(p, line) == Least({v[p], Visible(p, v), CondValue(line.cond, v)})
           T == UNION {{value(p, line) : line \in {k \in menu[p].select : Lit(s) \in k.any}} : p \in Listed}
           S == {no} \cup T
<1>1. ASSUME NEW p \in Listed, NEW line \in menu[p].select
      PROVE  /\ value(p, line) \in Levels /\ value(p, line) <= v[p] /\ value(p, line) <= Visible(p, v)
             /\ value(p, line) <= CondValue(line.cond, v)
  <2>1. PICK w \in GenType : Final(p, w)
    BY DEF Settling
  <2>2. line \in LineType
    BY <2>1 DEF Final, MenuOf, GenType
  <2>3. v \in Config /\ p \in Packages /\ FormInv(package, w) /\ menu[p] = MenuOf(w) /\ line.cond \in Seq(Literals)
    BY <2>1, <2>2 DEF Settling, Listed, Final, RunInv, LineType
  <2>4. v[p] \in Levels /\ Visible(p, v) \in Levels /\ CondValue(line.cond, v) \in Levels
    BY <2>3, VisibleOf, CondValueOf DEF Config
  <2> DEFINE X == {v[p], Visible(p, v), CondValue(line.cond, v)}
  <2>5. X \in SUBSET Levels /\ X # {}
    BY <2>4
  <2>6. Least(X) \in X /\ \A y \in X : Least(X) <= y
    <3> HIDE DEF X
    <3>1. QED
      BY <2>5, LeastOf
  <2>7. QED
    BY <2>5, <2>6
<1>2. S \in SUBSET Levels /\ S # {}
  <2>1. SUFFICES ASSUME NEW y \in T PROVE y \in Levels
    BY LevelOf
  <2>2. PICK p \in Listed : y \in {value(p, line) : line \in {k \in menu[p].select : Lit(s) \in k.any}}
    OBVIOUS
  <2>3. PICK line \in menu[p].select : y = value(p, line)
    BY <2>2
  <2>4. QED
    BY <1>1, <2>3
<1>3. SelectedTo(s, v) = Most(S)
  BY DEF SelectedTo
<1>4. Most(S) \in S /\ \A y \in S : y <= Most(S)
  <2> HIDE DEF S
  <2>1. QED
    BY <1>2, MostOf
<1>5. ASSUME NEW p \in Listed, NEW line \in menu[p].select, Lit(s) \in line.any PROVE value(p, line) <= SelectedTo(s, v)
  <2>1. value(p, line) \in {value(p, k) : k \in {j \in menu[p].select : Lit(s) \in j.any}}
    BY <1>5
  <2>2. value(p, line) \in T
    BY <2>1
  <2>3. QED
    BY <1>3, <1>4, <2>2
<1>6. ASSUME SelectedTo(s, v) # no
      PROVE  \E p \in Listed : \E line \in menu[p].select :
               /\ Lit(s) \in line.any /\ SelectedTo(s, v) <= v[p] /\ SelectedTo(s, v) <= Visible(p, v)
               /\ SelectedTo(s, v) <= CondValue(line.cond, v)
  <2>1. SelectedTo(s, v) \in T
    BY <1>3, <1>4, <1>6
  <2>2. PICK p \in Listed : \E line \in menu[p].select : Lit(s) \in line.any /\ SelectedTo(s, v) = value(p, line)
    BY <2>1
  <2>3. PICK line \in menu[p].select : Lit(s) \in line.any /\ SelectedTo(s, v) = value(p, line)
    BY <2>2
  <2>4. QED
    BY <1>1, <2>3
<1>7. QED
  BY <1>2, <1>3, <1>4, <1>5, <1>6

(* What a package selects is at least what it is itself.                      *)
LEMMA SelectMet ==
  ASSUME MetadataAssumption, NEW v, Settling(v), NEW p \in Listed, NEW w, Final(p, w), NEW x \in Levels,
         x <= v[p], x <= Visible(p, v), NEW line \in w.select, AllOn(line.cond, v)
  PROVE  \E o \in Literals : line.any = {o} /\ x <= LitValue(o, v)
<1>1. PICK d \in WordsOf(package, p) : SelectOf(package, p, w, {}, line, d)
  BY DEF Final, RunInv, SelectInv
<1>2. d.plus /\ d.on.sym \in Taken(package) /\ line = SelectLine(d.on, Under(p, <<>>, d.cond))
  BY <1>1 DEF SelectOf
<1>3. line.any = {d.on}
  <2>1. SelectLine(d.on, Under(p, <<>>, d.cond)).any = {d.on}
    BY DEF SelectLine, Line
  <2>2. QED
    BY <1>2, <2>1, Zenon
<1>4. Described(package) /\ p \in Packages /\ v \in Config /\ Settled(v)
  BY DEF Settling, Listed
<1>5. d.on \in Literals /\ d.on.neg = FALSE /\ d.on.sym \notin package.buildonly
  BY <1>2, <1>4, WordType DEF Described, Taken
<1> DEFINE s == d.on.sym
<1>6. d.on = Lit(s)
  BY <1>5 DEF Literals, Lit
<1>7. x <= SelectedTo(s, v) /\ SelectedTo(s, v) \in Levels
  <2>1. line \in menu[p].select /\ Lit(s) \in line.any /\ line \in LineType
    BY <1>3, <1>6 DEF Final, MenuOf, GenType
  <2>2. Least({v[p], Visible(p, v), CondValue(line.cond, v)}) <= SelectedTo(s, v) /\ SelectedTo(s, v) \in Levels
    BY <2>1, SelectedToOf
  <2>3. CondValue(line.cond, v) = yes
    BY <1>4, <2>1, AllOnValue DEF LineType
  <2>4. v[p] \in Levels /\ Visible(p, v) \in Levels
    BY <1>4, VisibleOf DEF Config, Final, RunInv
  <2> DEFINE X == {v[p], Visible(p, v), CondValue(line.cond, v)}
  <2>5. X \in SUBSET Levels /\ X # {}
    BY <2>3, <2>4, LevelOf
  <2>6. \A y \in X : x <= y
    BY <2>3, LevelOf
  <2>7. Least(X) \in X
    <3> HIDE DEF X
    <3>1. QED
      BY <2>5, LeastOf
  <2>8. x <= Least(X) /\ Least(X) \in Levels
    BY <2>5, <2>6, <2>7
  <2>9. QED
    BY <2>2, <2>8, LevelOf
<1>8. x <= v[s]
  <2>1. CASE s \in Packages
    <3>1. s \in Listed
      BY <1>5, <2>1 DEF Listed
    <3>2. SelectedTo(s, v) <= v[s]
      BY <1>4, <3>1 DEF Settled
    <3>3. v[s] \in Levels
      BY <1>4, <2>1 DEF Config
    <3>4. x \in Nat /\ SelectedTo(s, v) \in Nat /\ v[s] \in Nat
      BY <1>7, <3>3, LevelOf
    <3>5. QED
      BY <1>7, <3>2, <3>4
  <2>2. CASE s \in Option
    <3>1. SelectedTo(s, v) # no => v[s] = yes
      BY <1>4, <2>2 DEF Settled
    <3>2. v[s] \in Levels
      BY <1>4, <2>2 DEF Config
    <3>3. QED
      BY <1>7, <3>1, <3>2 DEF Levels, no, mod, yes
  <2>3. QED
    BY <1>5, <2>1, <2>2 DEF Literals
<1>9. LitValue(d.on, v) = v[s]
  BY <1>4, <1>5, LitValueOf
<1>10. QED
  BY <1>3, <1>5, <1>8, <1>9

(* What a package that is x asks for by on.                                   *)
Met(x, on, v) ==
  \/ on.sym \in package.buildonly
  \/ on.sym \in Virtual /\ x <= LineValue(Providers(package, on.sym), v)
  \/ on.sym \notin package.buildonly \cup Virtual /\ on \in Literals /\ x <= LitValue(on, v)

(* A line of a package that is x has the value x.                             *)
LEMMA LineMet ==
  ASSUME MetadataAssumption, NEW v, Settling(v), NEW p \in Listed, NEW w, Final(p, w), NEW x \in Levels,
         x <= v[p], x <= Visible(p, v), NEW line \in Lines(w), AllOn(line.cond, v)
  PROVE  \/ \E o \in Literals : line.any = {o} /\ x <= LitValue(o, v)
         \/ line \in w.depends /\ x <= LineValue(line, v)
<1>1. CASE line \in w.select
  BY <1>1, SelectMet
<1>2. CASE line \in w.depends
  <2>1. w \in GenType /\ FormInv(package, w) /\ menu[p] = MenuOf(w) /\ v \in Config /\ line \in LineType
    BY <1>2 DEF Final, RunInv, Settling, GenType
  <2>2. Visible(p, v) \in Levels /\ Visible(p, v) <= LineValue(line, v)
    BY <1>2, <2>1, VisibleOf
  <2>3. line.any \subseteq Literals /\ line.any # {}
    BY <1>2, <2>1 DEF FormInv, FormOf
  <2>4. LineValue(line, v) \in Levels
    BY <2>1, <2>3, LineValueOf
  <2>5. x \in Nat /\ Visible(p, v) \in Nat /\ LineValue(line, v) \in Nat
    BY <2>2, <2>4, LevelOf
  <2>6. QED
    BY <1>2, <2>2, <2>5
<1>3. QED
  BY <1>1, <1>2 DEF Lines

(* The packages that provide a name, as a line.                               *)
LEMMA ProvidersOf ==
  ASSUME MetadataAssumption, NEW v, Settling(v), NEW name \in Virtual
  PROVE  LET line == Providers(package, name)
         IN  /\ line \in LineType /\ line.form = "plain" /\ line.cond = <<>>
             /\ line.any = {Lit(q) : q \in Range(package.providers[name])}
             /\ line.any \subseteq Literals /\ line.any # {} /\ v \in Config
<1>1. Described(package) /\ v \in Config
  BY DEF Settling
<1>2. package.providers[name] \in Seq(Packages) /\ package.providers[name] # <<>>
  BY <1>1 DEF Described
<1>3. Range(package.providers[name]) \subseteq Packages /\ Range(package.providers[name]) # {}
  <2>1. 1 \in DOMAIN package.providers[name]
    BY <1>2
  <2>2. package.providers[name][1] \in Range(package.providers[name])
    BY <2>1 DEF Range
  <2>3. Range(package.providers[name]) \subseteq Packages
    BY <1>2, RangeOfSeq
  <2>4. QED
    BY <2>2, <2>3
<1>4. Providers(package, name) \in LineType
  BY <1>1, ProvidersType
<1>5. QED
  BY <1>1, <1>3, <1>4, LitIsLiteral DEF Providers, Plain, Line

LEMMA VirtualLineMet ==
  ASSUME MetadataAssumption, NEW v, Settling(v), NEW p \in Listed, NEW w, Final(p, w), NEW x \in Levels,
         x <= v[p], x <= Visible(p, v), NEW name \in Virtual, Providers(package, name) \in Lines(w)
  PROVE  x <= LineValue(Providers(package, name), v)
<1> DEFINE line == Providers(package, name)
<1>1. /\ line \in LineType /\ line.cond = <<>> /\ line.any \subseteq Literals /\ line.any # {} /\ v \in Config
  BY ProvidersOf
<1>2. AllOn(line.cond, v)
  BY <1>1 DEF AllOn, Range
<1>3. \/ \E o \in Literals : line.any = {o} /\ x <= LitValue(o, v)
      \/ x <= LineValue(line, v)
  <2> HIDE DEF line
  <2>1. line \in Lines(w)
    BY DEF line
  <2>2. QED
    BY <1>2, <2>1, LineMet
<1>4. ASSUME NEW o \in Literals, line.any = {o}, x <= LitValue(o, v) PROVE x <= LineValue(line, v)
  <2>1. LineValue(line, v) \in Levels /\ LitValue(o, v) <= LineValue(line, v)
    <3> HIDE DEF line
    <3>1. QED
      BY <1>1, <1>4, LineValueOf
  <2>2. x \in Nat /\ LineValue(line, v) \in Nat /\ LitValue(o, v) \in Nat
    BY <1>1, <2>1, LitValueOf, LevelOf
  <2>3. QED
    BY <1>4, <2>1, <2>2
<1>5. QED
  BY <1>3, <1>4

(* Where a line says what a word asks for, that is met.                       *)
LEMMA AskedMet ==
  ASSUME MetadataAssumption, NEW v, Settling(v), NEW p \in Listed, NEW w, Final(p, w), NEW x \in Levels,
         x <= v[p], x <= Visible(p, v), NEW on \in Literals, NEW line \in Lines(w), AllOn(line.cond, v), line.any = {on}
  PROVE  x <= LitValue(on, v)
<1>1. \/ \E o \in Literals : line.any = {o} /\ x <= LitValue(o, v)
      \/ line \in w.depends /\ x <= LineValue(line, v)
  BY LineMet
<1>2. CASE line \in w.depends /\ x <= LineValue(line, v)
  <2>1. line \in LineType /\ line.any \subseteq Literals /\ line.any # {} /\ v \in Config /\ line.cond \in Seq(Literals)
    BY <1>2 DEF Final, GenType, Settling, LineType
  <2>2. \/ LineValue(line, v) = yes - CondValue(line.cond, v)
        \/ LineValue(line, v) = LitValue(on, v)
    BY <2>1, LineValueOf
  <2>3. CondValue(line.cond, v) = yes
    BY <2>1, AllOnValue
  <2>4. LitValue(on, v) \in Levels
    BY <2>1, LitValueOf
  <2>5. QED
    BY <1>2, <2>2, <2>3, <2>4 DEF Levels, no, mod, yes
<1>3. QED
  BY <1>1, <1>2

(* What was met in making the lines of q is met, or taken along in turn.      *)
Passed(w, q, parent, c, on, v) ==
  /\ on.sym \notin package.buildonly \cup Virtual /\ TakenBy(package, q, parent, c, on)
  /\ \E cond \in Seq(Literals) : AllOn(cond, v) /\ (on.sym \in Packages => HeardAll(package, w, on.sym, cond))

(* What a word that was met asks for, wherever it was met under conditions that *)
(* are met.                                                                     *)
LEMMA ToldMet ==
  ASSUME MetadataAssumption, NEW v, Settling(v), NEW q \in Listed, NEW w, Final(q, w), NEW x \in Levels,
         x <= v[q], x <= Visible(q, v), NEW parent \in Seq(Literals), NEW c \in Conds, NEW on \in Asked,
         on.sym \notin Virtual => on \in Literals,
         <<parent, c, on>> \in w.seen, AllOn(parent, v), IsOn(c, v)
  PROVE  Met(x, on, v) \/ Passed(w, q, parent, c, on, v)
<1> DEFINE cond == Under(q, parent, c)
<1>1. q \in Packages /\ v \in Config
  BY DEF Listed, Settling
<1>2. AllOn(cond, v) /\ cond \in Seq(Literals)
  BY <1>1, UnderOn, UnderOf
<1>3. Told(package, q, w, {}, parent, c, on)
  <2>1. ToldInv(package, q, w, {})
    BY DEF Final, RunInv
  <2> DEFINE k == <<parent, c, on>>
  <2>2. Told(package, q, w, {}, k[1], k[2], k[3])
    BY <2>1 DEF ToldInv
  <2>3. QED
    BY <2>2
<1>4. \/ on.sym \in package.buildonly
      \/ on.sym \in Virtual /\ Providers(package, on.sym) \in Lines(w)
      \/ /\ on.sym \notin package.buildonly \cup Virtual
         /\ \/ AsksFor(w, on, cond)
            \/ Takes(package, w, {}, on, cond)
            \/ Followed(package, w, {}, on.sym, cond) /\ TakenBy(package, q, parent, c, on)
  BY <1>3 DEF Told
<1>5. CASE on.sym \in Virtual /\ Providers(package, on.sym) \in Lines(w)
  BY <1>5, VirtualLineMet DEF Met
<1>6. ASSUME on.sym \notin package.buildonly \cup Virtual, AsksFor(w, on, cond) PROVE Met(x, on, v)
  <2>1. PICK line \in Lines(w) : line.any = {on} /\ line.cond \in {<<>>, cond}
    <3> HIDE DEF cond
    <3>1. QED
      BY <1>6 DEF AsksFor, Plain, Line
  <2>2. AllOn(line.cond, v)
    <3>1. AllOn(<<>>, v)
      BY DEF AllOn, Range
    <3>2. QED
      BY <1>2, <2>1, <3>1
  <2>3. on \in Literals
    BY <1>6
  <2>4. x <= LitValue(on, v)
    BY <2>1, <2>2, <2>3, AskedMet
  <2>5. QED
    BY <1>6, <2>3, <2>4 DEF Met
<1>7. ASSUME on.sym \notin package.buildonly \cup Virtual, Takes(package, w, {}, on, cond) PROVE Met(x, on, v)
  <2>1. on \in Literals
    BY <1>7
  <2>2. CASE cond = <<on>>
    <3>1. LitValue(on, v) = yes
      <4>1. on \in Range(<<on>>)
        BY DEF Range
      <4>2. QED
        BY <1>2, <2>2, <4>1 DEF AllOn
    <3>2. QED
      BY <1>7, <2>1, <3>1, LevelOf DEF Met
  <2>3. CASE SelectLine(on, cond) \in w.select
    <3> DEFINE line == SelectLine(on, cond)
    <3>1. line \in Lines(w) /\ line.any = {on} /\ line.cond = cond
      BY <2>3 DEF SelectLine, Line, Lines
    <3>2. x <= LitValue(on, v)
      <4> HIDE DEF line
      <4>1. QED
        BY <1>2, <2>1, <3>1, AskedMet
    <3>3. QED
      BY <1>7, <2>1, <3>2 DEF Met
  <2>4. QED
    BY <1>7, <2>2, <2>3 DEF Takes
<1>8. ASSUME on.sym \notin package.buildonly \cup Virtual, Followed(package, w, {}, on.sym, cond),
             TakenBy(package, q, parent, c, on)
      PROVE  Passed(w, q, parent, c, on, v)
  <2>1. on.sym \in Packages => HeardAll(package, w, on.sym, cond)
    BY <1>8 DEF Followed
  <2>2. QED
    BY <1>2, <1>8, <2>1 DEF Passed
<1>9. QED
  BY <1>4, <1>5, <1>6, <1>7, <1>8 DEF Met

(* So is what every word of a package asks for whose words were all met.      *)
LEMMA HeardMet ==
  ASSUME MetadataAssumption, NEW v, Settling(v), NEW q \in Listed, NEW w, Final(q, w), NEW x \in Levels,
         x <= v[q], x <= Visible(q, v), NEW a \in Packages, NEW parent \in Seq(Literals), AllOn(parent, v),
         HeardAll(package, w, a, parent), NEW d \in WordsOf(package, a), IsOn(d.cond, v)
  PROVE  \/ Met(x, d.on, v)
         \/ Passed(w, q, parent, d.cond, d.on, v) \/ Passed(w, q, <<>>, d.cond, d.on, v)
<1>1. Described(package) /\ v \in Config
  BY DEF Settling
<1>2. d.cond \in Conds /\ d.on \in Asked /\ (d.on.sym \notin Virtual => d.on \in Literals)
  BY <1>1, WordType
<1>3. Skipped(w, parent, d)
  BY DEF HeardAll
<1>4. CASE OptionItself(parent, d)
  <2>1. d.on.sym \in Option /\ parent = <<d.on>> /\ d.on.sym \notin Virtual
    BY <1>4 DEF OptionItself, MetadataAssumption
  <2>2. d.on.sym \notin package.buildonly
    BY <1>1, <2>1 DEF Described, MetadataAssumption
  <2>3. d.on \in Range(parent)
    BY <2>1 DEF Range
  <2>4. QED
    BY <1>2, <2>1, <2>2, <2>3, LevelOf DEF AllOn, Met
<1>5. ASSUME NEW k \in {parent, <<>>}, <<k, d.cond, d.on>> \in w.seen
      PROVE  Met(x, d.on, v) \/ Passed(w, q, k, d.cond, d.on, v)
  <2>1. k \in Seq(Literals) /\ AllOn(k, v)
    <3>1. <<>> \in Seq(Literals) /\ AllOn(<<>>, v)
      BY DEF AllOn, Range
    <3>2. QED
      BY <3>1
  <2>2. QED
    BY <1>2, <1>5, <2>1, ToldMet
<1>6. QED
  BY <1>3, <1>4, <1>5 DEF Skipped

(* A provided name is asked for without any condition.                        *)
LEMMA VirtualMet ==
  ASSUME MetadataAssumption, NEW v, Settling(v), NEW q \in Listed, NEW w, Final(q, w), NEW x \in Levels,
         x <= v[q], x <= Visible(q, v), NEW a \in Packages, NEW parent \in Seq(Literals),
         HeardAll(package, w, a, parent), NEW d \in WordsOf(package, a), d.on.sym \in Virtual
  PROVE  x <= LineValue(Providers(package, d.on.sym), v)
<1>1. Described(package)
  BY DEF Settling
<1>2. Skipped(w, parent, d) /\ d.on.sym \notin Option /\ d.on.sym \notin package.buildonly
  BY <1>1 DEF HeardAll, MetadataAssumption, Described
<1>3. PICK k \in {parent, <<>>} : <<k, d.cond, d.on>> \in w.seen
  BY <1>2 DEF Skipped, OptionItself
<1>4. Told(package, q, w, {}, k, d.cond, d.on)
  <2>1. ToldInv(package, q, w, {})
    BY DEF Final, RunInv
  <2> DEFINE key == <<k, d.cond, d.on>>
  <2>2. Told(package, q, w, {}, key[1], key[2], key[3])
    BY <1>3, <2>1 DEF ToldInv
  <2>3. QED
    BY <2>2
<1>5. Providers(package, d.on.sym) \in Lines(w)
  BY <1>2, <1>4 DEF Told
<1>6. QED
  BY <1>5, VirtualLineMet

(* What a package itself says.                                                *)
LEMMA WordMet ==
  ASSUME MetadataAssumption, NEW v, Settling(v), NEW p \in Listed, v[p] <= Visible(p, v),
         NEW x \in Levels, x <= v[p], NEW d \in WordsOf(package, p)
  PROVE  /\ IsOn(d.cond, v) => Met(x, d.on, v)
         /\ d.on.sym \in Virtual => x <= LineValue(Providers(package, d.on.sym), v)
<1>1. PICK w \in GenType : Final(p, w)
  BY DEF Settling
<1>2. p \in Packages /\ v \in Config /\ FormInv(package, w) /\ menu[p] = MenuOf(w) /\ HeardAll(package, w, p, <<>>)
  BY <1>1 DEF Listed, Settling, Final, RunInv
<1>3. x <= Visible(p, v)
  <2>1. x \in Nat /\ v[p] \in Nat /\ Visible(p, v) \in Nat
    BY <1>2, VisibleOf, LevelOf DEF Config
  <2>2. QED
    BY <2>1
<1>4. <<>> \in Seq(Literals) /\ AllOn(<<>>, v)
  BY DEF AllOn, Range
<1>5. ASSUME IsOn(d.cond, v) PROVE Met(x, d.on, v)
  <2>1. Met(x, d.on, v) \/ Passed(w, p, <<>>, d.cond, d.on, v)
    BY <1>1, <1>2, <1>3, <1>4, <1>5, HeardMet
  <2>2. ~Passed(w, p, <<>>, d.cond, d.on, v)
    BY DEF Passed, TakenBy
  <2>3. QED
    BY <2>1, <2>2
<1>6. ASSUME d.on.sym \in Virtual PROVE x <= LineValue(Providers(package, d.on.sym), v)
  BY <1>1, <1>2, <1>3, <1>4, <1>6, VirtualMet
<1>7. QED
  BY <1>5, <1>6

(* A package that is taken along under conditions that are met.               *)
Heard(w, a, v) ==
  \E cond \in Seq(Literals) : AllOn(cond, v) /\ HeardAll(package, w, a, cond)

(* What q selects at the level x it is at, with what that takes along.        *)
Reached(w, p, x, rank, S, v) ==
  {a \in S : /\ a \in Chosen(package) /\ (a = p \/ rank[a] < rank[p])
             /\ Heard(w, a, v) \/ (rank[a] < rank[p] /\ x <= v[a])}

(* The conditions that are met, as far as they bear on p.                     *)
Meets(p, v) == {l \in Literals : LitValue(l, v) = yes} \cup Always(package, p) \cup {Lit(p)}

(* p is selected by q with the value x it has.                                *)
Selecting(v, rank, p, q, w, x, S) ==
  /\ Settling(v) /\ Agreed(package) /\ Ranks(package, rank) /\ rank \in [Packages -> Nat]
  /\ p \in Listed /\ q \in Listed /\ Final(q, w)
  /\ x \in Levels \ {no} /\ v[p] = x /\ x <= v[q] /\ x <= Visible(q, v)
  /\ p \in Chosen(package) /\ Heard(w, p, v)
  /\ \A r \in Listed : rank[r] < rank[p] => v[r] <= Visible(r, v)
  /\ S \in SUBSET Packages /\ p \in S /\ Closed(package, S)
  /\ \A r \in S : \A d \in WordsOf(package, r) : d.cond \notin Always(package, p)

LEMMA SelectingTypes ==
  ASSUME MetadataAssumption, NEW v, NEW rank, NEW p, NEW q, NEW w, NEW x, NEW S, Selecting(v, rank, p, q, w, x, S)
  PROVE  /\ Described(package) /\ v \in Config /\ p \in Packages /\ x \in Nat
         /\ Always(package, p) \subseteq Literals /\ Meets(p, v) \subseteq Literals
         /\ Chosen(package) \subseteq Listed
<1>1. Described(package) /\ v \in Config /\ p \in Packages /\ x \in Nat
  BY LevelOf DEF Selecting, Settling, Listed
<1>2. Chosen(package) \subseteq Listed
  BY DEF Chosen, Taken, Listed
<1>3. Always(package, p) \subseteq Literals
  <2>1. SUFFICES ASSUME NEW d \in WordsOf(package, p), d.plus, d.on.sym \in Taken(package)
                 PROVE  d.on \in Literals
    BY DEF Always
  <2>2. d.on.sym \notin Virtual
    BY <2>1 DEF Taken
  <2>3. QED
    BY <1>1, <2>2, WordType
<1>4. QED
  BY <1>1, <1>2, <1>3, LitIsLiteral DEF Meets

(* A word of such a package whose condition is met, is.                       *)
LEMMA MeetsIsOn ==
  ASSUME MetadataAssumption, NEW v, NEW rank, NEW p, NEW q, NEW w, NEW x, NEW S, Selecting(v, rank, p, q, w, x, S),
         NEW a \in S, NEW d \in WordsOf(package, a), d.cond \in Meets(p, v) \cup {None}
  PROVE  IsOn(d.cond, v)
<1>1. CASE d.cond = Lit(p) /\ d.cond # None
  <2>1. a \in Packages /\ Definite(v) /\ v \in Config /\ p \in Packages
    BY SelectingTypes DEF Selecting, Settling
  <2>2. Lit(p) \in Conditions(package)
    BY <1>1, <2>1, ConditionOf
  <2>3. v[p] # mod
    BY <2>1, <2>2 DEF Definite, Lit
  <2>4. v[p] = yes
    BY <2>3 DEF Selecting, Levels, no, mod, yes
  <2>5. LitValue(Lit(p), v) = yes
    BY <2>4 DEF LitValue, Lit
  <2>6. QED
    BY <1>1, <2>5 DEF IsOn
<1>2. d.cond \notin Always(package, p)
  BY DEF Selecting
<1>3. QED
  BY <1>1, <1>2 DEF Meets, IsOn

(* What q takes along with p is closed under what is taken along.             *)
LEMMA ReachedGathers ==
  ASSUME MetadataAssumption, NEW v, NEW rank, NEW p, NEW q, NEW w, NEW x, NEW S, Selecting(v, rank, p, q, w, x, S)
  PROVE  Gathered(package, p, Reached(w, p, x, rank, S, v), Meets(p, v))
<1> DEFINE R == Reached(w, p, x, rank, S, v)
<1>1. p \in R
  BY DEF Reached, Selecting
<1>2. Lit(p) \in Meets(p, v) /\ Always(package, p) \subseteq Meets(p, v)
  BY DEF Meets
<1>3. ASSUME NEW a \in R, NEW d \in WordsOf(package, a), d.plus, d.cond \in Meets(p, v) \cup {None},
             d.on.sym \in Packages \ package.buildonly
      PROVE  d.on.sym \in R
  <2> DEFINE b == d.on.sym
  <2>1. /\ a \in S /\ a \in Chosen(package) /\ (a = p \/ rank[a] < rank[p])
        /\ Heard(w, a, v) \/ (rank[a] < rank[p] /\ x <= v[a])
    BY DEF Reached
  <2>2. /\ Described(package) /\ v \in Config /\ p \in Packages /\ x \in Nat /\ a \in Packages /\ a \in Listed
        /\ b \notin Virtual
    <3>1. Packages \cap Virtual = {}
      BY DEF MetadataAssumption
    <3>2. QED
      BY <1>3, <2>1, <3>1, SelectingTypes DEF Listed
  <2>3. b \in S
    BY <1>3, <2>1 DEF Selecting, Closed
  <2>4. b \in Chosen(package)
    BY <1>3, <2>2, TakenOf
  <2>5. rank[b] < rank[p]
    <3>1. rank[b] < rank[a] /\ rank[a] \in Nat /\ rank[b] \in Nat /\ rank[p] \in Nat
      BY <1>3, <2>2 DEF Selecting, Ranks
    <3>2. QED
      BY <2>1, <3>1
  <2>6. IsOn(d.cond, v)
    BY <1>3, <2>1, MeetsIsOn
  <2>7. d.on \in Literals /\ d.on.neg = FALSE
    BY <1>3, <2>2, WordType DEF Described
  <2>8. Met(x, d.on, v) => x <= v[b]
    BY <1>3, <2>2, <2>7, LitValueOf DEF Met
  <2>9. ASSUME Heard(w, a, v) PROVE Heard(w, b, v) \/ x <= v[b]
    <3>1. PICK cond \in Seq(Literals) : AllOn(cond, v) /\ HeardAll(package, w, a, cond)
      BY <2>9 DEF Heard
    <3>2. \/ Met(x, d.on, v)
          \/ Passed(w, q, cond, d.cond, d.on, v) \/ Passed(w, q, <<>>, d.cond, d.on, v)
      <4>1. Settling(v) /\ q \in Listed /\ Final(q, w) /\ x \in Levels /\ x <= v[q] /\ x <= Visible(q, v)
        BY DEF Selecting
      <4>2. QED
        BY <2>2, <2>6, <3>1, <4>1, HeardMet
    <3>3. QED
      BY <1>3, <2>8, <3>2 DEF Passed, Heard
  <2>10. ASSUME rank[a] < rank[p], x <= v[a] PROVE x <= v[b]
    <3>1. Settling(v) /\ v[a] <= Visible(a, v) /\ x \in Levels
      BY <2>2, <2>10 DEF Selecting
    <3>2. Met(x, d.on, v)
      BY <2>2, <2>6, <2>10, <3>1, WordMet
    <3>3. QED
      BY <2>8, <3>2
  <2>11. QED
    BY <2>1, <2>3, <2>4, <2>5, <2>9, <2>10 DEF Reached
<1>4. QED
  BY <1>1, <1>2, <1>3 DEF Gathered

(* A line of p that a word of such a package says is met.                     *)
LEMMA SourceMet ==
  ASSUME MetadataAssumption, NEW v, NEW rank, NEW p, NEW q, NEW w, NEW x, NEW S, Selecting(v, rank, p, q, w, x, S),
         NEW line \in LineType, line.any \subseteq Literals, line.any # {},
         NEW a \in Reached(w, p, x, rank, S, v), NEW i \in DOMAIN package.depends[a],
         Source(package, a, i, line, Meets(p, v))
  PROVE  x <= LineValue(line, v)
<1> DEFINE d == package.depends[a][i]
<1>1. /\ a \in S /\ a \in Chosen(package)
      /\ Heard(w, a, v) \/ (rank[a] < rank[p] /\ x <= v[a])
  BY DEF Reached
<1>2. Described(package) /\ v \in Config /\ x \in Nat /\ x \in Levels /\ a \in Packages /\ a \in Listed
  BY <1>1, SelectingTypes DEF Listed, Selecting
<1>3. d \in WordsOf(package, a)
  BY DEF WordsOf, Range
<1>4. Settling(v) /\ q \in Listed /\ Final(q, w) /\ x <= v[q] /\ x <= Visible(q, v)
  BY DEF Selecting
<1>5. rank[a] < rank[p] => v[a] <= Visible(a, v)
  BY <1>2 DEF Selecting
<1>6. CASE d.on.sym \in Virtual
  <2>1. line = Providers(package, d.on.sym)
    BY <1>6 DEF Source
  <2>2. x <= LineValue(Providers(package, d.on.sym), v)
    <3>1. CASE Heard(w, a, v)
      <4>1. PICK cond \in Seq(Literals) : AllOn(cond, v) /\ HeardAll(package, w, a, cond)
        BY <3>1 DEF Heard
      <4> HIDE DEF d
      <4>2. QED
        BY <1>2, <1>3, <1>4, <1>6, <4>1, VirtualMet
    <3>2. CASE rank[a] < rank[p] /\ x <= v[a]
      <4> HIDE DEF d
      <4>1. QED
        BY <1>2, <1>3, <1>4, <1>5, <1>6, <3>2, WordMet
    <3>3. QED
      BY <1>1, <3>1, <3>2
  <2>3. QED
    BY <2>1, <2>2
<1>7. CASE d.on.sym \notin Virtual
  <2>1. /\ ~d.plus /\ line.any = {d.on} /\ d.cond \in Meets(p, v) \cup {None} /\ First(package, a, i)
        /\ d.on.sym \notin package.buildonly
    BY <1>7 DEF Source
  <2>2. IsOn(d.cond, v)
    <3> HIDE DEF d
    <3>1. QED
      BY <1>1, <1>3, <2>1, MeetsIsOn
  <2>3. Met(x, d.on, v)
    <3>1. CASE Heard(w, a, v)
      <4>1. PICK cond \in Seq(Literals) : AllOn(cond, v) /\ HeardAll(package, w, a, cond)
        BY <3>1 DEF Heard
      <4>2. \/ Met(x, d.on, v)
            \/ Passed(w, q, cond, d.cond, d.on, v) \/ Passed(w, q, <<>>, d.cond, d.on, v)
        <5> HIDE DEF d
        <5>1. QED
          BY <1>2, <1>3, <1>4, <2>2, <4>1, HeardMet
      <4>3. ASSUME NEW k, TakenBy(package, q, k, d.cond, d.on) PROVE FALSE
        <5>1. PICK b \in Chosen(package), j \in Nat : j \in DOMAIN package.depends[b] /\ SaysTake(package, b, j, d.cond, d.on)
          <6>1. PICK b \in Chosen(package) :
                  \E j \in DOMAIN package.depends[b] : SaysTake(package, b, j, d.cond, d.on)
            BY <4>3 DEF TakenBy
          <6>2. b \in Packages
            BY SelectingTypes DEF Listed, Chosen
          <6>3. DOMAIN package.depends[b] \subseteq Nat
            BY <1>2, <6>2 DEF Described
          <6>4. QED
            BY <6>1, <6>3
        <5> DEFINE e == package.depends[b][j]
        <5>2. First(package, b, j) /\ e.plus /\ e.cond = d.cond /\ e.on = d.on
          BY <5>1 DEF SaysTake
        <5>3. Agreed(package)
          BY DEF Selecting
        <5>4. d.plus = e.plus
          BY <1>1, <2>1, <5>1, <5>2, <5>3 DEF Agreed
        <5>5. QED
          BY <2>1, <5>2, <5>4
      <4>4. QED
        BY <4>2, <4>3 DEF Passed
    <3>2. CASE rank[a] < rank[p] /\ x <= v[a]
      <4> HIDE DEF d
      <4>1. QED
        BY <1>2, <1>3, <1>4, <1>5, <2>2, <3>2, WordMet
    <3>3. QED
      BY <1>1, <3>1, <3>2
  <2>4. d.on \in Literals /\ x <= LitValue(d.on, v)
    BY <1>7, <2>1, <2>3 DEF Met
  <2>5. LitValue(d.on, v) <= LineValue(line, v) /\ LineValue(line, v) \in Levels /\ LitValue(d.on, v) \in Levels
    <3> HIDE DEF d
    <3>1. QED
      BY <1>2, <2>1, <2>4, LineValueOf, LitValueOf
  <2>6. LineValue(line, v) \in Nat /\ LitValue(d.on, v) \in Nat
    BY <2>5, LevelOf
  <2>7. QED
    BY <1>2, <2>4, <2>5, <2>6
<1>8. QED
  BY <1>6, <1>7

(* Every line of p has at least the value of p: a word says it that is met.   *)
LEMMA SelectingShown ==
  ASSUME MetadataAssumption, NEW v, NEW rank, NEW p, NEW q, NEW w, NEW x, NEW S, Selecting(v, rank, p, q, w, x, S)
  PROVE  x <= Visible(p, v)
<1> DEFINE R == Reached(w, p, x, rank, S, v)
<1>1. /\ Described(package) /\ v \in Config /\ p \in Packages /\ x \in Nat /\ x \in Levels
      /\ Meets(p, v) \subseteq Literals /\ Definite(v)
  BY SelectingTypes DEF Selecting, Settling
<1>2. PICK k \in GenType : Final(p, k)
  BY DEF Selecting, Settling
<1>3. FormInv(package, k) /\ SoundInv(package, p, k, {}) /\ menu[p] = MenuOf(k)
  BY <1>2 DEF Final, RunInv
<1>4. R \in SUBSET Packages
  BY DEF Reached, Selecting
<1>5. LinesSound(package, k, R, Meets(p, v))
  BY <1>1, <1>3, <1>4, ReachedGathers DEF SoundInv
<1>6. ASSUME NEW line \in k.depends PROVE x <= LineValue(line, v)
  <2>1. line \in LineType /\ line.any \subseteq Literals /\ line.any # {} /\ line.cond \in Seq(Literals)
    BY <1>3 DEF FormInv, FormOf, GenType, LineType
  <2>2. CASE Range(line.cond) \subseteq Meets(p, v)
    <3>1. PICK a \in R : \E i \in DOMAIN package.depends[a] : Source(package, a, i, line, Meets(p, v))
      BY <1>5, <2>2 DEF LinesSound
    <3>2. PICK i \in DOMAIN package.depends[a] : Source(package, a, i, line, Meets(p, v))
      BY <3>1
    <3>3. QED
      BY <2>1, <3>2, SourceMet
  <2>3. ASSUME NEW l \in Range(line.cond), l \notin Meets(p, v) PROVE x <= LineValue(line, v)
    <3>1. l \in Literals /\ l \in Conditions(package) /\ line.form = "unless"
      <4>1. line.cond # <<>>
        BY <2>3 DEF Range
      <4>2. FormOf(package, line)
        BY <1>3 DEF FormInv
      <4>3. Range(line.cond) \subseteq Literals
        BY <2>1, RangeOfSeq
      <4>4. QED
        BY <2>3, <4>1, <4>2, <4>3 DEF FormOf
    <3>2. LitValue(l, v) = no
      BY <1>1, <2>3, <3>1, MetIsOn DEF Meets
    <3>3. CondValue(line.cond, v) \in Levels /\ CondValue(line.cond, v) <= no
      BY <1>1, <2>1, <2>3, <3>2, CondValueOf
    <3>4. CondValue(line.cond, v) = no
      BY <3>3 DEF Levels, no, mod, yes
    <3>5. yes - CondValue(line.cond, v) <= LineValue(line, v) /\ LineValue(line, v) \in Levels
      BY <1>1, <2>1, <3>1, LineValueOf
    <3>6. QED
      BY <1>1, <3>4, <3>5 DEF Levels, no, mod, yes
  <2>4. QED
    BY <2>2, <2>3
<1>7. QED
  BY <1>1, <1>2, <1>3, <1>6, VisibleOf

(* A package whose lesser ones are within what their lines allow is, too.      *)
LEMMA ShownStep ==
  ASSUME MetadataAssumption, NEW v, Settling(v), Agreed(package), OwnConditions(package),
         NEW rank \in [Packages -> Nat], Ranks(package, rank), NEW p \in Listed,
         \A r \in Listed : rank[r] < rank[p] => v[r] <= Visible(r, v)
  PROVE  v[p] <= Visible(p, v)
<1> DEFINE x == v[p]
<1>1. Described(package) /\ v \in Config /\ p \in Packages /\ Settled(v) /\ Definite(v) /\ p \notin package.buildonly
  BY DEF Settling, Listed
<1>2. PICK k \in GenType : Final(p, k)
  BY DEF Settling
<1>3. x \in Levels /\ Visible(p, v) \in Levels /\ SelectedTo(p, v) \in Levels
  BY <1>1, <1>2, VisibleOf, SelectedToOf DEF Config, Final, RunInv
<1>4. SelectedTo(p, v) <= x /\ x <= Most({Visible(p, v), SelectedTo(p, v)})
  BY <1>1 DEF Settled
<1>5. Most({Visible(p, v), SelectedTo(p, v)}) \in {Visible(p, v), SelectedTo(p, v)}
  <2> DEFINE X == {Visible(p, v), SelectedTo(p, v)}
  <2>1. X \in SUBSET Levels /\ X # {}
    BY <1>3
  <2> HIDE DEF X
  <2>2. Most(X) \in X
    BY <2>1, MostOf
  <2>3. QED
    BY <2>2 DEF X
<1>6. SUFFICES ASSUME ~(x <= Visible(p, v)) PROVE FALSE
  OBVIOUS
<1>7. x = SelectedTo(p, v) /\ x # no
  BY <1>3, <1>4, <1>5, <1>6 DEF Levels, no, mod, yes
<1>8. PICK q \in Listed : \E line \in menu[q].select :
        Lit(p) \in line.any /\ x <= v[q] /\ x <= Visible(q, v) /\ x <= CondValue(line.cond, v)
  BY <1>7, SelectedToOf
<1>9. PICK line \in menu[q].select :
        Lit(p) \in line.any /\ x <= v[q] /\ x <= Visible(q, v) /\ x <= CondValue(line.cond, v)
  BY <1>8
<1>10. PICK w \in GenType : Final(q, w)
  BY DEF Settling
<1>11. q \in Packages /\ line \in w.select /\ line \in LineType /\ line.cond \in Seq(Literals)
  BY <1>9, <1>10 DEF Final, MenuOf, GenType, LineType, Listed
<1>12. PICK d \in WordsOf(package, q) : SelectOf(package, q, w, {}, line, d)
  BY <1>10, <1>11 DEF Final, RunInv, SelectInv
<1> DEFINE cond == Under(q, <<>>, d.cond)
<1>13. /\ d.plus /\ d.on.sym \in Taken(package) /\ line = SelectLine(d.on, cond)
       /\ Followed(package, w, {}, d.on.sym, cond) /\ d.cond \in Conds
  BY <1>1, <1>11, <1>12, WordType DEF SelectOf
<1>14. line.any = {d.on} /\ line.cond = cond
  <2> HIDE DEF cond
  <2>1. SelectLine(d.on, cond).any = {d.on} /\ SelectLine(d.on, cond).cond = cond
    BY DEF SelectLine, Line
  <2>2. QED
    BY <1>13, <2>1, Zenon
<1>15. d.on.sym = p
  BY <1>9, <1>14 DEF Lit
<1>16. p \in Chosen(package) /\ HeardAll(package, w, p, cond)
  BY <1>1, <1>13, <1>15 DEF Chosen, Followed
<1>17. AllOn(cond, v) /\ cond \in Seq(Literals)
  <2>1. Range(cond) \subseteq Conditions(package)
    <3>1. Range(<<>>) \subseteq Conditions(package) /\ <<>> \in Seq(Literals)
      BY DEF Range
    <3>2. QED
      BY <1>11, <1>13, <3>1, UnderConditions
  <2>2. SUFFICES ASSUME NEW l \in Range(line.cond) PROVE LitValue(l, v) = yes
    BY <1>11, <1>14 DEF AllOn
  <2>3. l \in Literals /\ l \in Conditions(package)
    BY <1>11, <1>14, <2>1, RangeOfSeq
  <2>4. LitValue(l, v) \in {no, yes}
    BY <1>1, <2>3, MetIsOn
  <2>5. CondValue(line.cond, v) \in Levels /\ CondValue(line.cond, v) <= LitValue(l, v)
    BY <1>1, <1>11, CondValueOf
  <2>6. QED
    BY <1>3, <1>7, <1>9, <2>4, <2>5 DEF Levels, no, mod, yes
<1>18. PICK S \in SUBSET Packages :
         p \in S /\ Closed(package, S) /\ \A r \in S : \A e \in WordsOf(package, r) : e.cond \notin Always(package, p)
  BY <1>16 DEF OwnConditions
<1>19. Selecting(v, rank, p, q, w, x, S)
  BY <1>3, <1>7, <1>9, <1>10, <1>16, <1>17, <1>18 DEF Selecting, Heard
<1>20. QED
  BY <1>6, <1>19, SelectingShown

(* What is on is within what its lines allow, selected or not.                *)
LEMMA Shown ==
  ASSUME MetadataAssumption, NEW v, Settling(v), Agreed(package), OwnConditions(package),
         NEW rank \in [Packages -> Nat], Ranks(package, rank), NEW p \in Listed
  PROVE  v[p] <= Visible(p, v)
<1> DEFINE Bad == {r \in Listed : ~(v[r] <= Visible(r, v))}
<1>1. SUFFICES ASSUME Bad # {} PROVE FALSE
  OBVIOUS
<1> DEFINE N == {rank[r] : r \in Bad}
<1>2. Bad \subseteq Packages
  BY DEF Listed
<1>3. N \in SUBSET Nat /\ N # {}
  BY <1>1, <1>2
<1>4. PICK m \in N : \A k \in N : m <= k
  <2> HIDE DEF N
  <2>1. QED
    BY <1>3, LeastNumber
<1>5. PICK r \in Bad : m = rank[r]
  BY <1>4
<1>6. \A s \in Listed : rank[s] < rank[r] => v[s] <= Visible(s, v)
  <2>1. SUFFICES ASSUME NEW s \in Bad, rank[s] < rank[r] PROVE FALSE
    OBVIOUS
  <2>2. rank[s] \in N /\ rank[s] \in Nat /\ rank[r] \in Nat
    BY <1>2
  <2>3. m <= rank[s]
    <3> HIDE DEF N
    <3>1. QED
      BY <1>4, <2>2
  <2>4. QED
    BY <1>5, <2>1, <2>2, <2>3
<1>7. v[r] <= Visible(r, v)
  BY <1>5, <1>6, ShownStep
<1>8. QED
  BY <1>5, <1>7

(* A word for a provided name is met by the best of its packages.             *)
LEMMA ProvidedMet ==
  ASSUME MetadataAssumption, NEW v, Settling(v), NEW name \in Virtual, NEW x \in Levels,
         x <= LineValue(Providers(package, name), v)
  PROVE  x <= Most({no} \cup {v[q] : q \in Real(name)})
<1> DEFINE line == Providers(package, name)
           X == {no} \cup {v[q] : q \in Real(name)}
<1>1. /\ line \in LineType /\ line.form = "plain" /\ line.any = {Lit(q) : q \in Range(package.providers[name])}
      /\ line.any \subseteq Literals /\ line.any # {} /\ v \in Config
  BY ProvidersOf
<1>2. \E l \in line.any : LineValue(line, v) = LitValue(l, v)
  <2> HIDE DEF line
  <2>1. QED
    BY <1>1, LineValueOf
<1>3. PICK q \in Range(package.providers[name]) : LineValue(line, v) = LitValue(Lit(q), v)
  BY <1>1, <1>2
<1>4. Range(package.providers[name]) \subseteq Packages
  <2>1. package.providers[name] \in Seq(Packages)
    BY DEF Settling, Described
  <2>2. QED
    BY <2>1, RangeOfSeq
<1>5. LitValue(Lit(q), v) = v[q]
  BY DEF LitValue, Lit
<1>6. X \in SUBSET Levels /\ X # {}
  <2>1. Real(name) \subseteq Packages
    BY <1>4 DEF Real, Wanted
  <2>2. QED
    BY <1>1, <2>1, LevelOf DEF Config
<1>7. v[q] \in X
  <2>1. CASE q \in package.buildonly
    BY <1>4, <2>1 DEF Settling, Values
  <2>2. CASE q \notin package.buildonly
    BY <1>3, <2>2 DEF Real, Wanted
  <2>3. QED
    BY <2>1, <2>2
<1>8. Most(X) \in Levels /\ v[q] <= Most(X)
  <2> HIDE DEF X
  <2>1. QED
    BY <1>6, <1>7, MostOf
<1>9. x \in Nat /\ v[q] \in Nat /\ Most(X) \in Nat
  <2> HIDE DEF X
  <2>1. QED
    BY <1>6, <1>7, <1>8, LevelOf
<1>10. QED
  BY <1>3, <1>5, <1>8, <1>9

LEMMA AllDependsMet ==
  ASSUME MetadataAssumption, ConfigInv
  PROVE  Tame(package) => DependsMet
<1>1. SUFFICES ASSUME Tame(package), Configured, NEW v \in Values, Settled(v), Definite(v),
                      NEW p \in Listed, NEW d \in WordsOf(package, p), Holds(d.cond, v),
                      d.on.sym \notin package.buildonly
               PROVE  v[p] <= (IF d.on.sym \in Virtual THEN Most({no} \cup {v[q] : q \in Real(d.on.sym)})
                               ELSE LitValue(d.on, v))
  BY DEF DependsMet
<1>2. Settling(v)
  <2>1. v \in Config
    BY ValuesAreConfigs
  <2>2. ProvidedPlainly(package)
    BY <1>1 DEF Tame
  <2>3. Described(package)
    BY <1>1, <2>2, MenuLines
  <2>4. ASSUME NEW r \in Listed PROVE \E w \in GenType : Final(r, w)
    <3>1. PICK w \in GenType : menu[r] = MenuOf(w) /\ RunInv(package, r, w, {}) /\ HeardAll(package, w, r, <<>>)
      BY <1>1, <2>2, MenuLines
    <3>2. QED
      BY <3>1 DEF Final
  <2>5. QED
    BY <1>1, <2>1, <2>3, <2>4 DEF Settling
<1>3. PICK rank \in [Packages -> Nat] : Ranks(package, rank)
  BY <1>1 DEF Tame
<1>4. v[p] <= Visible(p, v)
  BY <1>1, <1>2, <1>3, Shown DEF Tame
<1>5. v[p] \in Levels /\ p \in Packages /\ v \in Config /\ Described(package)
  BY <1>2 DEF Settling, Config, Listed
<1>6. d.cond \in Conds /\ (d.cond # None => d.cond \in Literals /\ d.cond \in Conditions(package))
  BY <1>5, WordType, ConditionOf
<1>7. IsOn(d.cond, v)
  <2>1. CASE d.cond # None
    <3>1. LitValue(d.cond, v) \in {no, yes}
      BY <1>1, <1>5, <1>6, <2>1, MetIsOn
    <3>2. QED
      BY <1>1, <2>1, <3>1 DEF Holds, IsOn
  <2>2. QED
    BY <2>1 DEF IsOn
<1>8. v[p] <= v[p]
  <2>1. v[p] \in Nat
    BY <1>5, LevelOf
  <2>2. QED
    BY <2>1
<1>9. /\ Met(v[p], d.on, v)
      /\ d.on.sym \in Virtual => v[p] <= LineValue(Providers(package, d.on.sym), v)
  BY <1>2, <1>4, <1>5, <1>7, <1>8, WordMet
<1>10. CASE d.on.sym \in Virtual
  BY <1>2, <1>5, <1>9, <1>10, ProvidedMet
<1>11. CASE d.on.sym \notin Virtual
  BY <1>1, <1>9, <1>11 DEF Met
<1>12. QED
  BY <1>10, <1>11

-----------------------------------------------------------------------------
(* CompiledBefore: gen_package_mk writes a prerequisite for every word whose    *)
(* condition is met, however many words and packages of the source there are, *)
(* where conditions that are negated are on options no package selects and    *)
(* the providers of a name are built from one source.                         *)
THEOREM CompileOrder == Spec => [](NegatedOptions(package) /\ OneSource(package) => CompiledBefore)
<1>1. ConfigInv => (NegatedOptions(package) /\ OneSource(package) => CompiledBefore)
  BY MetadataAssumption, AllCompiled DEF ConfigInv
<1>2. Init => ConfigInv
  BY MetadataAssumption, ConfigInit
<1>3. ConfigInv /\ [Next]_vars => ConfigInv'
  BY MetadataAssumption, ConfigStep
<1>4. QED
  BY <1>1, <1>2, <1>3, PTL DEF Spec

(* NothingMoreAsked: no package is hidden in the menu but for a dependency of *)
(* its own, or of a package it takes along, that is off, where what is taken  *)
(* along under a condition asks for no provided name.                         *)
THEOREM MenuNotStricter == Spec => [](ProvidedPlainly(package) /\ NegatedOptions(package) => NothingMoreAsked)
<1>1. ConfigInv => (ProvidedPlainly(package) /\ NegatedOptions(package) => NothingMoreAsked)
  BY MetadataAssumption, AllNothingMore
<1>2. Init => ConfigInv
  BY MetadataAssumption, ConfigInit
<1>3. ConfigInv /\ [Next]_vars => ConfigInv'
  BY MetadataAssumption, ConfigStep
<1>4. QED
  BY <1>1, <1>2, <1>3, PTL DEF Spec

(* DependsMet: in every configuration kconfig can settle into, whatever packages *)
(* there are and however they select each other, a package has what it        *)
(* depends on, where the packages taken along agree on their words, do not    *)
(* make conditions of what selects them, and do not select each other in a    *)
(* circle.                                                                    *)
THEOREM MenuComplete == Spec => [](Tame(package) => DependsMet)
<1>1. ConfigInv => (Tame(package) => DependsMet)
  BY MetadataAssumption, AllDependsMet
<1>2. Init => ConfigInv
  BY MetadataAssumption, ConfigInit
<1>3. ConfigInv /\ [Next]_vars => ConfigInv'
  BY MetadataAssumption, ConfigStep
<1>4. QED
  BY <1>1, <1>2, <1>3, PTL DEF Spec
=============================================================================
