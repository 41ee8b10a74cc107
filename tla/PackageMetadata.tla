--------------------------- MODULE PackageMetadata ---------------------------
(***************************************************************************)
(* metadata.pl: from the DEPENDS of the packages, the menu the user        *)
(* configures (gen_package_config) and the prerequisites of the package    *)
(* compile targets (gen_package_mk).  Kconfig's select ignores what the    *)
(* selected symbol depends on, so the generator repeats it in every        *)
(* package that selects.  A Perl string that serves as a hash key is here  *)
(* the record of its parts.                                                *)
(***************************************************************************)
EXTENDS Integers, Sequences, Functions

CONSTANTS
  Package,   \* the packages, in the order of %package
  Option,    \* the boolean options of the menu
  Virtual,   \* the names that packages provide
  Metadata,  \* what the package Makefiles may say
  None       \* no condition

no == 0
mod == 1
yes == 2

Packages == Range(Package)

(* A literal of a condition: PACKAGE_x or !PACKAGE_x, OPTION or !OPTION. *)
Lit(s) == [sym |-> s, neg |-> FALSE]
NotLit(s) == [sym |-> s, neg |-> TRUE]

(* A word of DEPENDS: its + flag, its condition, what it asks for. *)
Word(plus, cond, on) == [plus |-> plus, cond |-> cond, on |-> on]

(* parse_package_metadata: depends, provided names, source, build-only ones. *)
Wanted(M, name) == IF name \in Virtual THEN M.providers[name] ELSE <<name>>
WordsOf(M, p) == Range(M.depends[p])

Literals == [sym : Packages \cup Option, neg : BOOLEAN]
AnyWord ==
  [plus : BOOLEAN, cond : {None} \cup Literals, on : [sym : Packages \cup Option \cup Virtual, neg : BOOLEAN]]

(* Only an option that is not selected can be asked for negated.             *)
Described(M) ==
  /\ M.depends \in [Packages -> Seq(AnyWord)]
  /\ \A p \in Packages : \A d \in WordsOf(M, p) : d.on.neg => d.on.sym \in Option /\ ~d.plus
  /\ \A name \in Virtual : M.providers[name] \in Seq(Packages) /\ M.providers[name] # <<>>
  /\ M.buildonly \subseteq Packages

ASSUME MetadataAssumption ==
  /\ Package \in Seq(Packages)
  /\ Packages \cap Option = {} /\ (Packages \cup Option) \cap Virtual = {}
  /\ None \notin Packages \cup Literals
  /\ \A M \in Metadata : Described(M)

-----------------------------------------------------------------------------
(* The menu. *)

(* The keys of %$dep: "X", "X if C", "!(C) || X"; X may be a disjunction.  Its *)
(* values are "select" and "depends on": w holds the keys that have each,     *)
(* with %$seen and @t_depends.                                                *)
Line(form, any, cond) == [form |-> form, any |-> any, cond |-> cond]
Plain(any) == Line("plain", any, <<>>)

(* A line that selects stays one. *)
NoteSelect(w, line) ==
  [w EXCEPT !.select = @ \cup {line}, !.depends = @ \ {line}]
NoteDepends(w, line) ==
  IF line \in w.select THEN w ELSE [w EXCEPT !.depends = @ \cup {line}]

(* The condition is one of the symbols already selected without a condition. *)
Selects(w, condition) ==
  Len(condition) = 1 /\ Plain({condition[1]}) \in w.select

(* How the condition of a word adds to that of the package selected. *)
Under(pkg, parent, cond) == IF cond \in {None, Lit(pkg)} THEN parent ELSE Append(parent, cond)

(* Bug: met under any condition. *)
SkippedOnce(w, parent, d) == \E c \in w.seen : c[2] = d.cond /\ c[3] = d.on

(* The words passed over: an option under itself, and what was met before     *)
(* under the same condition or under none.                                    *)
OptionItself(parent, d) == d.cond = None /\ d.on.sym \in Option /\ parent = <<d.on>>
Skipped(w, parent, d) ==
  \/ OptionItself(parent, d)
  \/ <<parent, d.cond, d.on>> \in w.seen
  \/ << <<>>, d.cond, d.on >> \in w.seen

(* A call of mconf_depends: for the words of which package, with its          *)
(* $only_dep and $parent_condition.                                           *)
Call(of, only_dep, cond) == [of |-> of, only_dep |-> only_dep, cond |-> cond]

(* What a selected package depends on in turn is looked at after the others. *)
Chased(w, d, condition) ==
  IF d.on.sym \in Packages
  THEN [w EXCEPT !.t_depends = Append(@, Call(d.on.sym, TRUE, condition))] ELSE w

Selected(w, d, only_dep, condition) ==
  IF only_dep \/ condition = <<d.on>> THEN w
  ELSE NoteSelect(w, Line(IF condition = <<>> THEN "plain" ELSE "if", {d.on}, condition))

(* Bug: the condition of a plain dependency is dropped. *)
DependedAlways(w, d, condition) == NoteDepends(w, Plain({d.on}))

DependedOn(w, d, condition) ==
  NoteDepends(w, IF condition = <<>> \/ Selects(w, condition) THEN Plain({d.on})
                 ELSE Line("unless", {d.on}, condition))

Providers(M, name) == Plain({Lit(p) : p \in Range(M.providers[name])})

(* One turn of the loop of mconf_depends. *)
Turn(M, pkg, call, w, d) ==
  LET condition == Under(pkg, call.cond, d.cond)
      s == [w EXCEPT !.seen = @ \cup {<<call.cond, d.cond, d.on>>}]
  IN  CASE Skipped(w, call.cond, d) -> w
        [] ~Skipped(w, call.cond, d) /\ d.on.sym \in M.buildonly -> s
        [] ~Skipped(w, call.cond, d) /\ d.on.sym \in Virtual -> NoteDepends(s, Providers(M, d.on.sym))
        [] OTHER -> IF d.plus THEN Selected(Chased(s, d, condition), d, call.only_dep, condition)
                    ELSE DependedOn(s, d, condition)

-----------------------------------------------------------------------------
(* The prerequisites. *)

(* The turns of the loops of gen_package_mk for a source, in the order of     *)
(* their indices: of the packages of the source, their words without @, and   *)
(* the packages each stands for.                                              *)
Turns(M, src) ==
  UNION {UNION {{<<i, j, k>> : k \in DOMAIN Wanted(M, M.depends[Package[i]][j].on.sym)} :
                  j \in {n \in DOMAIN M.depends[Package[i]] : M.depends[Package[i]][n].on.sym \notin Option}} :
           i \in {n \in DOMAIN Package : M.src[Package[n]] = src}}
Earlier(t, u) ==
  \/ t[1] < u[1]
  \/ t[1] = u[1] /\ (t[2] < u[2] \/ (t[2] = u[2] /\ t[3] < u[3]))

WordAt(M, t) == M.depends[Package[t[1]]][t[2]]
NameAt(M, t) == WordAt(M, t).on.sym
DepAt(M, t) == Wanted(M, NameAt(M, t))[t[3]]

(* The source that stands for a name: for a provided name that of the package *)
(* that was parsed first.                                                     *)
IdxAt(M, t) == M.src[Wanted(M, NameAt(M, t))[1]]

(* get_conditional_dep and make's $(if), on CONFIG_ variables that are set. *)
ConditionalDep(cond, v) == cond = None \/ (v[cond.sym] = no) = cond.neg

(* Bug: no package is noted a second time, whatever the condition. *)
NotedOnce(M, src, t) ==
  \E u \in Turns(M, src) : Earlier(u, t) /\ DepAt(M, u) = DepAt(M, t) /\ IdxAt(M, u) = IdxAt(M, t)

(* A provider that is noted is not noted again, whatever the condition. *)
NotedBefore(M, src, t) ==
  /\ NameAt(M, t) \in Virtual
  /\ \E u \in Turns(M, src) : /\ Earlier(u, t) /\ NameAt(M, u) \in Virtual
                              /\ DepAt(M, u) = DepAt(M, t) /\ IdxAt(M, u) = IdxAt(M, t)

Depline(M, t) ==
  [idx |-> IdxAt(M, t), cond |-> WordAt(M, t).cond,
   guard |-> IF NameAt(M, t) \in Virtual THEN Lit(DepAt(M, t)) ELSE None]

Deplines(M, src) ==
  {Depline(M, t) : t \in {u \in Turns(M, src) : /\ IdxAt(M, u) \notin {src, "base-files"}
                                               /\ ~NotedBefore(M, src, u)}}

-----------------------------------------------------------------------------
VARIABLES
  package,  \* %package, as parsed
  menu,     \* for each package its select and depends on lines
  mk,       \* for each source the prerequisites of its compile target
  pkg,      \* the package whose lines are generated
  calls,    \* the calls of mconf_depends to be made for it; the first is under way,
  at,       \* at this word
  gen       \* what it has noted, met and put off

vars == <<package, menu, mk, pkg, calls, at, gen>>

Sources(M) == {M.src[p] : p \in Packages}
Listed == Packages \ package.buildonly

Nothing == [select |-> {}, depends |-> {}, seen |-> {}, t_depends |-> <<>>]

Init ==
  /\ package \in Metadata
  /\ menu = [p \in Packages |-> None] /\ mk = None
  /\ pkg = None /\ calls = <<>> /\ at = 1 /\ gen = Nothing

(* print_package_config_category comes to the next package. *)
Begin ==
  /\ pkg = None
  /\ \E i \in DOMAIN Package :
       /\ Package[i] \in Listed /\ menu[Package[i]] = None
       /\ \A j \in 1..(i - 1) : Package[j] \in Listed => menu[Package[j]] # None
       /\ pkg' = Package[i]
  /\ calls' = <<Call(pkg', FALSE, <<>>)>> /\ at' = 1 /\ gen' = Nothing
  /\ UNCHANGED <<package, menu, mk>>

WordsNow == package.depends[calls[1].of]

Depend ==
  /\ calls # <<>> /\ at <= Len(WordsNow)
  /\ gen' = Turn(package, pkg, calls[1], gen, WordsNow[at]) /\ at' = at + 1
  /\ UNCHANGED <<package, menu, mk, pkg, calls>>

(* A call is over: those it put off come before the others. *)
Return ==
  /\ calls # <<>> /\ at > Len(WordsNow)
  /\ calls' = gen.t_depends \o Tail(calls) /\ at' = 1 /\ gen' = [gen EXCEPT !.t_depends = <<>>]
  /\ UNCHANGED <<package, menu, mk, pkg>>

Write ==
  /\ pkg # None /\ calls = <<>>
  /\ menu' = [menu EXCEPT ![pkg] = [select |-> gen.select, depends |-> gen.depends]]
  /\ pkg' = None /\ gen' = Nothing
  /\ UNCHANGED <<package, mk, calls, at>>

Configured == pkg = None /\ \A p \in Listed : menu[p] # None

GenPackageMk ==
  /\ Configured /\ mk = None
  /\ mk' = [src \in Sources(package) |-> Deplines(package, src)]
  /\ UNCHANGED <<package, menu, pkg, calls, at, gen>>

Next == Begin \/ Depend \/ Return \/ Write \/ GenPackageMk

Spec == Init /\ [][Next]_vars

-----------------------------------------------------------------------------
(* The configurations kconfig can leave behind for the menu. *)

Least(S) == CHOOSE x \in S : \A y \in S : x <= y
Most(S) == CHOOSE x \in S : \A y \in S : x >= y

LitValue(l, v) == IF l.neg THEN yes - v[l.sym] ELSE v[l.sym]
CondValue(cond, v) == Least({yes} \cup {LitValue(cond[i], v) : i \in DOMAIN cond})
LineValue(line, v) ==
  Most({LitValue(l, v) : l \in line.any}
       \cup IF line.form = "unless" THEN {yes - CondValue(line.cond, v)} ELSE {})

Visible(p, v) == Least({yes} \cup {LineValue(line, v) : line \in menu[p].depends})
SelectedTo(s, v) ==
  Most({no} \cup UNION {{Least({v[p], Visible(p, v), CondValue(line.cond, v)}) :
                           line \in {k \in menu[p].select : Lit(s) \in k.any}} :
                          p \in Listed})

Values ==
  {v \in [Packages \cup Option -> {no, mod, yes}] :
     /\ \A o \in Option : v[o] # mod
     /\ \A p \in package.buildonly : v[p] = no}

Settled(v) ==
  /\ \A p \in Listed :
       /\ SelectedTo(p, v) <= v[p]
       /\ v[p] <= Most({Visible(p, v), SelectedTo(p, v)})
  /\ \A o \in Option : SelectedTo(o, v) # no => v[o] = yes

(* A condition on a package that is m is neither met nor unmet: its negation *)
(* is m as well.                                                             *)
Conditions(M) == {d.cond : d \in UNION {WordsOf(M, p) : p \in Packages}} \ {None}
Definite(v) == \A c \in Conditions(package) : v[c.sym] # mod

Holds(cond, v) == cond = None \/ LitValue(cond, v) # no
Real(name) == Range(Wanted(package, name)) \ package.buildonly

(* Whatever the user chooses: a package in the image has what it depends on  *)
(* in the image, and one that is built as a module has it built, however     *)
(* many packages that are selected lie in between.                           *)
DependsMet ==
  Configured /\ mk = None =>
    \A v \in Values : Settled(v) /\ Definite(v) =>
      \A p \in Listed : \A d \in WordsOf(package, p) :
        Holds(d.cond, v) /\ d.on.sym \notin package.buildonly =>
          v[p] <= (IF d.on.sym \in Virtual THEN Most({no} \cup {v[q] : q \in Real(d.on.sym)})
                   ELSE LitValue(d.on, v))

(* What a package that is switched on may take with it: the symbols that      *)
(* words with a + ask for.                                                    *)
Taken(M) ==
  {d.on.sym : d \in {e \in UNION {WordsOf(M, p) : p \in Packages} : e.plus}} \ (Virtual \cup M.buildonly)
TakesAll(S, v) ==
  \A p \in S \cap Packages : \A d \in WordsOf(package, p) :
    d.plus /\ d.on.sym \in Taken(package) /\ Holds(d.cond, v) => d.on.sym \in S

(* The menu hides a package only if something it, or a package it takes with *)
(* it, depends on and cannot select is off.                                  *)
NothingMoreAsked ==
  Configured /\ mk = None =>
    \A v \in Values : Settled(v) /\ (\A p \in Packages : v[p] # mod) =>
      \A p \in Listed : Visible(p, v) = no =>
        \A S \in SUBSET (Taken(package) \cup {p}) :
          LET u == [s \in DOMAIN v |-> IF s \in S THEN yes ELSE v[s]]
          IN  p \in S /\ TakesAll(S, u) =>
                \E q \in S \cap Packages : \E d \in WordsOf(package, q) :
                  /\ ~d.plus \/ d.on.sym \in Virtual
                  /\ d.on.sym \in Virtual \/ Holds(d.cond, u)
                  /\ \A r \in Real(d.on.sym) : LitValue([d.on EXCEPT !.sym = r], v) = no

(* No package is compiled before what it depends on in this configuration:   *)
(* the source of every package that a word under a met condition asks for is *)
(* a prerequisite of the package's own.                                      *)
CompiledBefore ==
  mk # None =>
    \A v \in Values : Settled(v) =>
      \A p \in Listed : v[p] # no =>
        LET src == package.src[p]
            before == {l.idx : l \in {k \in mk[src] : ConditionalDep(k.cond, v) /\ ConditionalDep(k.guard, v)}}
        IN  \A d \in WordsOf(package, p) :
              d.on.sym \notin Option /\ Holds(d.cond, v) =>
                \A q \in Range(Wanted(package, d.on.sym)) :
                  (d.on.sym \in Virtual => v[q] # no) =>
                    package.src[q] \in before \cup {src, "base-files"}

-----------------------------------------------------------------------------
(* What the theorems ask of the descriptions. *)

(* The packages that are selected by others. *)
Chosen(M) == Taken(M) \cap Packages

(* mconf_depends tells words apart by condition and name, not by their +, and *)
(* passes over the second: the packages taken along agree on the + of a word. *)
First(M, p, j) ==
  \A i \in 1..(j - 1) : M.depends[p][i].cond = M.depends[p][j].cond => M.depends[p][i].on # M.depends[p][j].on
Agreed(M) ==
  \A p, q \in Chosen(M) : \A i \in DOMAIN M.depends[p] : \A j \in DOMAIN M.depends[q] :
    LET d == M.depends[p][i]
        e == M.depends[q][j]
    IN  First(M, p, i) /\ First(M, q, j) /\ d.cond = e.cond /\ d.on = e.on => d.plus = e.plus

(* A set of packages with all that they take along. *)
Closed(M, S) ==
  \A p \in S : \A d \in WordsOf(M, p) :
    d.plus /\ d.on.sym \in Packages \ M.buildonly => d.on.sym \in S

(* What a package selects without a condition is not a condition of what it   *)
(* takes along: mconf_depends leaves such a condition away.                   *)
Always(M, p) ==
  {d.on : d \in {e \in WordsOf(M, p) : e.plus /\ e.cond \in {None, Lit(p)} /\ e.on.sym \in Taken(M)}}
OwnConditions(M) ==
  \A p \in Chosen(M) : \E S \in SUBSET Packages :
    p \in S /\ Closed(M, S) /\ \A q \in S : \A d \in WordsOf(M, q) : d.cond \notin Always(M, p)

(* What is taken along under a condition asks for no provided name: that      *)
(* dependency is written without the condition.                               *)
ProvidedPlainly(M) ==
  \A p \in Packages : \A d \in WordsOf(M, p) :
    d.plus /\ d.cond # None /\ d.on.sym \in Packages \ M.buildonly =>
      \E S \in SUBSET Packages :
        d.on.sym \in S /\ Closed(M, S) /\ \A q \in S : \A e \in WordsOf(M, q) : e.on.sym \notin Virtual

(* No package takes itself along. *)
Ranks(M, rank) ==
  \A p \in Packages : \A d \in WordsOf(M, p) :
    d.plus /\ d.on.sym \in Packages \ M.buildonly => rank[d.on.sym] < rank[p]

(* Negated conditions are on options that no package selects.                *)
NegatedOptions(M) == \A c \in Conditions(M) : c.neg => c.sym \in Option \ Taken(M)

(* A provided name that a package depends on is asked for without a condition *)
(* and its providers are built from one source.                              *)
OneSource(M) ==
  \A p \in Packages : \A d \in WordsOf(M, p) : d.on.sym \in Virtual =>
    d.cond = None /\ \A q, r \in Range(M.providers[d.on.sym]) : M.src[q] = M.src[r]

(* Packages that take each other along without surprises.                    *)
Tame(M) ==
  /\ Agreed(M) /\ OwnConditions(M) /\ ProvidedPlainly(M)
  /\ \E rank \in [Packages -> Nat] : Ranks(M, rank)
=============================================================================
