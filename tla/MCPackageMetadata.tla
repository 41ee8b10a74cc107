------------------------- MODULE MCPackageMetadata -------------------------
(***************************************************************************)
(* P may depend on Q, on R and on V, which Q and R provide, Q on R, and    *)
(* each on the options C and O.                                            *)
(***************************************************************************)
EXTENDS PackageMetadata

MCPackage == <<"P", "Q", "R">>

UpTo2(S) == {<<>>} \cup {<<d>> : d \in S} \cup {<<d, e>> : d \in S, e \in S}
Words(conds, name) == {Word(plus, c, Lit(name)) : plus \in BOOLEAN, c \in conds}

MCOnC == {None, Lit("C")}
MCOfP == Words(MCOnC, "Q") \cup {Word(TRUE, Lit("R"), Lit("Q"))} \cup Words(MCOnC, "R")
         \cup {Word(TRUE, None, Lit("V")), Word(FALSE, None, Lit("O")), Word(TRUE, None, Lit("C"))}
MCOfQ == Words(MCOnC, "R") \cup {Word(FALSE, None, Lit("O"))}
MCOfR == {<<>>, <<Word(FALSE, None, Lit("O"))>>, <<Word(FALSE, None, NotLit("C"))>>}

Made(d, e, f, src, buildonly) ==
  [depends |-> [p \in Range(MCPackage) |-> CASE p = "P" -> d [] p = "Q" -> e [] p = "R" -> f],
   providers |-> [n \in {"V"} |-> <<"Q", "R">>],
   src |-> src,
   buildonly |-> buildonly]

(* Q and R are of one source, or P and Q are and nothing asks for V; R is     *)
(* a package of the menu, or is only built.                                   *)
MCSourceOf(first, second, third) ==
  [p \in Range(MCPackage) |-> CASE p = "P" -> first [] p = "Q" -> second [] p = "R" -> third]
MCMetadata ==
  {Made(d, e, f, MCSourceOf("p", "q", "q"), {}) : d \in UpTo2(MCOfP), e \in UpTo2(MCOfQ), f \in MCOfR}
  \cup {Made(d, e, <<>>, MCSourceOf("p", "p", third), {"R"}) :
          d \in UpTo2({w \in MCOfP : w.on.sym # "V" /\ w.cond # Lit("R")}),
          e \in {<<>>} \cup {<<w>> : w \in MCOfQ}, third \in {"r", "base-files"}}

(* These descriptions are among those the theorems are about. *)
MCRank == [p \in Range(MCPackage) |-> CASE p = "P" -> 3 [] p = "Q" -> 2 [] p = "R" -> 1]
ASSUME MCAssumption ==
  \A M \in Metadata :
    /\ Agreed(M) /\ OwnConditions(M) /\ ProvidedPlainly(M) /\ Ranks(M, MCRank)
    /\ NegatedOptions(M) /\ OneSource(M)
=============================================================================
