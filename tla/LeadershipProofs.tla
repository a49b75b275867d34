-------------------------- MODULE LeadershipProofs --------------------------
(* The promise of Leadership, for any finite set of nodes and any terms.   *)
EXTENDS Leadership, FiniteSetTheorems, TLAPS

NodesAreFinite == IsFiniteSet(Node)
TermsArePositive == Term \subseteq Nat \ {0}

(* A node votes for one candidate a term. *)
OneVote == \A v, c, d \in Node, t \in Term :
             <<v, t, c>> \in ballots /\ <<v, t, d>> \in ballots => c = d

(* A leader has a majority of its term behind it. *)
Backed == \A c \in Node :
            leads[c] # 0 =>
              Cardinality(Voters(leads[c], c)) > Cardinality(Node) \div 2

Inv == TypeOK /\ OneVote /\ Backed

(* Two candidates with a majority each share a voter. *)
LEMMA SharedVoter ==
  ASSUME NodesAreFinite, NEW S \in SUBSET Node, NEW T \in SUBSET Node,
         Cardinality(S) > Cardinality(Node) \div 2,
         Cardinality(T) > Cardinality(Node) \div 2
  PROVE  \E v \in S : v \in T
<1>1. /\ Cardinality(Node) \in Nat /\ Cardinality(S) \in Nat
      /\ Cardinality(T) \in Nat
  BY FS_Subset, FS_CardinalityType DEF NodesAreFinite
<1>2. Cardinality(S) + Cardinality(T) > Cardinality(Node)
  BY <1>1
<1> QED  BY <1>2, FS_MajoritiesIntersect DEF NodesAreFinite

LEMMA InvHolds ==
  ASSUME NodesAreFinite, TermsArePositive
  PROVE  Spec => []Inv
<1>1. Init => Inv
  BY SMT DEF Init, Inv, TypeOK, OneVote, Backed
<1>2. Inv /\ [Next]_<<ballots, leads>> => Inv'
  <2> SUFFICES ASSUME Inv, [Next]_<<ballots, leads>> PROVE Inv'
    OBVIOUS
  <2>1. ASSUME NEW v \in Node, NEW t \in Term, NEW c \in Node, Cast(v, t, c)
        PROVE  Inv'
    <3>1. TypeOK'
      BY <2>1 DEF Inv, TypeOK, Cast
    <3>2. OneVote'
      BY <2>1 DEF Inv, TypeOK, OneVote, Cast, TermsArePositive
    <3>3. ASSUME NEW d \in Node, leads'[d] # 0
          PROVE  Cardinality(Voters(leads[d], d)') > Cardinality(Node) \div 2
      <4>1. leads'[d] = leads[d] /\ d # v
        BY <2>1, <3>3 DEF Cast, Inv, TypeOK
      <4>2. Voters(leads[d], d) \subseteq Voters(leads[d], d)'
        BY <2>1, <4>1 DEF Cast, Voters
      <4>3. IsFiniteSet(Voters(leads[d], d)')
        BY FS_Subset DEF Voters, NodesAreFinite
      <4>4. /\ Cardinality(Voters(leads[d], d)) <= Cardinality(Voters(leads[d], d)')
            /\ Cardinality(Voters(leads[d], d)) \in Nat
            /\ Cardinality(Voters(leads[d], d)') \in Nat
            /\ Cardinality(Node) \in Nat
        BY <4>2, <4>3, FS_Subset, FS_CardinalityType DEF NodesAreFinite
      <4>5. Cardinality(Voters(leads[d], d)) > Cardinality(Node) \div 2
        BY <3>3, <4>1 DEF Inv, Backed
      <4> QED  BY <4>4, <4>5
    <3> QED  BY <3>1, <3>2, <3>3 DEF Inv, Backed
  <2>2. ASSUME NEW c \in Node, NEW t \in Term, Elect(c, t)
        PROVE  Inv'
    <3>1. TypeOK' /\ OneVote'
      BY <2>2 DEF Inv, TypeOK, OneVote, Elect
    <3>2. Backed'
      BY <2>2 DEF Inv, TypeOK, Backed, Elect, Voters
    <3> QED  BY <3>1, <3>2 DEF Inv
  <2>3. ASSUME NEW c \in Node, Resign(c)
        PROVE  Inv'
    BY <2>3 DEF Inv, TypeOK, OneVote, Backed, Resign, Voters
  <2>4. CASE UNCHANGED <<ballots, leads>>
    BY <2>4 DEF Inv, TypeOK, OneVote, Backed, Voters
  <2> QED  BY <2>1, <2>2, <2>3, <2>4 DEF Next
<1> QED  BY <1>1, <1>2, PTL DEF Spec

(* Final votes and majorities are enough: no two nodes lead in one term,   *)
(* whatever else elections do.                                             *)
THEOREM LeadersAreUnique ==
  ASSUME NodesAreFinite, TermsArePositive
  PROVE  Spec => []OneLeaderPerTerm
<1>1. Inv => OneLeaderPerTerm
  <2> SUFFICES ASSUME Inv, NEW i \in Node, NEW j \in Node,
                      leads[i] = leads[j], leads[i] # 0
               PROVE  i = j
    BY DEF OneLeaderPerTerm
  <2>1. PICK v \in Voters(leads[i], i) : v \in Voters(leads[j], j)
    BY SharedVoter DEF Inv, Backed, Voters
  <2> QED  BY <2>1 DEF Inv, TypeOK, OneVote, Voters
<1> QED  BY <1>1, InvHolds, PTL
=============================================================================
