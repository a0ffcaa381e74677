-------------------------- MODULE DependenciesProofs --------------------------
(***************************************************************************)
(* Proofs about Config and Dependencies, for any number of programs and of *)
(* processes, any lists of dependencies and any order in which the search, *)
(* the map iteration and the sort take them: the search for cycles is      *)
(* exact, and the sort is right about what it is given.                    *)
(***************************************************************************)
EXTENDS Dependencies, FiniteSetTheorems, SequenceTheorems, TLAPS

-----------------------------------------------------------------------------
(* The search for cycles *)

Frames == [name : Programs, todo : SUBSET Names]

DfsType ==
    /\ dependsOn \in [Programs -> SUBSET Names]
    /\ color \in [Names -> {"white", "gray", "black"}]
    /\ stack \in Seq(Frames)
    /\ pc \in {"validate", "loaded", "sort", "sorted", "fallback"}

(* the gray programs are those of the stack, each of which depends on the next *)
Path ==
    /\ \A n \in Names : color[n] = "gray" <=> \E i \in 1 .. Len(stack) : stack[i].name = n
    /\ \A i, j \in 1 .. Len(stack) : stack[i].name = stack[j].name => i = j
    /\ \A i \in 1 .. Len(stack) - 1 : stack[i + 1].name \in dependsOn[stack[i].name]
    /\ \A i \in 1 .. Len(stack) : stack[i].todo \subseteq dependsOn[stack[i].name]

(* a dependency that was looked at is explored, or it is the next of the stack *)
Explored ==
    /\ \A n \in Programs : color[n] = "black" => \A d \in dependsOn[n] : color[d] = "black"
    /\ \A i \in 1 .. Len(stack) : \A d \in dependsOn[stack[i].name] \ stack[i].todo :
          color[d] = "black" \/ (i < Len(stack) /\ d = stack[i + 1].name)

(* the programs that are explored hold no cycle *)
NoBlackCycle ==
    \A S \in SUBSET Programs :
        (\A p \in S : color[p] = "black" /\ dependsOn[p] \cap S # {}) => S = {}

DfsInv == DfsType /\ Path /\ Explored /\ NoBlackCycle /\ CycleReported

LEMMA DfsInit == ConfigInit => DfsInv
  BY DEF ConfigInit, DfsInv, DfsType, Path, Explored, NoBlackCycle, CycleReported, White, Names

(* what the turn of DfsEdge leaves of the stack *)
Rest(dep) == Append(Front(stack), [Last(stack) EXCEPT !.todo = Last(stack).todo \ {dep}])

LEMMA TopFacts ==
  ASSUME DfsType, stack # <<>>
  PROVE  /\ Len(stack) \in Nat \ {0}
         /\ Last(stack) = stack[Len(stack)]
         /\ Last(stack) \in Frames
         /\ Front(stack) \in Seq(Frames)
         /\ Len(Front(stack)) = Len(stack) - 1
         /\ \A i \in 1 .. Len(stack) - 1 : Front(stack)[i] = stack[i]
<1>1. Len(stack) \in Nat \ {0}
  BY DEF DfsType
<1>2. Last(stack) = stack[Len(stack)] /\ Last(stack) \in Frames
  BY <1>1 DEF DfsType, Last
<1>3. Front(stack) = SubSeq(stack, 1, Len(stack) - 1)
  BY DEF Front
<1>4. /\ Front(stack) \in Seq(Frames) /\ Len(Front(stack)) = Len(stack) - 1
      /\ \A i \in 1 .. Len(stack) - 1 : Front(stack)[i] = stack[i]
  <2>1. \A i \in 1 .. Len(stack) - 1 : stack[i] \in Frames
    BY <1>1 DEF DfsType
  <2>2. 1 \in Int /\ Len(stack) - 1 \in Int
    BY <1>1
  <2> DEFINE m == Len(stack) - 1
             F == SubSeq(stack, 1, m)
  <2>3. /\ F \in Seq(Frames) /\ Len(F) = IF 1 <= m THEN m - 1 + 1 ELSE 0
        /\ \A i \in 1 .. m - 1 + 1 : F[i] = stack[1 + i - 1]
    <3> HIDE DEF m
    <3> QED  BY <2>1, <2>2, SubSeqProperties DEF m
  <2>4. Front(stack) = F
    BY <1>3
  <2> HIDE DEF F
  <2> QED  BY <1>1, <2>3, <2>4
<1> QED  BY <1>1, <1>2, <1>4

LEMMA RestFacts ==
  ASSUME DfsType, stack # <<>>, NEW dep
  PROVE  /\ Rest(dep) \in Seq(Frames)
         /\ Len(Rest(dep)) = Len(stack)
         /\ \A i \in 1 .. Len(stack) : Rest(dep)[i].name = stack[i].name
         /\ \A i \in 1 .. Len(stack) - 1 : Rest(dep)[i].todo = stack[i].todo
         /\ Rest(dep)[Len(stack)].todo = stack[Len(stack)].todo \ {dep}
<1> DEFINE top == [Last(stack) EXCEPT !.todo = Last(stack).todo \ {dep}]
<1>1. top \in Frames /\ top.name = stack[Len(stack)].name
         /\ top.todo = stack[Len(stack)].todo \ {dep}
  BY TopFacts DEF Frames
<1>2. Rest(dep) = Append(Front(stack), top)
  BY DEF Rest
<1> HIDE DEF top
<1>3. Rest(dep) \in Seq(Frames) /\ Len(Rest(dep)) = Len(stack)
  BY <1>1, <1>2, TopFacts
<1>4. Rest(dep)[Len(stack)] = top
  BY <1>1, <1>2, TopFacts
<1>5. \A i \in 1 .. Len(stack) - 1 : Rest(dep)[i] = stack[i]
  BY <1>1, <1>2, TopFacts
<1> QED  BY <1>1, <1>3, <1>4, <1>5, TopFacts

(* when the search has ended nothing is left of its marks *)
LEMMA FoundClears ==
  ASSUME DfsInv, NEW r, Found(r), UNCHANGED dependsOn, r <=> CyclicPrograms
  PROVE  DfsInv'
<1>1. DfsType' /\ Path' /\ Explored' /\ NoBlackCycle'
  BY DEF Found, DfsInv, DfsType, Path, Explored, NoBlackCycle, White, Names
<1>2. CycleReported'
  BY DEF Found, CycleReported, CyclicPrograms
<1> QED  BY <1>1, <1>2 DEF DfsInv

LEMMA RootStep ==
  ASSUME DfsInv, NEW n \in Programs, DfsRoot(n), UNCHANGED dependsOn
  PROVE  DfsInv'
<1> DEFINE f == Frame(n)
<1>1. f \in Frames /\ f.name = n /\ f.todo = dependsOn[n]
  BY DEF Frame, Frames, DfsInv, DfsType
<1>2. stack' = <<f>>
  BY DEF DfsRoot
<1> HIDE DEF f
<1>3. stack' \in Seq(Frames) /\ Len(stack') = 1 /\ stack'[1] = f
  BY <1>1, <1>2
<1>4. stack = <<>> /\ Len(stack) = 0 /\ color[n] = "white" /\ n \in Names
  BY DEF DfsRoot, Names
<1>5. color' = [color EXCEPT ![n] = "gray"] /\ pc' = pc /\ cycle' = cycle /\ pc = "validate"
  BY DEF DfsRoot
<1>6. DfsType'
  BY <1>3, <1>5 DEF DfsInv, DfsType
<1>7. \A m \in Names : color'[m] = IF m = n THEN "gray" ELSE color[m]
  BY <1>5 DEF DfsInv, DfsType
<1>8. \A m \in Names : color[m] # "gray"
  BY <1>4 DEF DfsInv, Path
<1>9. Path'
  BY <1>1, <1>3, <1>7, <1>8 DEF Path
<1>10. Explored'
  <2>1. \A m \in Programs : color'[m] = "black" => \A d \in dependsOn[m] : color'[d] = "black"
    <3> SUFFICES ASSUME NEW m \in Programs, color'[m] = "black", NEW d \in dependsOn[m]
                 PROVE  color'[d] = "black"
      OBVIOUS
    <3>1. m \in Names /\ d \in Names
      BY DEF DfsInv, DfsType, Names
    <3>2. color[m] = "black" /\ color[d] = "black"
      BY <1>7, <3>1 DEF DfsInv, Explored
    <3> QED  BY <1>4, <1>7, <3>1, <3>2
  <2> QED  BY <1>1, <1>3, <2>1 DEF Explored
<1>11. NoBlackCycle'
  BY <1>7 DEF DfsInv, NoBlackCycle, Names
<1> QED  BY <1>5, <1>6, <1>9, <1>10, <1>11 DEF DfsInv, CycleReported

(* a program whose dependencies are all explored closes no cycle of explored programs:
   none of those depends on it *)
LEMMA ReturnStep ==
  ASSUME DfsInv, DfsReturn, UNCHANGED dependsOn
  PROVE  DfsInv'
<1> DEFINE k == Len(stack)
           t == stack[k].name
<1>1. k \in Nat \ {0} /\ stack[k] \in Frames /\ stack[k].todo = {} /\ stack' = Front(stack)
  BY TopFacts DEF DfsReturn, DfsInv
<1>2. /\ stack' \in Seq(Frames) /\ Len(stack') = k - 1
      /\ \A i \in 1 .. k - 1 : stack'[i] = stack[i]
  BY <1>1, TopFacts DEF DfsReturn, DfsInv
<1>3. t \in Programs /\ t \in Names
  BY <1>1 DEF Frames, Names
<1>4. color' = [color EXCEPT ![t] = "black"] /\ pc' = pc /\ cycle' = cycle /\ pc = "validate"
  BY TopFacts DEF DfsReturn, DfsInv
<1>5. \A m \in Names : color'[m] = IF m = t THEN "black" ELSE color[m]
  BY <1>3, <1>4 DEF DfsInv, DfsType
<1>6. color[t] = "gray"
  BY <1>1, <1>3 DEF DfsInv, Path
<1>7. \A d \in dependsOn[t] : color[d] = "black"
  BY <1>1 DEF DfsInv, Explored
<1>8. DfsType'
  BY <1>2, <1>4, <1>3 DEF DfsInv, DfsType
<1>9. dependsOn' = dependsOn /\ dependsOn \in [Programs -> SUBSET Names]
  BY DEF DfsInv, DfsType
<1>10. \A i, j \in 1 .. k : stack[i].name = stack[j].name => i = j
  BY DEF DfsInv, Path
<1> HIDE DEF k
<1>11. Path'
  <2>1. \A n \in Names : color'[n] = "gray" <=> \E i \in 1 .. Len(stack') : stack'[i].name = n
    <3> SUFFICES ASSUME NEW n \in Names
                 PROVE  color'[n] = "gray" <=> \E i \in 1 .. k - 1 : stack[i].name = n
      BY <1>1, <1>2
    <3>1. color[n] = "gray" <=> \E i \in 1 .. k : stack[i].name = n
      BY DEF DfsInv, Path, k
    <3>2. CASE n = t
      <4>1. k \in 1 .. k /\ \A i \in 1 .. k - 1 : i \in 1 .. k /\ i # k
        BY <1>1
      <4>2. \A i \in 1 .. k - 1 : stack[i].name # t
        BY <4>1, <1>10
      <4> QED  BY <3>2, <1>5, <4>2
    <3>3. CASE n # t
      <4>1. \A i \in 1 .. k : i = k \/ i \in 1 .. k - 1
        BY <1>1
      <4>2. \A i \in 1 .. k - 1 : i \in 1 .. k
        BY <1>1
      <4> QED  BY <3>1, <3>3, <1>5, <4>1, <4>2
    <3> QED  BY <3>2, <3>3
  <2>2. \A i, j \in 1 .. Len(stack') : stack'[i].name = stack'[j].name => i = j
    BY <1>1, <1>2, <1>10
  <2>3. \A i \in 1 .. Len(stack') - 1 : stack'[i + 1].name \in dependsOn'[stack'[i].name]
    <3>1. \A i \in 1 .. k - 1 : stack[i + 1].name \in dependsOn[stack[i].name]
      BY DEF DfsInv, Path, k
    <3> QED  BY <3>1, <1>1, <1>2, <1>9
  <2>4. \A i \in 1 .. Len(stack') : stack'[i].todo \subseteq dependsOn'[stack'[i].name]
    <3>1. \A i \in 1 .. k : stack[i].todo \subseteq dependsOn[stack[i].name]
      BY DEF DfsInv, Path, k
    <3> QED  BY <3>1, <1>1, <1>2, <1>9
  <2> QED  BY <2>1, <2>2, <2>3, <2>4 DEF Path
<1>12. Explored'
  <2>1. \A m \in Programs : color'[m] = "black" => \A d \in dependsOn[m] : color'[d] = "black"
    <3> SUFFICES ASSUME NEW m \in Programs, color'[m] = "black", NEW d \in dependsOn[m]
                 PROVE  color'[d] = "black"
      OBVIOUS
    <3>1. m \in Names /\ d \in Names
      BY <1>9 DEF Names
    <3>2. color[d] = "black"
      BY <1>5, <1>7, <3>1 DEF DfsInv, Explored
    <3> QED  BY <1>5, <3>1, <3>2
  <2>2. ASSUME NEW i \in 1 .. k - 1, NEW d \in dependsOn[stack[i].name] \ stack[i].todo
        PROVE  color'[d] = "black" \/ (i < k - 1 /\ d = stack[i + 1].name)
    <3>1. color[d] = "black" \/ (i < k /\ d = stack[i + 1].name)
      BY <1>1 DEF DfsInv, Explored, k
    <3>2. d \in Names
      <4>0. stack \in Seq(Frames) /\ i \in 1 .. Len(stack)
        BY <1>1 DEF DfsInv, DfsType, k
      <4>1. stack[i] \in Frames
        BY <4>0
      <4>2. stack[i].name \in Programs
        BY <4>1 DEF Frames
      <4> QED  BY <4>2, <1>9
    <3>3. i = k - 1 \/ i < k - 1
      BY <1>1
    <3>4. i = k - 1 => stack[i + 1] = stack[k]
      BY <1>1
    <3> QED  BY <3>1, <3>2, <3>3, <3>4, <1>5
  <2> QED  BY <2>1, <2>2, <1>1, <1>2, <1>9 DEF Explored
<1>13. NoBlackCycle'
  <2> SUFFICES ASSUME NEW S \in SUBSET Programs,
                      \A p \in S : color'[p] = "black" /\ dependsOn[p] \cap S # {}
               PROVE  S = {}
    BY <1>9 DEF NoBlackCycle
  <2>1. \A p \in S \ {t} : color[p] = "black"
    BY <1>5 DEF Names
  <2>2. \A p \in S \ {t} : dependsOn[p] \cap (S \ {t}) # {}
    <3> SUFFICES ASSUME NEW p \in S \ {t}  PROVE dependsOn[p] \cap (S \ {t}) # {}
      OBVIOUS
    <3>1. PICK d \in dependsOn[p] : d \in S
      OBVIOUS
    <3>2. color[d] = "black"
      BY <2>1 DEF DfsInv, Explored
    <3> QED  BY <3>1, <3>2, <1>6
  <2>3. S \ {t} = {}
    <3>1. S \ {t} \in SUBSET Programs
      OBVIOUS
    <3> QED  BY <3>1, <2>1, <2>2 DEF DfsInv, NoBlackCycle
  <2>4. t \notin dependsOn[t]
    BY <1>6, <1>7
  <2> QED  BY <2>3, <2>4
<1> QED  BY <1>4, <1>8, <1>11, <1>12, <1>13 DEF DfsInv, CycleReported

LEMMA EndStep ==
  ASSUME DfsInv, DfsEnd, UNCHANGED dependsOn
  PROVE  DfsInv'
<1>1. stack = <<>> /\ Len(stack) = 0 /\ Found(FALSE) /\ \A n \in Programs : color[n] # "white"
  BY DEF DfsEnd
<1>2. \A n \in Programs : color[n] # "gray"
  BY <1>1 DEF DfsInv, Path, Names
<1>3. \A n \in Programs : color[n] = "black"
  BY <1>1, <1>2 DEF DfsInv, DfsType, Names
<1>4. ~CyclicPrograms
  BY <1>3 DEF DfsInv, NoBlackCycle, CyclicPrograms
<1> QED  BY <1>1, <1>4, FoundClears

(* a dependency on the stack: the stack from there on is a cycle *)
LEMMA GrayEdge ==
  ASSUME DfsInv, NEW dep \in Names, stack # <<>>, dep \in Last(stack).todo,
         color[dep] = "gray"
  PROVE  CyclicPrograms
<1> DEFINE k == Len(stack)
<1>1. k \in Nat \ {0} /\ dep \in stack[k].todo
  BY TopFacts DEF DfsInv
<1>2. PICK j \in 1 .. k : stack[j].name = dep
  BY DEF DfsInv, Path
<1>3. /\ \A i \in 1 .. k - 1 : stack[i + 1].name \in dependsOn[stack[i].name]
      /\ \A i \in 1 .. k : stack[i].todo \subseteq dependsOn[stack[i].name]
      /\ \A i \in 1 .. k : stack[i].name \in Programs
  <2>1. \A i \in 1 .. k : stack[i] \in Frames
    BY DEF DfsInv, DfsType
  <2> QED  BY <2>1 DEF DfsInv, Path, Frames
<1> HIDE DEF k
<1> DEFINE S == {stack[i].name : i \in j .. k}
<1>4. S \in SUBSET Programs /\ dep \in S
  BY <1>1, <1>2, <1>3
<1>5. ASSUME NEW p \in S  PROVE dependsOn[p] \cap S # {}
  <2>1. PICK i \in j .. k : p = stack[i].name
    OBVIOUS
  <2>2. CASE i = k
    <3>1. dep \in dependsOn[p]
      BY <1>1, <1>3, <2>1, <2>2
    <3> QED  BY <3>1, <1>4
  <2>3. CASE i # k
    <3>1. i \in 1 .. k - 1 /\ i + 1 \in j .. k
      BY <1>1, <2>3
    <3>2. stack[i + 1].name \in dependsOn[p]
      BY <1>3, <2>1, <3>1
    <3>3. stack[i + 1].name \in S
      BY <3>1
    <3> QED  BY <3>2, <3>3
  <2> QED  BY <2>2, <2>3
<1> HIDE DEF S
<1> QED  BY <1>4, <1>5 DEF CyclicPrograms

(* a dependency that is explored, or that has no section, is only taken off the list *)
LEMMA PassedEdge ==
  ASSUME DfsInv, NEW dep \in Names, stack # <<>>, dep \in Last(stack).todo, pc = "validate",
         \/ color[dep] = "black" /\ color' = color
         \/ /\ color[dep] = "white" /\ dep \notin Programs
            /\ color' = [color EXCEPT ![dep] = "black"],
         stack' = Rest(dep), UNCHANGED <<dependsOn, cycle, pc>>
  PROVE  DfsInv'
<1> DEFINE k == Len(stack)
<1>1. k \in Nat \ {0}
  BY TopFacts DEF DfsInv
<1>2. /\ stack' \in Seq(Frames) /\ Len(stack') = k
      /\ \A i \in 1 .. k : stack'[i].name = stack[i].name
      /\ \A i \in 1 .. k - 1 : stack'[i].todo = stack[i].todo
      /\ stack'[k].todo = stack[k].todo \ {dep}
  BY RestFacts DEF DfsInv
<1>3. color' \in [Names -> {"white", "gray", "black"}]
  BY DEF DfsInv, DfsType
<1>4. \A m \in Names : color'[m] = IF m = dep THEN "black" ELSE color[m]
  BY DEF DfsInv, DfsType
<1>5. \A m \in Programs : (color'[m] = "black") = (color[m] = "black")
  BY <1>4 DEF Names
<1>6. color[dep] # "gray"
  OBVIOUS
<1>7. dependsOn' = dependsOn /\ dependsOn \in [Programs -> SUBSET Names]
  BY DEF DfsInv, DfsType
<1>8. DfsType'
  BY <1>2, <1>3 DEF DfsInv, DfsType
<1>9. \A i \in 1 .. k : i = k \/ i \in 1 .. k - 1
  BY <1>1
<1>10. \A i \in 1 .. k : stack[i].name \in Programs
  <2>1. \A i \in 1 .. k : stack[i] \in Frames
    BY DEF DfsInv, DfsType
  <2> QED  BY <2>1 DEF Frames
<1>11. /\ \A n \in Names : color[n] = "gray" <=> \E i \in 1 .. k : stack[i].name = n
       /\ \A i, j \in 1 .. k : stack[i].name = stack[j].name => i = j
       /\ \A i \in 1 .. k - 1 : stack[i + 1].name \in dependsOn[stack[i].name]
       /\ \A i \in 1 .. k : stack[i].todo \subseteq dependsOn[stack[i].name]
  BY DEF DfsInv, Path
<1>12. \A i \in 1 .. k : \A d \in dependsOn[stack[i].name] \ stack[i].todo :
          color[d] = "black" \/ (i < k /\ d = stack[i + 1].name)
  BY DEF DfsInv, Explored
<1> HIDE DEF k
<1>13. \A i \in 1 .. k - 1 : i \in 1 .. k /\ i + 1 \in 1 .. k
  BY <1>1
<1>14. Path'
  <2>1. \A n \in Names : color'[n] = "gray" <=> \E i \in 1 .. k : stack'[i].name = n
    BY <1>2, <1>4, <1>6, <1>11
  <2>2. \A i, j \in 1 .. k : stack'[i].name = stack'[j].name => i = j
    BY <1>2, <1>11
  <2>3. \A i \in 1 .. k - 1 : stack'[i + 1].name \in dependsOn[stack'[i].name]
    BY <1>2, <1>11, <1>13
  <2>4. \A i \in 1 .. k : stack'[i].todo \subseteq dependsOn[stack'[i].name]
    BY <1>2, <1>9, <1>11
  <2> QED  BY <2>1, <2>2, <2>3, <2>4, <1>2, <1>7 DEF Path
<1>15. Explored'
  <2>1. \A m \in Programs : color'[m] = "black" => \A d \in dependsOn[m] : color'[d] = "black"
    <3> SUFFICES ASSUME NEW m \in Programs, color'[m] = "black", NEW d \in dependsOn[m]
                 PROVE  color'[d] = "black"
      OBVIOUS
    <3>1. d \in Names /\ color[m] = "black"
      BY <1>5, <1>7
    <3>2. color[d] = "black"
      BY <3>1 DEF DfsInv, Explored
    <3> QED  BY <1>4, <3>1, <3>2
  <2>2. ASSUME NEW i \in 1 .. k, NEW d \in dependsOn[stack[i].name] \ stack'[i].todo
        PROVE  color'[d] = "black" \/ (i < k /\ d = stack[i + 1].name)
    <3>1. d \in Names
      BY <1>7, <1>10
    <3>2. d = dep \/ d \notin stack[i].todo
      BY <1>2, <1>9
    <3>3. CASE d = dep
      BY <3>1, <3>3, <1>4
    <3>4. CASE d \notin stack[i].todo
      BY <3>1, <3>4, <1>4, <1>12
    <3> QED  BY <3>2, <3>3, <3>4
  <2>3. \A i \in 1 .. k : \A d \in dependsOn[stack'[i].name] \ stack'[i].todo :
           color'[d] = "black" \/ (i < k /\ d = stack'[i + 1].name)
    <3> SUFFICES ASSUME NEW i \in 1 .. k, NEW d \in dependsOn[stack'[i].name] \ stack'[i].todo
                 PROVE  color'[d] = "black" \/ (i < k /\ d = stack'[i + 1].name)
      OBVIOUS
    <3>1. color'[d] = "black" \/ (i < k /\ d = stack[i + 1].name)
      BY <2>2, <1>2
    <3>2. i < k => stack[i + 1].name = stack'[i + 1].name
      BY <1>1, <1>2
    <3> QED  BY <3>1, <3>2
  <2> QED  BY <2>1, <2>3, <1>2, <1>7 DEF Explored
<1>16. NoBlackCycle'
  BY <1>5, <1>7 DEF DfsInv, NoBlackCycle
<1> QED  BY <1>8, <1>14, <1>15, <1>16 DEF DfsInv, CycleReported

(* a dependency that was not reached yet is pushed *)
LEMMA PushEdge ==
  ASSUME DfsInv, NEW dep \in Programs, stack # <<>>, dep \in Last(stack).todo, pc = "validate",
         color[dep] = "white", color' = [color EXCEPT ![dep] = "gray"],
         stack' = Append(Rest(dep), Frame(dep)), UNCHANGED <<dependsOn, cycle, pc>>
  PROVE  DfsInv'
<1> DEFINE k == Len(stack)
           f == Frame(dep)
<1>1. k \in Nat \ {0} /\ dep \in Names
  BY TopFacts DEF DfsInv, Names
<1>2. f \in Frames /\ f.name = dep /\ f.todo = dependsOn[dep]
  BY DEF Frame, Frames, DfsInv, DfsType
<1> HIDE DEF f
<1>3. /\ Rest(dep) \in Seq(Frames) /\ Len(Rest(dep)) = k
      /\ \A i \in 1 .. k : Rest(dep)[i].name = stack[i].name
      /\ \A i \in 1 .. k - 1 : Rest(dep)[i].todo = stack[i].todo
      /\ Rest(dep)[k].todo = stack[k].todo \ {dep}
  BY RestFacts DEF DfsInv
<1>4. /\ stack' \in Seq(Frames) /\ Len(stack') = k + 1
      /\ \A i \in 1 .. k : stack'[i] = Rest(dep)[i]
      /\ stack'[k + 1] = f
  <2>1. stack' = Append(Rest(dep), f)
    BY DEF f
  <2> QED  BY <2>1, <1>1, <1>2, <1>3
<1>5. \A m \in Names : color'[m] = IF m = dep THEN "gray" ELSE color[m]
  BY <1>1 DEF DfsInv, DfsType
<1>6. dependsOn' = dependsOn /\ dependsOn \in [Programs -> SUBSET Names]
  BY DEF DfsInv, DfsType
<1>7. DfsType'
  BY <1>1, <1>4 DEF DfsInv, DfsType
<1>8. \A i \in 1 .. k : stack[i] \in Frames
  BY DEF DfsInv, DfsType
<1>9. \A i \in 1 .. k : stack[i].name \in Programs /\ stack[i].name \in Names
  BY <1>8 DEF Frames, Names
<1>10. /\ \A n \in Names : color[n] = "gray" <=> \E i \in 1 .. k : stack[i].name = n
       /\ \A i, j \in 1 .. k : stack[i].name = stack[j].name => i = j
       /\ \A i \in 1 .. k - 1 : stack[i + 1].name \in dependsOn[stack[i].name]
       /\ \A i \in 1 .. k : stack[i].todo \subseteq dependsOn[stack[i].name]
  BY DEF DfsInv, Path
<1>11. \A i \in 1 .. k : \A d \in dependsOn[stack[i].name] \ stack[i].todo :
          color[d] = "black" \/ (i < k /\ d = stack[i + 1].name)
  BY DEF DfsInv, Explored
<1>12. dep \in stack[k].todo /\ dep \in dependsOn[stack[k].name]
  BY TopFacts, <1>1, <1>10 DEF DfsInv
<1> HIDE DEF k
<1>13. /\ \A i \in 1 .. k + 1 : i = k + 1 \/ i \in 1 .. k
       /\ \A i \in 1 .. k : i = k \/ i \in 1 .. k - 1
       /\ k \in 1 .. k + 1 /\ k + 1 \in 1 .. k + 1 /\ k \in 1 .. k /\ (k + 1) - 1 = k
       /\ \A i \in 1 .. k : i \in 1 .. k + 1
       /\ \A i \in 1 .. k - 1 : i \in 1 .. k /\ i + 1 \in 1 .. k
  BY <1>1
<1>14. \A i \in 1 .. k : stack'[i].name = stack[i].name
  BY <1>3, <1>4
<1>15. \A i \in 1 .. k : stack'[i].todo \subseteq stack[i].todo
  BY <1>3, <1>4, <1>13
<1>16. \A i \in 1 .. k : stack[i].name # dep
  BY <1>1, <1>10
<1>17. Path'
  <2>1. \A n \in Names : color'[n] = "gray" <=> \E i \in 1 .. k + 1 : stack'[i].name = n
    <3> SUFFICES ASSUME NEW n \in Names
                 PROVE  color'[n] = "gray" <=> \E i \in 1 .. k + 1 : stack'[i].name = n
      OBVIOUS
    <3>1. CASE n = dep
      BY <3>1, <1>2, <1>4, <1>5, <1>13
    <3>2. CASE n # dep
      <4>1. color'[n] = "gray" <=> \E i \in 1 .. k : stack[i].name = n
        BY <3>2, <1>5, <1>10
      <4>2. ASSUME NEW i \in 1 .. k, stack[i].name = n
            PROVE  \E j \in 1 .. k + 1 : stack'[j].name = n
        BY <4>2, <1>13, <1>14
      <4>3. ASSUME NEW i \in 1 .. k + 1, stack'[i].name = n
            PROVE  \E j \in 1 .. k : stack[j].name = n
        <5>1. i \in 1 .. k
          BY <4>3, <3>2, <1>2, <1>4, <1>13
        <5> QED  BY <5>1, <4>3, <1>14
      <4> QED  BY <4>1, <4>2, <4>3
    <3> QED  BY <3>1, <3>2
  <2>2. \A i, j \in 1 .. k + 1 : stack'[i].name = stack'[j].name => i = j
    <3> SUFFICES ASSUME NEW i \in 1 .. k + 1, NEW j \in 1 .. k + 1,
                        stack'[i].name = stack'[j].name
                 PROVE  i = j
      OBVIOUS
    <3>1. stack'[k + 1].name = dep /\ \A h \in 1 .. k : stack'[h].name # dep
      BY <1>2, <1>4, <1>14, <1>16
    <3>2. CASE i \in 1 .. k /\ j \in 1 .. k
      BY <3>2, <1>10, <1>14
    <3>3. CASE i = k + 1 \/ j = k + 1
      BY <3>1, <3>3, <1>13
    <3> QED  BY <3>2, <3>3, <1>13
  <2>3. \A i \in 1 .. k : stack'[i + 1].name \in dependsOn[stack'[i].name]
    <3> SUFFICES ASSUME NEW i \in 1 .. k
                 PROVE  stack'[i + 1].name \in dependsOn[stack'[i].name]
      OBVIOUS
    <3>1. CASE i = k
      BY <3>1, <1>2, <1>4, <1>12, <1>13, <1>14
    <3>2. CASE i \in 1 .. k - 1
      BY <3>2, <1>10, <1>13, <1>14
    <3> QED  BY <3>1, <3>2, <1>13
  <2>4. \A i \in 1 .. k + 1 : stack'[i].todo \subseteq dependsOn[stack'[i].name]
    <3> SUFFICES ASSUME NEW i \in 1 .. k + 1
                 PROVE  stack'[i].todo \subseteq dependsOn[stack'[i].name]
      OBVIOUS
    <3>1. CASE i = k + 1
      BY <3>1, <1>2, <1>4
    <3>2. CASE i \in 1 .. k
      BY <3>2, <1>10, <1>14, <1>15
    <3> QED  BY <3>1, <3>2, <1>13
  <2>5. Len(stack') = k + 1 /\ Len(stack') - 1 = k /\ dependsOn' = dependsOn
    BY <1>4, <1>6, <1>13
  <2>6. \A n \in Names : color'[n] = "gray" <=> \E i \in 1 .. Len(stack') : stack'[i].name = n
    BY <2>1, <2>5
  <2>7. \A i, j \in 1 .. Len(stack') : stack'[i].name = stack'[j].name => i = j
    BY <2>2, <2>5
  <2>8. \A i \in 1 .. Len(stack') - 1 : stack'[i + 1].name \in dependsOn'[stack'[i].name]
    BY <2>3, <2>5
  <2>9. \A i \in 1 .. Len(stack') : stack'[i].todo \subseteq dependsOn'[stack'[i].name]
    BY <2>4, <2>5
  <2> QED  BY <2>6, <2>7, <2>8, <2>9 DEF Path
<1>18. Explored'
  <2>1. \A m \in Programs : color'[m] = "black" => \A d \in dependsOn[m] : color'[d] = "black"
    <3> SUFFICES ASSUME NEW m \in Programs, color'[m] = "black", NEW d \in dependsOn[m]
                 PROVE  color'[d] = "black"
      OBVIOUS
    <3>1. d \in Names /\ m \in Names
      BY <1>6 DEF Names
    <3>2. color[m] = "black"
      BY <1>5, <3>1
    <3>3. color[d] = "black"
      BY <3>2 DEF DfsInv, Explored
    <3> QED  BY <1>5, <3>1, <3>3
  <2>2. ASSUME NEW i \in 1 .. k, NEW d \in dependsOn[stack[i].name] \ stack'[i].todo
        PROVE  color'[d] = "black" \/ d = stack'[i + 1].name
    <3>1. d \in Names
      BY <1>6, <1>9
    <3>2. (i = k /\ d = dep) \/ d \notin stack[i].todo
      BY <1>3, <1>4, <1>13
    <3>3. CASE i = k /\ d = dep
      BY <3>3, <1>2, <1>4
    <3>4. CASE d \notin stack[i].todo
      <4>1. color[d] = "black" \/ (i < k /\ d = stack[i + 1].name)
        BY <3>4, <1>11
      <4>2. i < k => i + 1 \in 1 .. k
        BY <1>1
      <4> QED  BY <4>1, <4>2, <3>1, <1>5, <1>14
    <3> QED  BY <3>2, <3>3, <3>4
  <2>3. \A i \in 1 .. k + 1 : \A d \in dependsOn[stack'[i].name] \ stack'[i].todo :
           color'[d] = "black" \/ (i < k + 1 /\ d = stack'[i + 1].name)
    <3> SUFFICES ASSUME NEW i \in 1 .. k + 1,
                        NEW d \in dependsOn[stack'[i].name] \ stack'[i].todo
                 PROVE  color'[d] = "black" \/ (i < k + 1 /\ d = stack'[i + 1].name)
      OBVIOUS
    <3>1. CASE i = k + 1
      BY <3>1, <1>2, <1>4
    <3>2. CASE i \in 1 .. k
      <4>1. i < k + 1
        BY <3>2, <1>1
      <4> QED  BY <4>1, <3>2, <2>2, <1>14
    <3> QED  BY <3>1, <3>2, <1>13
  <2> QED  BY <2>1, <2>3, <1>4, <1>6 DEF Explored
<1>19. NoBlackCycle'
  <2>1. \A m \in Programs : color'[m] = "black" => color[m] = "black"
    BY <1>5 DEF Names
  <2> QED  BY <2>1, <1>6 DEF DfsInv, NoBlackCycle
<1> QED  BY <1>7, <1>17, <1>18, <1>19 DEF DfsInv, CycleReported

LEMMA EdgeStep ==
  ASSUME DfsInv, NEW dep \in Names, DfsEdge(dep), UNCHANGED dependsOn
  PROVE  DfsInv'
<1>1. stack # <<>> /\ dep \in Last(stack).todo /\ pc = "validate"
  BY DEF DfsEdge
<1>2. CASE color[dep] = "gray"
  <2>1. Found(TRUE)
    BY <1>2 DEF DfsEdge
  <2>2. CyclicPrograms
    BY <1>1, <1>2, GrayEdge
  <2> QED  BY <2>1, <2>2, FoundClears
<1>3. CASE color[dep] = "white"
  <2>1. /\ color' = [color EXCEPT ![dep] = IF dep \in Programs THEN "gray" ELSE "black"]
        /\ stack' = IF dep \in Programs THEN Append(Rest(dep), Frame(dep)) ELSE Rest(dep)
        /\ UNCHANGED <<cycle, pc>>
    BY <1>3 DEF DfsEdge, Rest
  <2>2. CASE dep \in Programs
    BY <1>1, <1>3, <2>1, <2>2, PushEdge
  <2>3. CASE dep \notin Programs
    BY <1>1, <1>3, <2>1, <2>3, PassedEdge
  <2> QED  BY <2>2, <2>3
<1>4. CASE color[dep] = "black"
  <2>1. stack' = Rest(dep) /\ UNCHANGED <<color, cycle, pc>>
    BY <1>4 DEF DfsEdge, Rest
  <2> QED  BY <1>1, <1>4, <2>1, PassedEdge
<1> QED  BY <1>2, <1>3, <1>4 DEF DfsInv, DfsType

LEMMA ValidateStep ==
  ASSUME DfsInv, Validate
  PROVE  DfsInv'
  BY RootStep, EdgeStep, ReturnStep, EndStep DEF Validate

-----------------------------------------------------------------------------
(* Sequences without repetitions *)

LEMMA SetOfSeq ==
  ASSUME NEW S, NEW s \in Seq(S)
  PROVE  /\ ToSet(s) \subseteq S
         /\ DOMAIN s = 1 .. Len(s)
         /\ \A x : x \in ToSet(s) <=> \E i \in 1 .. Len(s) : s[i] = x
  BY DEF ToSet

LEMMA LengthOfInjective ==
  ASSUME NEW S, NEW s \in Seq(S), IsInjective(s)
  PROVE  Cardinality(ToSet(s)) = Len(s) /\ IsFiniteSet(ToSet(s))
<1> DEFINE D == 1 .. Len(s)
           T == ToSet(s)
<1>1. Len(s) \in Nat /\ IsFiniteSet(D) /\ Cardinality(D) = Len(s)
  <2>1. Len(s) \in Nat
    OBVIOUS
  <2>2. 1 \in Int /\ Len(s) \in Int
    BY <2>1
  <2>3. IsFiniteSet(1 .. Len(s)) /\ Cardinality(1 .. Len(s)) = IF 1 > Len(s) THEN 0 ELSE Len(s) - 1 + 1
    BY <2>2, FS_Interval
  <2> QED  BY <2>1, <2>3
<1>2. s \in [D -> T] /\ \A t \in T : \E d \in D : s[d] = t
  BY SetOfSeq
<1>3. \A a, b \in D : s[a] = s[b] => a = b
  BY SetOfSeq DEF IsInjective
<1> HIDE DEF D, T
<1>4. s \in Surjection(D, T) /\ s \in Injection(D, T)
  BY <1>2, <1>3 DEF Surjection, Injection, IsInjective
<1> QED  BY <1>1, <1>4, FS_Surjection DEF T

LEMMA ArrangementFacts ==
  ASSUME NEW S, IsFiniteSet(S), NEW s \in Arrangements(S)
  PROVE  s \in Seq(S) /\ ToSet(s) = S /\ IsInjective(s)
<1> DEFINE k == Cardinality(S)
           D == 1 .. k
<1>1. k \in Nat
  BY FS_CardinalityType
<1>2. s \in [D -> S] /\ ToSet(s) = S
  BY DEF Arrangements
<1>3. s \in Seq(S)
  BY <1>1, <1>2
<1>4. IsFiniteSet(D) /\ Cardinality(D) = k
  <2>1. 1 \in Int /\ k \in Int
    BY <1>1
  <2>2. IsFiniteSet(1 .. k) /\ Cardinality(1 .. k) = IF 1 > k THEN 0 ELSE k - 1 + 1
    <3> HIDE DEF k
    <3> QED  BY <2>1, FS_Interval
  <2> QED  BY <1>1, <2>2
<1>5. \A t \in S : \E d \in D : s[d] = t
  BY <1>2 DEF ToSet
<1> HIDE DEF D
<1>6. s \in Surjection(D, S)
  BY <1>2, <1>5 DEF Surjection
<1>7. s \in Injection(D, S)
  BY <1>4, <1>6, FS_SurjSameCardinalityImpliesInj DEF k
<1>8. IsInjective(s)
  BY <1>2, <1>7 DEF Injection, IsInjective
<1> QED  BY <1>2, <1>3, <1>8

LEMMA HeadAndTail ==
  ASSUME NEW S, NEW s \in Seq(S), s # <<>>, IsInjective(s)
  PROVE  /\ Head(s) \in S /\ Head(s) \in ToSet(s)
         /\ Tail(s) \in Seq(S) /\ IsInjective(Tail(s))
         /\ ToSet(Tail(s)) = ToSet(s) \ {Head(s)}
<1>1. Len(s) \in Nat \ {0} /\ DOMAIN s = 1 .. Len(s)
  OBVIOUS
<1>2. Head(s) = s[1] /\ Head(s) \in S /\ Head(s) \in ToSet(s)
  BY <1>1, SetOfSeq
<1>3. /\ Tail(s) \in Seq(S) /\ Len(Tail(s)) = Len(s) - 1
      /\ \A i \in 1 .. Len(s) - 1 : Tail(s)[i] = s[i + 1]
  BY <1>1
<1>4. \A i, j \in 1 .. Len(s) : s[i] = s[j] => i = j
  BY <1>1 DEF IsInjective
<1>5. IsInjective(Tail(s))
  <2>1. DOMAIN Tail(s) = 1 .. Len(s) - 1
    BY <1>3
  <2>2. \A i \in 1 .. Len(s) - 1 : i + 1 \in 1 .. Len(s)
    BY <1>1
  <2>3. \A i, j \in 1 .. Len(s) - 1 : i + 1 = j + 1 => i = j
    BY <1>1
  <2> QED  BY <2>1, <2>2, <2>3, <1>3, <1>4 DEF IsInjective
<1>6. \A x : x \in ToSet(Tail(s)) <=> x \in ToSet(s) /\ x # Head(s)
  <2>1. \A x : x \in ToSet(Tail(s)) <=> \E i \in 1 .. Len(s) - 1 : s[i + 1] = x
    <3>1. \A x : x \in ToSet(Tail(s)) <=> \E i \in 1 .. Len(s) - 1 : Tail(s)[i] = x
      <4> DEFINE u == Tail(s)
      <4>1. u \in Seq(S) /\ Len(u) = Len(s) - 1
        BY <1>3
      <4> HIDE DEF u
      <4>2. \A x : x \in ToSet(u) <=> \E i \in 1 .. Len(s) - 1 : u[i] = x
        BY <4>1, SetOfSeq
      <4> QED  BY <4>2 DEF u
    <3> QED  BY <3>1, <1>3
  <2>2. \A x : x \in ToSet(s) <=> \E i \in 1 .. Len(s) : s[i] = x
    BY SetOfSeq
  <2>3. \A i \in 1 .. Len(s) - 1 : i + 1 \in 1 .. Len(s) /\ i + 1 # 1 /\ 1 \in 1 .. Len(s)
    BY <1>1
  <2>4. \A i \in 1 .. Len(s) : i = 1 \/ (i - 1 \in 1 .. Len(s) - 1 /\ (i - 1) + 1 = i)
    BY <1>1
  <2>5. ASSUME NEW x, x \in ToSet(Tail(s))  PROVE x \in ToSet(s) /\ x # Head(s)
    BY <2>5, <2>1, <2>2, <2>3, <1>2, <1>4
  <2>6. ASSUME NEW x, x \in ToSet(s), x # Head(s)  PROVE x \in ToSet(Tail(s))
    <3>1. PICK i \in 1 .. Len(s) : s[i] = x
      BY <2>2, <2>6
    <3>2. i - 1 \in 1 .. Len(s) - 1 /\ s[(i - 1) + 1] = x
      BY <2>4, <2>6, <3>1, <1>2
    <3> QED  BY <2>1, <3>2
  <2> QED  BY <2>5, <2>6
<1> QED  BY <1>2, <1>3, <1>5, <1>6

LEMMA AppendOne ==
  ASSUME NEW S, NEW s \in Seq(S), NEW x \in S, IsInjective(s), x \notin ToSet(s)
  PROVE  /\ Append(s, x) \in Seq(S) /\ Len(Append(s, x)) = Len(s) + 1
         /\ IsInjective(Append(s, x))
         /\ ToSet(Append(s, x)) = ToSet(s) \cup {x}
<1> DEFINE t == Append(s, x)
           k == Len(s)
<1>1. /\ k \in Nat /\ DOMAIN s = 1 .. k /\ t \in Seq(S) /\ Len(t) = k + 1 /\ DOMAIN t = 1 .. k + 1
      /\ \A i \in 1 .. k : t[i] = s[i]
      /\ t[k + 1] = x
  OBVIOUS
<1>2. \A y : y \in ToSet(s) <=> \E i \in 1 .. k : s[i] = y
  BY SetOfSeq
<1> HIDE DEF t
<1>3. \A y : y \in ToSet(t) <=> \E i \in 1 .. k + 1 : t[i] = y
  BY <1>1, SetOfSeq
<1> HIDE DEF k
<1>4. /\ \A i \in 1 .. k + 1 : i = k + 1 \/ i \in 1 .. k
      /\ \A i \in 1 .. k : i \in 1 .. k + 1
      /\ k + 1 \in 1 .. k + 1
  BY <1>1
<1>5. \A y : y \in ToSet(t) <=> y \in ToSet(s) \/ y = x
  BY <1>1, <1>2, <1>3, <1>4
<1>6. IsInjective(t)
  <2>1. \A i, j \in 1 .. k : s[i] = s[j] => i = j
    BY <1>1 DEF IsInjective
  <2>2. \A i \in 1 .. k : t[i] # x
    BY <1>1, <1>2
  <2> QED  BY <2>1, <2>2, <1>1, <1>4 DEF IsInjective
<1> QED  BY <1>1, <1>5, <1>6 DEF t, k

LEMMA ConcatTwo ==
  ASSUME NEW S, NEW s \in Seq(S), NEW t \in Seq(S), IsInjective(s), IsInjective(t),
         ToSet(s) \cap ToSet(t) = {}
  PROVE  /\ s \o t \in Seq(S)
         /\ IsInjective(s \o t)
         /\ ToSet(s \o t) = ToSet(s) \cup ToSet(t)
<1> DEFINE u == s \o t
           k == Len(s)
           m == Len(t)
<1>1. /\ k \in Nat /\ m \in Nat /\ DOMAIN s = 1 .. k /\ DOMAIN t = 1 .. m
      /\ u \in Seq(S) /\ Len(u) = k + m /\ DOMAIN u = 1 .. k + m
      /\ \A i \in 1 .. k + m : u[i] = IF i <= k THEN s[i] ELSE t[i - k]
  OBVIOUS
<1>2. \A y : y \in ToSet(s) <=> \E i \in 1 .. k : s[i] = y
  BY SetOfSeq
<1>3. \A y : y \in ToSet(t) <=> \E i \in 1 .. m : t[i] = y
  BY SetOfSeq
<1> HIDE DEF u
<1>4. \A y : y \in ToSet(u) <=> \E i \in 1 .. k + m : u[i] = y
  BY <1>1, SetOfSeq
<1> HIDE DEF k, m
<1>5. /\ \A i \in 1 .. k + m : i \in 1 .. k \/ (i - k \in 1 .. m /\ ~(i <= k) /\ (i - k) + k = i)
      /\ \A i \in 1 .. k : i \in 1 .. k + m /\ i <= k
      /\ \A i \in 1 .. m : i + k \in 1 .. k + m /\ ~(i + k <= k) /\ (i + k) - k = i
  BY <1>1
<1>6. /\ \A i \in 1 .. k : u[i] = s[i]
      /\ \A i \in 1 .. m : u[i + k] = t[i]
      /\ \A i \in 1 .. k + m : (i \in 1 .. k /\ u[i] = s[i]) \/ (i - k \in 1 .. m /\ u[i] = t[i - k])
  BY <1>1, <1>5
<1>7. \A y : y \in ToSet(u) <=> y \in ToSet(s) \/ y \in ToSet(t)
  <2>1. ASSUME NEW y, y \in ToSet(u)  PROVE y \in ToSet(s) \/ y \in ToSet(t)
    BY <2>1, <1>2, <1>3, <1>4, <1>6
  <2>2. ASSUME NEW y, y \in ToSet(s)  PROVE y \in ToSet(u)
    BY <2>2, <1>2, <1>4, <1>5, <1>6
  <2>3. ASSUME NEW y, y \in ToSet(t)  PROVE y \in ToSet(u)
    BY <2>3, <1>3, <1>4, <1>5, <1>6
  <2> QED  BY <2>1, <2>2, <2>3
<1>8. IsInjective(u)
  <2>1. \A i, j \in 1 .. k : s[i] = s[j] => i = j
    BY <1>1 DEF IsInjective
  <2>2. \A i, j \in 1 .. m : t[i] = t[j] => i = j
    BY <1>1 DEF IsInjective
  <2>3. \A i \in 1 .. k, j \in 1 .. m : s[i] # t[j]
    BY <1>2, <1>3
  <2> SUFFICES ASSUME NEW i \in 1 .. k + m, NEW j \in 1 .. k + m, u[i] = u[j]
               PROVE  i = j
    BY <1>1 DEF IsInjective
  <2>4. CASE i \in 1 .. k /\ u[i] = s[i] /\ j \in 1 .. k /\ u[j] = s[j]
    BY <2>1, <2>4
  <2>5. CASE i - k \in 1 .. m /\ u[i] = t[i - k] /\ j - k \in 1 .. m /\ u[j] = t[j - k]
    <3>1. i - k = j - k
      BY <2>2, <2>5
    <3> QED  BY <3>1, <1>1
  <2> QED  BY <2>3, <2>4, <2>5, <1>6
<1> QED  BY <1>1, <1>7, <1>8 DEF u

-----------------------------------------------------------------------------
(* The sort *)

SortType ==
    /\ expansion \in [Programs -> {"single", "plain", "numbered"}]
    /\ kind \in {"all", "group"}
    /\ group \in SUBSET Programs

(* a node enters the queue when its last dependency is visited, and only then *)
Sorting ==
    /\ queue \in Seq(Nodes) /\ order \in Seq(Nodes)
    /\ IsInjective(queue) /\ IsInjective(order)
    /\ ToSet(queue) \cap ToSet(order) = {}
    /\ \A n \in Nodes : inDegree[n] = Cardinality(Deps(n) \ ToSet(order))
    /\ \A n \in ToSet(queue) : Deps(n) \subseteq ToSet(order)
    /\ \A n \in Nodes \ (ToSet(order) \cup ToSet(queue)) : Deps(n) \ ToSet(order) # {}

SortInv ==
    /\ DfsInv
    /\ SortType
    /\ pc \in {"validate", "loaded"} => order = <<>>
    /\ pc = "sort" => Sorting
    /\ DependenciesFirst /\ ValidatedIsSorted /\ EveryoneVisited

(* the graph is finite, and stays as it is during a sort *)
LEMMA GraphFacts ==
  ASSUME DfsType, SortType
  PROVE  /\ Processes \subseteq Programs \X (0 .. NumProcs)
         /\ Nodes \subseteq Names \X (0 .. NumProcs)
         /\ IsFiniteSet(Processes) /\ IsFiniteSet(Nodes)
         /\ \A n : Deps(n) \subseteq Nodes
<1>1. Processes \subseteq Programs \X (0 .. NumProcs)
  BY ConfigAssumption DEF Processes, Instances
<1>2. \A n \in Processes : DependsOn(n) \subseteq Names \X (0 .. NumProcs)
  <2> SUFFICES ASSUME NEW n \in Processes
               PROVE  dependsOn[n[1]] \X {0} \subseteq Names \X (0 .. NumProcs)
    BY DEF DependsOn, ProgramOf
  <2>1. n[1] \in Programs
    BY <1>1
  <2>2. dependsOn[n[1]] \subseteq Names
    BY <2>1 DEF DfsType
  <2>3. 0 \in 0 .. NumProcs
    BY ConfigAssumption
  <2> QED  BY <2>2, <2>3
<1>3. Nodes \subseteq Names \X (0 .. NumProcs)
  BY <1>1, <1>2 DEF Nodes, Names
<1>4. IsFiniteSet(Names \X (0 .. NumProcs)) /\ IsFiniteSet(Programs \X (0 .. NumProcs))
  <2>1. IsFiniteSet(Names)
    BY ConfigAssumption, FS_Union DEF Names
  <2>2. IsFiniteSet(0 .. NumProcs)
    BY ConfigAssumption, FS_Interval
  <2> QED  BY <2>1, <2>2, ConfigAssumption, FS_Product
<1>5. IsFiniteSet(Processes) /\ IsFiniteSet(Nodes)
  BY <1>1, <1>3, <1>4, FS_Subset
<1>6. \A n : Deps(n) \subseteq Nodes
  BY DEF Deps
<1> QED  BY <1>1, <1>3, <1>5, <1>6

LEMMA GraphFactsNext ==
  ASSUME DfsType', SortType'
  PROVE  IsFiniteSet(Nodes') /\ \A n : Deps(n)' \subseteq Nodes'
<1>1. Processes' \subseteq Programs \X (0 .. NumProcs)
  BY ConfigAssumption DEF Processes, Instances
<1>2. \A n \in Processes' : DependsOn(n)' \subseteq Names \X (0 .. NumProcs)
  <2> SUFFICES ASSUME NEW n \in Processes'
               PROVE  dependsOn'[n[1]] \X {0} \subseteq Names \X (0 .. NumProcs)
    BY DEF DependsOn, ProgramOf
  <2>1. n[1] \in Programs
    BY <1>1
  <2>2. dependsOn'[n[1]] \subseteq Names
    BY <2>1 DEF DfsType
  <2>3. 0 \in 0 .. NumProcs
    BY ConfigAssumption
  <2> QED  BY <2>2, <2>3
<1>3. Nodes' \subseteq Names \X (0 .. NumProcs)
  BY <1>1, <1>2 DEF Nodes, Names
<1>4. IsFiniteSet(Names \X (0 .. NumProcs))
  <2>1. IsFiniteSet(Names)
    BY ConfigAssumption, FS_Union DEF Names
  <2>2. IsFiniteSet(0 .. NumProcs)
    BY ConfigAssumption, FS_Interval
  <2> QED  BY <2>1, <2>2, FS_Product
<1>5. IsFiniteSet(Nodes')
  BY <1>3, <1>4, FS_Subset
<1> QED  BY <1>5 DEF Deps

LEMMA GraphFixed ==
  ASSUME UNCHANGED loaded
  PROVE  /\ Processes' = Processes /\ Nodes' = Nodes /\ Members' = Members
         /\ \A n : Deps(n)' = Deps(n)
         /\ Missing' = Missing
         /\ Warned' = Warned /\ CyclicPrograms' = CyclicPrograms
<1>1. Processes' = Processes
  BY DEF loaded, Processes, Instances
<1>2. \A n : DependsOn(n)' = DependsOn(n)
  BY DEF loaded, DependsOn, ProgramOf
<1>3. Nodes' = Nodes
  BY <1>1, <1>2 DEF Nodes, loaded, ProgramOf
<1> QED  BY <1>1, <1>2, <1>3 DEF Deps, Missing, Members, Warned, CyclicPrograms, loaded

(* during the sort the search stays over *)
LEMMA DfsKept ==
  ASSUME DfsInv, UNCHANGED <<dependsOn, color, stack, cycle>>, pc # "validate",
         pc' \in {"loaded", "sort", "sorted", "fallback"}
  PROVE  DfsInv'
  BY DEF DfsInv, DfsType, Path, Explored, NoBlackCycle, CycleReported, CyclicPrograms

LEMMA BeginStep ==
  ASSUME SortInv, Begin
  PROVE  SortInv'
<1>1. pc = "loaded" /\ pc' = "sort" /\ order' = order /\ order = <<>>
  BY DEF Begin, SortInv
<1>2. DfsInv'
  BY <1>1, DfsKept DEF Begin, SortInv
<1>3. SortType'
  BY DependenciesAssumption DEF Begin, SortInv, SortType
<1>4. IsFiniteSet(Nodes') /\ \A n : Deps(n)' \subseteq Nodes'
  BY <1>2, <1>3, GraphFactsNext DEF DfsInv
<1> DEFINE free == {n \in Nodes' : Deps(n)' = {}}
<1>5. queue' \in Arrangements(free)
  BY DEF Begin
<1>6. queue' \in Seq(free) /\ ToSet(queue') = free /\ IsInjective(queue')
  <2>1. IsFiniteSet(free)
    BY <1>4, FS_Subset
  <2> HIDE DEF free
  <2> QED  BY <1>5, <2>1, ArrangementFacts
<1>7. queue' \in Seq(Nodes')
  <2>1. free \subseteq Nodes'
    OBVIOUS
  <2> HIDE DEF free
  <2> QED  BY <1>6, <2>1, SeqMonotonic
<1>8. order' \in Seq(Nodes') /\ IsInjective(order') /\ ToSet(order') = {}
  BY <1>1 DEF IsInjective, ToSet
<1>9. \A n \in Nodes' : inDegree'[n] = Cardinality(Deps(n)' \ ToSet(order'))
  <2>1. inDegree' = [n \in Nodes' |-> Cardinality(Deps(n)')]
    BY DEF Begin
  <2>2. \A n : Deps(n)' \ ToSet(order') = Deps(n)'
    BY <1>8
  <2> QED  BY <2>1, <2>2
<1>10. Sorting'
  <2>1. \A n \in ToSet(queue') : Deps(n)' \subseteq ToSet(order')
    BY <1>6, <1>8
  <2>2. \A n \in Nodes' \ (ToSet(order') \cup ToSet(queue')) : Deps(n)' \ ToSet(order') # {}
    BY <1>6, <1>8
  <2> HIDE DEF free
  <2> QED  BY <1>6, <1>7, <1>8, <1>9, <2>1, <2>2 DEF Sorting
<1>11. DependenciesFirst'
  BY <1>1 DEF DependenciesFirst
<1>12. ValidatedIsSorted' /\ EveryoneVisited'
  BY <1>1 DEF ValidatedIsSorted, EveryoneVisited
<1> QED  BY <1>1, <1>2, <1>3, <1>10, <1>11, <1>12 DEF SortInv

(* the numbers of a set that loses one member *)
LEMMA OneLess ==
  ASSUME NEW A, NEW B, NEW x, IsFiniteSet(A), x \notin B
  PROVE  /\ x \in A => Cardinality(A \ (B \cup {x})) = Cardinality(A \ B) - 1
         /\ x \notin A => A \ (B \cup {x}) = A \ B
<1>1. IsFiniteSet(A \ B)
  BY FS_Subset
<1>2. A \ (B \cup {x}) = (A \ B) \ {x}
  OBVIOUS
<1>3. x \in A => Cardinality((A \ B) \ {x}) = Cardinality(A \ B) - 1
  BY <1>1, FS_RemoveElement
<1> QED  BY <1>2, <1>3

LEMMA TheLastOne ==
  ASSUME NEW A, NEW B, NEW x \in A, IsFiniteSet(A), x \notin B
  PROVE  Cardinality(A \ B) = 1 <=> A \subseteq B \cup {x}
<1>1. IsFiniteSet(A \ B) /\ x \in A \ B
  BY FS_Subset
<1>2. ASSUME Cardinality(A \ B) = 1  PROVE A \subseteq B \cup {x}
  <2>1. PICK y : A \ B = {y}
    BY <1>1, <1>2, FS_Singleton
  <2> QED  BY <2>1, <1>1
<1>3. ASSUME A \subseteq B \cup {x}  PROVE Cardinality(A \ B) = 1
  <2>1. A \ B = {x}
    BY <1>1, <1>3
  <2> QED  BY <2>1, FS_Singleton
<1> QED  BY <1>2, <1>3

LEMMA VisitStep ==
  ASSUME SortInv, Visit
  PROVE  SortInv'
<1> DEFINE current == Head(queue)
           waiting == {n \in Nodes : current \in Deps(n)}
           ready   == {n \in waiting : inDegree[n] = 1}
           done    == ToSet(order)
           still   == ToSet(queue) \ {current}
<1>1. pc = "sort" /\ pc' = "sort" /\ queue # <<>> /\ UNCHANGED loaded
  BY DEF Visit
<1>2. Sorting /\ DfsInv /\ SortType /\ DfsType /\ DependenciesFirst
  BY <1>1 DEF SortInv, DfsInv
<1>3. /\ Nodes' = Nodes /\ \A n : Deps(n)' = Deps(n)
  BY <1>1, GraphFixed
<1>4. IsFiniteSet(Nodes) /\ \A n : Deps(n) \subseteq Nodes /\ IsFiniteSet(Deps(n))
  BY <1>2, GraphFacts, FS_Subset
<1>5. /\ current \in Nodes /\ current \in ToSet(queue)
      /\ Tail(queue) \in Seq(Nodes) /\ IsInjective(Tail(queue)) /\ ToSet(Tail(queue)) = still
  BY <1>1, <1>2, HeadAndTail DEF Sorting
<1>6. /\ order' = Append(order, current)
      /\ inDegree' = [n \in Nodes |-> IF n \in waiting THEN inDegree[n] - 1 ELSE inDegree[n]]
      /\ \E batch \in Arrangements(ready) :
            \/ queue' = Tail(queue) \o batch
            \/ queue' \in Arrangements(ToSet(Tail(queue) \o batch))
  BY DEF Visit
<1>7. current \notin done
  BY <1>2, <1>5 DEF Sorting
<1>8. /\ order' \in Seq(Nodes) /\ Len(order') = Len(order) + 1 /\ IsInjective(order')
      /\ ToSet(order') = done \cup {current}
  BY <1>2, <1>5, <1>6, <1>7, AppendOne DEF Sorting
<1>9. \A n \in done : Deps(n) \subseteq done
  <2> SUFFICES ASSUME NEW n \in done  PROVE Deps(n) \subseteq done
    OBVIOUS
  <2>1. order \in Seq(Nodes)
    BY <1>2 DEF Sorting
  <2>2. PICK i \in 1 .. Len(order) : order[i] = n
    BY <2>1, SetOfSeq
  <2>3. Deps(n) \subseteq {order[j] : j \in 1 .. i - 1}
    BY <1>1, <1>2, <2>1, <2>2 DEF DependenciesFirst
  <2>4. \A j \in 1 .. i - 1 : j \in 1 .. Len(order)
    BY <2>1, <2>2
  <2> QED  BY <2>1, <2>3, <2>4, SetOfSeq
<1>10. \A n \in ToSet(queue) : Deps(n) \subseteq done
  BY <1>2 DEF Sorting
<1>11. ready \cap (done \cup ToSet(queue)) = {} /\ ready \subseteq Nodes
  BY <1>7, <1>9, <1>10
<1>12. \A n \in Nodes : inDegree[n] = Cardinality(Deps(n) \ done)
  BY <1>2 DEF Sorting
<1>13. \A n \in waiting : n \in ready <=> Deps(n) \ (done \cup {current}) = {}
  <2> SUFFICES ASSUME NEW n \in waiting
               PROVE  inDegree[n] = 1 <=> Deps(n) \ (done \cup {current}) = {}
    OBVIOUS
  <2>1. IsFiniteSet(Deps(n)) /\ current \in Deps(n) /\ inDegree[n] = Cardinality(Deps(n) \ done)
    BY <1>4, <1>12
  <2> DEFINE D == Deps(n)
  <2>2. IsFiniteSet(D) /\ current \in D /\ current \notin done
    BY <2>1, <1>7
  <2> HIDE DEF current, done, D
  <2>3. Cardinality(D \ done) = 1 <=> D \subseteq done \cup {current}
    BY <2>2, TheLastOne
  <2> QED  BY <2>1, <2>3 DEF D
<1>14. \A n \in Nodes : inDegree'[n] = Cardinality(Deps(n) \ ToSet(order'))
  <2> SUFFICES ASSUME NEW n \in Nodes
               PROVE  inDegree'[n] = Cardinality(Deps(n) \ (done \cup {current}))
    BY <1>8
  <2>1. inDegree'[n] = IF current \in Deps(n) THEN inDegree[n] - 1 ELSE inDegree[n]
    BY <1>6
  <2>2. IsFiniteSet(Deps(n)) /\ inDegree[n] = Cardinality(Deps(n) \ done)
    BY <1>4, <1>12
  <2> DEFINE D == Deps(n)
  <2>3. IsFiniteSet(D) /\ current \notin done
    BY <2>2, <1>7
  <2> HIDE DEF current, done, D
  <2>4. /\ current \in D => Cardinality(D \ (done \cup {current})) = Cardinality(D \ done) - 1
        /\ current \notin D => D \ (done \cup {current}) = D \ done
    BY <2>3, OneLess
  <2> QED  BY <2>1, <2>2, <2>4 DEF D
<1>15. queue' \in Seq(Nodes) /\ IsInjective(queue') /\ ToSet(queue') = still \cup ready
  <2>1. PICK batch \in Arrangements(ready) :
            \/ queue' = Tail(queue) \o batch
            \/ queue' \in Arrangements(ToSet(Tail(queue) \o batch))
    BY <1>6
  <2>2. IsFiniteSet(ready)
    BY <1>4, <1>11, FS_Subset
  <2>3. batch \in Seq(ready) /\ ToSet(batch) = ready /\ IsInjective(batch)
    <3> HIDE DEF ready
    <3> QED  BY <2>2, ArrangementFacts
  <2>4. batch \in Seq(Nodes)
    <3> HIDE DEF ready
    <3> QED  BY <1>11, <2>3, SeqMonotonic
  <2>5. still \cap ready = {} /\ still \cup ready \in SUBSET Nodes
    <3>1. ToSet(queue) \subseteq Nodes
      BY <1>2, SetOfSeq DEF Sorting
    <3> QED  BY <3>1, <1>11
  <2> DEFINE all == Tail(queue) \o batch
  <2>6. all \in Seq(Nodes) /\ IsInjective(all) /\ ToSet(all) = still \cup ready
    <3> DEFINE t == Tail(queue)
    <3>1. /\ t \in Seq(Nodes) /\ IsInjective(t) /\ batch \in Seq(Nodes) /\ IsInjective(batch)
          /\ ToSet(t) = still /\ ToSet(batch) = ready /\ ToSet(t) \cap ToSet(batch) = {}
      BY <1>5, <2>3, <2>4, <2>5
    <3> HIDE DEF still, ready, t
    <3>2. /\ t \o batch \in Seq(Nodes) /\ IsInjective(t \o batch)
          /\ ToSet(t \o batch) = ToSet(t) \cup ToSet(batch)
      BY <3>1, ConcatTwo
    <3> QED  BY <3>1, <3>2 DEF t
  <2>7. CASE queue' = all
    BY <2>6, <2>7
  <2>8. CASE queue' \in Arrangements(ToSet(all))
    <3>1. IsFiniteSet(still \cup ready)
      BY <1>4, <2>5, FS_Subset
    <3> HIDE DEF still, ready, all
    <3>2. queue' \in Seq(still \cup ready) /\ IsInjective(queue') /\ ToSet(queue') = still \cup ready
      BY <2>6, <2>8, <3>1, ArrangementFacts
    <3> QED  BY <3>2, <2>5, SeqMonotonic
  <2> QED  BY <2>1, <2>7, <2>8
<1>16. Sorting'
  <2>1. ToSet(queue') \cap ToSet(order') = {}
    <3>1. ToSet(queue) \cap done = {}
      BY <1>2 DEF Sorting
    <3> QED  BY <3>1, <1>5, <1>8, <1>11, <1>15
  <2>2. \A n \in ToSet(queue') : Deps(n) \subseteq ToSet(order')
    BY <1>8, <1>10, <1>13, <1>15
  <2>3. ASSUME NEW n \in Nodes \ (ToSet(order') \cup ToSet(queue'))
        PROVE  Deps(n) \ ToSet(order') # {}
    <3>1. n \notin done \cup ToSet(queue)
      BY <1>8, <1>15
    <3>2. Deps(n) \ done # {}
      BY <1>2, <3>1 DEF Sorting
    <3>3. n \notin ready
      BY <1>15
    <3>4. CASE n \in waiting
      BY <3>3, <3>4, <1>8, <1>13
    <3>5. CASE n \notin waiting
      BY <3>2, <3>5, <1>8
    <3> QED  BY <3>4, <3>5
  <2> HIDE DEF current, waiting, ready, done, still
  <2> QED  BY <1>3, <1>8, <1>14, <1>15, <2>1, <2>2, <2>3 DEF Sorting
<1>17. DependenciesFirst'
  <2> SUFFICES ASSUME NEW i \in 1 .. Len(order) + 1
               PROVE  Deps(order'[i]) \subseteq {order'[j] : j \in 1 .. i - 1}
    BY <1>3, <1>8 DEF DependenciesFirst
  <2>1. order \in Seq(Nodes) /\ Len(order) \in Nat
    BY <1>2 DEF Sorting
  <2>2. /\ \A j \in 1 .. Len(order) : order'[j] = order[j]
        /\ order'[Len(order) + 1] = current
    BY <1>5, <1>6, <2>1
  <2>3. CASE i = Len(order) + 1
    <3>1. Deps(order'[i]) \subseteq done
      BY <2>2, <2>3, <1>5, <1>10
    <3>2. i - 1 = Len(order)
      BY <2>1, <2>3
    <3>3. done = {order'[j] : j \in 1 .. i - 1}
      BY <2>1, <2>2, <3>2, SetOfSeq
    <3> QED  BY <3>1, <3>3
  <2>4. CASE i \in 1 .. Len(order)
    <3>1. Deps(order[i]) \subseteq {order[j] : j \in 1 .. i - 1}
      BY <1>1, <1>2, <2>1, <2>4 DEF DependenciesFirst
    <3>2. \A j \in 1 .. i - 1 : j \in 1 .. Len(order)
      BY <2>1, <2>4
    <3>3. \A j \in 1 .. i - 1 : order'[j] = order[j]
      BY <2>2, <3>2
    <3> QED  BY <2>2, <2>4, <3>1, <3>3
  <2>5. i = Len(order) + 1 \/ i \in 1 .. Len(order)
    BY <2>1
  <2> QED  BY <2>3, <2>4, <2>5
<1>18. DfsInv' /\ SortType'
  <2>1. DfsInv'
    BY <1>1, <1>2, DfsKept DEF loaded
  <2> QED  BY <2>1, <1>1, <1>2 DEF SortType, loaded
<1>19. ValidatedIsSorted' /\ EveryoneVisited'
  BY <1>1 DEF ValidatedIsSorted, EveryoneVisited
<1> QED  BY <1>1, <1>16, <1>17, <1>18, <1>19 DEF SortInv

(* when the queue is empty, a node that was not visited waits for another such node *)
LEMMA StuckIsCyclic ==
  ASSUME SortInv, pc = "sort", queue = <<>>, Nodes \subseteq Processes,
         Nodes \ ToSet(order) # {}
  PROVE  CyclicPrograms
<1> DEFINE R == Nodes \ ToSet(order)
           S == {n[1] : n \in R}
<1>1. Sorting /\ DfsType /\ SortType
  BY DEF SortInv, DfsInv
<1>2. Processes \subseteq Programs \X (0 .. NumProcs) /\ \A n : Deps(n) \subseteq Nodes
  BY <1>1, GraphFacts
<1>3. S \in SUBSET Programs /\ S # {}
  BY <1>2
<1>4. ASSUME NEW p \in S  PROVE dependsOn[p] \cap S # {}
  <2>1. PICK n \in R : p = n[1]
    OBVIOUS
  <2>2. ToSet(queue) = {}
    BY DEF ToSet
  <2>3. Deps(n) \ ToSet(order) # {}
    BY <1>1, <2>2 DEF Sorting
  <2>4. PICK m \in Deps(n) : m \notin ToSet(order)
    BY <2>3
  <2>5. m \in R
    BY <1>2, <2>4
  <2>6. m \in dependsOn[p] \X {0}
    BY <2>1, <2>4 DEF Deps, DependsOn, ProgramOf
  <2> QED  BY <2>5, <2>6
<1> HIDE DEF S
<1> QED  BY <1>3, <1>4 DEF CyclicPrograms

(* some program depends on one whose processes are numbered *)
NumberedDependency ==
    \E p, q \in Programs : q \in dependsOn[p] /\ expansion[q] = "numbered"

(* without warnings and numbered processes every name that is depended on has a process *)
LEMMA NothingMissing ==
  ASSUME DfsType, SortType, ~Warned, ~NumberedDependency
  PROVE  Nodes \subseteq Processes
<1>1. Processes \subseteq Programs \X (0 .. NumProcs)
  BY GraphFacts
<1>2. ASSUME NEW n \in Processes, NEW d \in DependsOn(n)  PROVE d \in Processes
  <2>1. n[1] \in Programs
    BY <1>1
  <2>2. PICK q \in dependsOn[n[1]] : d = <<q, 0>>
    BY DEF DependsOn, ProgramOf
  <2>3. q \in Programs
    BY <2>1, <2>2 DEF Warned
  <2>4. expansion[q] # "numbered"
    BY <2>1, <2>2, <2>3 DEF NumberedDependency
  <2> QED  BY <2>2, <2>3, <2>4 DEF Processes, Instances
<1> QED  BY <1>2 DEF Nodes

LEMMA FinishAllStep ==
  ASSUME SortInv, FinishAll
  PROVE  SortInv'
<1>1. /\ pc = "sort" /\ queue = <<>> /\ kind = "all" /\ UNCHANGED loaded
      /\ \/ Len(order) = Cardinality(Processes) /\ pc' = "sorted" /\ order' = order
         \/ /\ Len(order) # Cardinality(Processes) /\ pc' = "fallback"
            /\ order' \in Arrangements(Processes)
  BY DEF FinishAll
<1>2. Sorting /\ DfsInv /\ SortType /\ DfsType /\ DependenciesFirst /\ CycleReported
  BY <1>1 DEF SortInv, DfsInv
<1>3. /\ Nodes' = Nodes /\ Processes' = Processes /\ Members' = Members /\ Missing' = Missing
      /\ (\A n : Deps(n)' = Deps(n)) /\ Warned' = Warned
  BY <1>1, GraphFixed
<1>4. IsFiniteSet(Processes) /\ IsFiniteSet(Nodes)
  BY <1>2, GraphFacts
<1>5. /\ order \in Seq(Nodes) /\ IsInjective(order) /\ ToSet(order) \subseteq Nodes
      /\ Cardinality(ToSet(order)) = Len(order)
  BY <1>2, SetOfSeq, LengthOfInjective DEF Sorting
<1>6. DfsInv' /\ SortType'
  <2>1. DfsInv'
    BY <1>1, <1>2, DfsKept DEF loaded
  <2> QED  BY <2>1, <1>1, <1>2 DEF SortType, loaded
<1>7. DependenciesFirst'
  BY <1>1, <1>2, <1>3 DEF DependenciesFirst
<1>8. EveryoneVisited'
  <2> SUFFICES ASSUME Missing = {}
               PROVE  ToSet(order') \cap Processes = Processes /\ IsInjective(order')
    BY <1>1, <1>3 DEF EveryoneVisited, Visited, Members, loaded
  <2>1. CASE order' = order /\ Len(order) = Cardinality(Processes)
    <3>1. Nodes = Processes
      <4> DEFINE U == UNION {DependsOn(n) : n \in Processes}
      <4>1. Nodes = Processes \cup U
        BY <1>1 DEF Nodes
      <4>2. U \ Processes = {}
        BY DEF Missing
      <4> HIDE DEF U
      <4> QED  BY <4>1, <4>2
    <3>2. ToSet(order) = Processes
      BY <2>1, <3>1, <1>4, <1>5, FS_Subset
    <3> QED  BY <2>1, <3>2, <1>5
  <2>2. CASE order' \in Arrangements(Processes)
    BY <2>2, <1>4, ArrangementFacts
  <2> QED  BY <2>1, <2>2, <1>1
<1>9. ValidatedIsSorted'
  <2> SUFFICES ASSUME Len(order) # Cardinality(Processes), ~Warned, ~NumberedDependency
               PROVE  FALSE
    BY <1>1, <1>3 DEF ValidatedIsSorted, NumberedDependency, loaded
  <2>1. Nodes = Processes
    BY <1>1, <1>2, NothingMissing DEF Nodes
  <2>2. Nodes \ ToSet(order) # {}
    BY <2>1, <1>5
  <2>3. CyclicPrograms
    BY <1>1, <2>1, <2>2, StuckIsCyclic
  <2> QED  BY <1>1, <1>2, <2>3 DEF CycleReported, Warned
<1> QED  BY <1>1, <1>6, <1>7, <1>8, <1>9 DEF SortInv

LEMMA FinishGroupStep ==
  ASSUME SortInv, FinishGroup
  PROVE  SortInv'
<1>1. pc = "sort" /\ queue = <<>> /\ kind = "group" /\ UNCHANGED loaded
  BY DEF FinishGroup
<1> DEFINE left == Nodes \ ToSet(order)
<1>2. PICK rest \in Arrangements(left) :
        order' = order \o rest /\ pc' = IF rest = <<>> THEN "sorted" ELSE "fallback"
  BY DEF FinishGroup
<1>3. Sorting /\ DfsInv /\ SortType /\ DfsType /\ DependenciesFirst /\ CycleReported
  BY <1>1 DEF SortInv, DfsInv
<1>4. /\ Nodes' = Nodes /\ Processes' = Processes /\ Members' = Members
      /\ (\A n : Deps(n)' = Deps(n)) /\ Warned' = Warned
  BY <1>1, GraphFixed
<1>5. Nodes \subseteq Processes /\ Members = Nodes
  BY <1>1 DEF Nodes, Members
<1>6. order \in Seq(Nodes) /\ IsInjective(order) /\ ToSet(order) \subseteq Nodes
  BY <1>3, SetOfSeq DEF Sorting
<1>7. rest \in Seq(left) /\ ToSet(rest) = left /\ IsInjective(rest)
  <2>1. IsFiniteSet(left)
    BY <1>3, GraphFacts, FS_Subset
  <2> HIDE DEF left
  <2> QED  BY <2>1, ArrangementFacts
<1>8. rest \in Seq(Nodes)
  <2>1. left \subseteq Nodes
    OBVIOUS
  <2> HIDE DEF left
  <2> QED  BY <1>7, <2>1, SeqMonotonic
<1>9. IsInjective(order') /\ ToSet(order') = Nodes
  <2>1. ToSet(order) \cap ToSet(rest) = {} /\ ToSet(order) \cup ToSet(rest) = Nodes
    BY <1>6, <1>7
  <2>2. IsInjective(order \o rest) /\ ToSet(order \o rest) = ToSet(order) \cup ToSet(rest)
    BY <1>6, <1>7, <1>8, <2>1, ConcatTwo
  <2> QED  BY <1>2, <2>1, <2>2
<1>10. DfsInv' /\ SortType'
  <2>1. pc' \in {"sorted", "fallback"}
    BY <1>2
  <2>2. DfsInv'
    BY <1>1, <1>3, <2>1, DfsKept DEF loaded
  <2> QED  BY <2>2, <1>1, <1>3 DEF SortType, loaded
<1>11. DependenciesFirst'
  <2>1. CASE rest = <<>>
    <3>1. order' = order
      BY <1>2, <1>6, <2>1
    <3> QED  BY <3>1, <1>1, <1>3, <1>4 DEF DependenciesFirst
  <2>2. CASE rest # <<>>
    BY <1>2, <2>2 DEF DependenciesFirst
  <2> QED  BY <2>1, <2>2
<1>12. EveryoneVisited'
  BY <1>4, <1>5, <1>9 DEF EveryoneVisited, Visited
<1>13. ValidatedIsSorted'
  <2> SUFFICES ASSUME rest # <<>>  PROVE Warned
    BY <1>2, <1>4 DEF ValidatedIsSorted
  <2>1. left # {}
    <3>1. Len(rest) \in Nat \ {0}
      BY <1>8
    <3>2. rest[1] \in left
      BY <1>7, <3>1
    <3> QED  BY <3>2
  <2>2. CyclicPrograms
    BY <1>1, <1>5, <2>1, StuckIsCyclic
  <2> QED  BY <1>1, <1>3, <2>2 DEF CycleReported, Warned
<1>14. pc' \in {"sorted", "fallback"}
  BY <1>2
<1> QED  BY <1>10, <1>11, <1>12, <1>13, <1>14 DEF SortInv

-----------------------------------------------------------------------------
(* Theorems *)

LEMMA SortInitial == Init => SortInv
<1> SUFFICES ASSUME Init  PROVE SortInv
  OBVIOUS
<1>1. DfsInv
  BY DfsInit DEF Init
<1>2. SortType /\ pc = "validate" /\ order = <<>>
  BY DEF Init, ConfigInit, SortType
<1> QED  BY <1>1, <1>2 DEF SortInv, DependenciesFirst, ValidatedIsSorted, EveryoneVisited

LEMMA SortStep == SortInv /\ [Next]_vars => SortInv'
<1> SUFFICES ASSUME SortInv, [Next]_vars  PROVE SortInv'
  OBVIOUS
<1>1. CASE Load
  <2>1. DfsInv'
    BY <1>1, ValidateStep DEF Load, SortInv
  <2>2. /\ pc = "validate" /\ pc' \in {"validate", "loaded"}
        /\ UNCHANGED <<expansion, kind, group, order>>
    BY <1>1 DEF Load, Validate, DfsRoot, DfsEdge, DfsReturn, DfsEnd, Found, SortInv, DfsInv, DfsType
  <2> QED  BY <2>1, <2>2 DEF SortInv, SortType, DependenciesFirst, ValidatedIsSorted, EveryoneVisited
<1>2. CASE Begin
  BY <1>2, BeginStep
<1>3. CASE Visit
  BY <1>3, VisitStep
<1>4. CASE FinishAll
  BY <1>4, FinishAllStep
<1>5. CASE FinishGroup
  BY <1>5, FinishGroupStep
<1>6. CASE UNCHANGED vars
  <2>1. UNCHANGED loaded /\ UNCHANGED <<pc, order, queue, inDegree, expansion, kind, group>>
    BY <1>6 DEF vars, configVars, loaded
  <2>2. /\ Nodes' = Nodes /\ Processes' = Processes /\ Members' = Members /\ Missing' = Missing
        /\ (\A n : Deps(n)' = Deps(n)) /\ Warned' = Warned
    BY <2>1, GraphFixed
  <2>3. DfsInv'
    BY <2>1 DEF loaded, SortInv, DfsInv, DfsType, Path, Explored, NoBlackCycle, CycleReported,
                CyclicPrograms
  <2>4. SortType' /\ (pc' \in {"validate", "loaded"} => order' = <<>>)
    BY <2>1 DEF SortInv, SortType
  <2>5. pc' = "sort" => Sorting'
    BY <2>1, <2>2 DEF SortInv, Sorting
  <2>6. DependenciesFirst' /\ EveryoneVisited'
    BY <2>1, <2>2 DEF SortInv, DependenciesFirst, EveryoneVisited, Visited
  <2>7. ValidatedIsSorted'
    BY <2>1, <2>2 DEF SortInv, ValidatedIsSorted, loaded
  <2> QED  BY <2>3, <2>4, <2>5, <2>6, <2>7 DEF SortInv
<1> QED  BY <1>1, <1>2, <1>3, <1>4, <1>5, <1>6 DEF Next

LEMMA SortInvariant == Spec => []SortInv
  BY SortInitial, SortStep, PTL DEF Spec

(* findDependencyCycle reports a cycle if and only if programs wait for each other,
   for every configuration and every order of the search. *)
THEOREM CyclesAreReported == Spec => []CycleReported
<1>1. SortInv => CycleReported
  BY DEF SortInv, DfsInv
<1> QED  BY <1>1, SortInvariant, PTL

(* topologicalSort and topologicalSortForGroup visit no node before one that it depends
   on, whatever priorities, groups and ties do to their queues. *)
THEOREM SortRespectsDependencies == Spec => []DependenciesFirst
<1>1. SortInv => DependenciesFirst
  BY DEF SortInv
<1> QED  BY <1>1, SortInvariant, PTL

(* The sort gives up on nothing that ValidateConfig did not warn of, but for programs
   that depend on one whose processes are numbered. *)
THEOREM ValidatedConfigurationsSort == Spec => []ValidatedIsSorted
<1>1. SortInv => ValidatedIsSorted
  BY DEF SortInv
<1> QED  BY <1>1, SortInvariant, PTL

(* Unless a name is missing, the callers' loops visit every process exactly once, with
   or without a cycle. *)
THEOREM EveryProcessOnce == Spec => []EveryoneVisited
<1>1. SortInv => EveryoneVisited
  BY DEF SortInv
<1> QED  BY <1>1, SortInvariant, PTL
=============================================================================
