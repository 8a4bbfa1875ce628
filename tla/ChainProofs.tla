---------------------------- MODULE ChainProofs ----------------------------
(***************************************************************************)
(* For any number of chains and links: every link the heap gave out is on  *)
(* exactly one list, and no borrowed box lies in a link that was freed.    *)
(*                                                                         *)
(* The argument is that the pointer a step moves is the only one to its    *)
(* link, so that a change to that link is seen from no other list.         *)
(***************************************************************************)
EXTENDS Chain, ArenaProofs

LEMMA ChainInit == Init => ChainInv
  BY ChainAssumption, ArenaAssumption
     DEF Init, ChainInv, TypeOK, EachLinkOnce, BoxesSafe, RootsSound, BelowClosed,
         From, Borrowed, Idle, NoCall, Calls

\* Whoever leads to a link leads to the links below it.
LEMMA FromClosed ==
  ASSUME ChainInv, NEW h \in Links \cup {Nil}, h # Nil => h \in allocated,
         NEW l \in From(h), NEW m \in below[l]
  PROVE  m \in From(h) /\ l \in allocated /\ (h # m => m \in below[h])
<1>1. h # Nil /\ h \in allocated
  BY DEF From
<1>2. CASE l = h
  BY <1>1, <1>2 DEF From
<1>3. CASE l \in below[h]
  <2>1. l \in allocated /\ below[l] \subseteq below[h]
    BY <1>1, <1>3 DEF ChainInv, BelowClosed
  <2> QED
    BY <1>1, <2>1 DEF From
<1> QED
  BY <1>1, <1>2, <1>3 DEF From

\* The heads of the lists are allocated.
LEMMA HeadsAllocated ==
  ASSUME ChainInv
  PROVE  /\ \A c \in Chains : root[c] # Nil => root[c] \in allocated
         /\ doomed # Nil => doomed \in allocated
  BY DEF ChainInv, TypeOK, EachLinkOnce, From

\* Nothing leads to the first link of a list that is apart from all others.
LEMMA TopIsFree ==
  ASSUME ChainInv, NEW r \in allocated,
         \A c \in Chains : root[c] = r \/ r \notin From(root[c]),
         doomed = r \/ r \notin From(doomed)
  PROVE  \A l \in allocated : r \notin below[l] /\ next[l] # r
<1>1. ASSUME NEW l \in allocated, r \in below[l]
      PROVE  FALSE
  <2>1. l \in Links /\ r \in Links
    BY DEF ChainInv, TypeOK
  <2>2. r \notin below[r]
    BY DEF ChainInv, EachLinkOnce
  <2>3. ASSUME NEW h \in Links \cup {Nil}, h # Nil => h \in allocated,
               l \in From(h), h = r \/ r \notin From(h)
        PROVE  FALSE
    <3>1. r \in From(h)
      BY <1>1, <2>3, FromClosed
    <3>2. h = r
      BY <2>3, <3>1
    <3>3. l = r \/ l \in below[r]
      BY <2>3, <3>2 DEF From
    <3>4. r \in below[r]
      BY <1>1, <3>3 DEF ChainInv, BelowClosed
    <3> QED
      BY <2>2, <3>4
  <2>4. \/ l \in From(doomed)
        \/ \E c \in Chains : l \in From(root[c])
    BY <2>1 DEF ChainInv, EachLinkOnce
  <2>5. /\ doomed \in Links \cup {Nil}
        /\ \A c \in Chains : root[c] \in Links \cup {Nil}
    BY DEF ChainInv, TypeOK
  <2>6. CASE l \in From(doomed)
    BY <2>3, <2>5, <2>6, HeadsAllocated
  <2>7. CASE \E c \in Chains : l \in From(root[c])
    <3>1. PICK c \in Chains : l \in From(root[c])
      BY <2>7
    <3> QED
      BY <2>3, <2>5, <3>1, HeadsAllocated
  <2> QED
    BY <2>4, <2>6, <2>7
<1>2. ASSUME NEW l \in allocated, next[l] = r
      PROVE  FALSE
  <2>1. r \in From(next[l])
    BY <1>2, ChainAssumption DEF ChainInv, TypeOK, From
  <2>2. r \in below[l]
    BY <2>1 DEF ChainInv, EachLinkOnce
  <2> QED
    BY <1>1, <2>2
<1> QED
  BY <1>1, <1>2

\* Nothing leads to the first link of a chain, and it is on no other list.
LEMMA RootIsTop ==
  ASSUME ChainInv, NEW c \in Chains, root[c] # Nil
  PROVE  /\ root[c] \in allocated /\ root[c] \in Links
         /\ \A l \in allocated : root[c] \notin below[l] /\ next[l] # root[c]
         /\ \A d \in Chains : d # c => root[c] \notin From(root[d])
         /\ root[c] \notin From(doomed)
<1>1. root[c] \in Links /\ root[c] \in From(root[c])
  BY DEF ChainInv, TypeOK, From
<1>2. root[c] \in allocated
  BY HeadsAllocated
<1>3. /\ \A d \in Chains : d # c => root[c] \notin From(root[d])
      /\ root[c] \notin From(doomed)
  BY <1>1 DEF ChainInv, EachLinkOnce
<1> QED
  BY <1>1, <1>2, <1>3, TopIsFree

\* The same for the link that a loop frees next.
LEMMA DoomedIsTop ==
  ASSUME ChainInv, doomed # Nil
  PROVE  /\ doomed \in allocated /\ doomed \in Links
         /\ \A l \in allocated : doomed \notin below[l] /\ next[l] # doomed
         /\ \A d \in Chains : doomed \notin From(root[d])
<1>1. doomed \in Links /\ doomed \in From(doomed)
  BY DEF ChainInv, TypeOK, From
<1>2. doomed \in allocated
  BY HeadsAllocated
<1>3. \A d \in Chains : doomed \notin From(root[d])
  BY <1>1 DEF ChainInv, EachLinkOnce
<1> QED
  BY <1>1, <1>2, <1>3, TopIsFree

------------------------------------------------------------------------------
(* Calls that free nothing *)

\* A box lies in an allocated link of a chain that exists.
LEMMA BoxAllocated ==
  ASSUME ChainInv, NEW b \in boxes
  PROVE  /\ b.chain \in Chains /\ b.link \in Links /\ b.at \in Nat /\ b.size \in Nat
         /\ b.chain \in live
         /\ Holder(b.chain) \in Chains
         /\ b.link \in From(root[Holder(b.chain)])
         /\ b.link \in allocated
<1>1. b \in Boxes /\ call \in Calls
  BY DEF ChainInv, TypeOK
<1>2. b.chain \in Chains /\ b.link \in Links /\ b.at \in Nat /\ b.size \in Nat
  BY <1>1 DEF Boxes
<1>3. Holder(b.chain) \in Chains
  BY <1>2 DEF Holder, ChainInv, RootsSound, TypeOK
<1>4. b.link \in From(root[Holder(b.chain)]) /\ b.chain \in live
  BY DEF ChainInv, BoxesSafe, RootsSound
<1> QED
  BY <1>2, <1>3, <1>4 DEF ChainInv, EachLinkOnce

LEMMA NewKeeps ==
  ASSUME ChainInv, NEW c \in Chains, NEW l \in Links, New(c, l)
  PROVE  ChainInv'
<1>1. /\ Idle /\ c \notin live /\ l \notin allocated
      /\ live' = live \cup {c} /\ root' = [root EXCEPT ![c] = l]
      /\ allocated' = allocated \cup {l}
      /\ next' = [next EXCEPT ![l] = Nil] /\ below' = [below EXCEPT ![l] = {}]
      /\ level' = [level EXCEPT ![l] = 0]
      /\ UNCHANGED <<boxes, doomed, call>>
  BY DEF New
<1>2. /\ root \in [Chains -> Links \cup {Nil}] /\ next \in [Links -> Links \cup {Nil}]
      /\ below \in [Links -> SUBSET Links] /\ allocated \subseteq Links
      /\ level \in [Links -> 0 .. Length] /\ l # Nil
  BY ChainAssumption DEF ChainInv, TypeOK
<1>3. TypeOK'
  BY <1>1, <1>2, ArenaAssumption DEF ChainInv, TypeOK
<1>4. root[c] = Nil /\ doomed = Nil
  BY <1>1 DEF ChainInv, RootsSound
<1>5. \A d \in Chains \ {c} : /\ root'[d] = root[d]
                             /\ From(root[d])' = From(root[d])
                             /\ l \notin From(root[d])
  <2> SUFFICES ASSUME NEW d \in Chains \ {c}
               PROVE  /\ root'[d] = root[d]
                      /\ From(root[d])' = From(root[d])
                      /\ l \notin From(root[d])
    OBVIOUS
  <2>1. root'[d] = root[d] /\ root[d] \in Links \cup {Nil}
    BY <1>1, <1>2
  <2>2. l \notin From(root[d])
    BY <1>1 DEF ChainInv, EachLinkOnce
  <2>3. root[d] # Nil => root[d] # l
    BY <2>2 DEF From
  <2> QED
    BY <1>1, <1>2, <2>1, <2>2, <2>3 DEF From
<1>6. From(root[c])' = {l} /\ From(doomed)' = {} /\ From(doomed) = {} /\ From(root[c]) = {}
  BY <1>1, <1>2, <1>4 DEF From
<1>7. \A x \in allocated : /\ x # l /\ next'[x] = next[x] /\ below'[x] = below[x]
                           /\ next[x] # l
                           /\ \A m \in below[x] : m # l /\ below'[m] = below[m]
  <2> SUFFICES ASSUME NEW x \in allocated
               PROVE  /\ x # l /\ next'[x] = next[x] /\ below'[x] = below[x]
                      /\ next[x] # l
                      /\ \A m \in below[x] : m # l /\ below'[m] = below[m]
    OBVIOUS
  <2>1. x \in Links /\ x # l /\ next'[x] = next[x] /\ below'[x] = below[x]
    BY <1>1, <1>2
  <2>2. \A m \in below[x] : m \in allocated
    BY DEF ChainInv, BelowClosed
  <2>3. \A m \in below[x] : m # l /\ below'[m] = below[m]
    BY <1>1, <1>2, <2>2
  <2>4. below[x] = From(next[x])
    BY DEF ChainInv, EachLinkOnce
  <2>5. next[x] # l
    BY <1>2, <2>3, <2>4 DEF From
  <2> QED
    BY <2>1, <2>3, <2>5
<1>8. EachLinkOnce'
  <2>1. \A x \in Links : x \in allocated' <=> \/ x \in From(doomed)'
                                            \/ \E d \in Chains : x \in From(root[d])'
    BY <1>1, <1>5, <1>6 DEF ChainInv, EachLinkOnce
  <2>2. \A d, e \in Chains : d # e => From(root[d])' \cap From(root[e])' = {}
    BY <1>5, <1>6 DEF ChainInv, EachLinkOnce
  <2>3. \A x \in allocated' : below'[x] = From(next[x])' /\ x \notin below'[x]
    <3> SUFFICES ASSUME NEW x \in allocated'
                 PROVE  below'[x] = From(next[x])' /\ x \notin below'[x]
      OBVIOUS
    <3>1. CASE x = l
      BY <1>1, <1>2, <3>1 DEF From
    <3>2. CASE x # l
      <4>1. x \in allocated /\ next[x] \in Links \cup {Nil}
        BY <1>1, <1>2, <3>2
      <4>2. below[x] = From(next[x]) /\ x \notin below[x]
        BY <4>1 DEF ChainInv, EachLinkOnce
      <4>3. From(next[x])' = From(next[x])
        BY <1>1, <1>2, <1>7, <4>1 DEF From
      <4> QED
        BY <1>7, <4>1, <4>2, <4>3
    <3> QED
      BY <3>1, <3>2
  <2> QED
    BY <1>6, <2>1, <2>2, <2>3 DEF EachLinkOnce
<1>9. BoxesSafe'
  <2>1. \A b \in boxes : /\ b.link # l /\ level'[b.link] = level[b.link]
                         /\ Holder(b.chain)' = Holder(b.chain)
                         /\ From(root[Holder(b.chain)])' = From(root[Holder(b.chain)])
    <3> SUFFICES ASSUME NEW b \in boxes
                 PROVE  /\ b.link # l /\ level'[b.link] = level[b.link]
                        /\ Holder(b.chain)' = Holder(b.chain)
                        /\ From(root[Holder(b.chain)])' = From(root[Holder(b.chain)])
      OBVIOUS
    <3>1. b.link # l /\ level'[b.link] = level[b.link]
      BY <1>1, <1>2, BoxAllocated
    <3>2. Holder(b.chain) = b.chain /\ Holder(b.chain)' = b.chain /\ b.chain # c
      BY <1>1, BoxAllocated DEF Holder, Idle, NoCall
    <3> QED
      BY <1>5, <3>1, <3>2, BoxAllocated
  <2> QED
    BY <1>1, <2>1 DEF ChainInv, BoxesSafe
<1>10. RootsSound'
  BY <1>1, <1>2 DEF ChainInv, RootsSound, Idle, Borrowed, NoCall
<1>11. BelowClosed'
  BY <1>1, <1>2, <1>7 DEF ChainInv, BelowClosed
<1> QED
  BY <1>3, <1>8, <1>9, <1>10, <1>11 DEF ChainInv

LEMMA BumpBoxKeeps ==
  ASSUME ChainInv, NEW c \in Chains, NEW layout \in Layouts, BumpBox(c, layout)
  PROVE  ChainInv'
<1> DEFINE r == root[c]
           old == level[r]
           box == BoxAt(c, layout)
<1>1. /\ Idle /\ c \in live /\ Fits(old, layout)
      /\ boxes' = boxes \cup {box}
      /\ level' = [level EXCEPT ![r] = EndOf(old, layout)]
      /\ UNCHANGED <<live, root, next, allocated, below, doomed, call>>
  BY DEF BumpBox, heap
<1>2. r \in Links /\ r \in From(r) /\ level \in [Links -> 0 .. Length]
  BY <1>1, ChainAssumption DEF ChainInv, TypeOK, RootsSound, Idle, NoCall, From
<1>3. old \in 0 .. Length /\ old \in Nat /\ Length \in Nat
  BY <1>2, ArenaAssumption
<1>4. /\ StartOf(old, layout) \in Nat /\ old <= StartOf(old, layout)
      /\ EndOf(old, layout) = StartOf(old, layout) + layout.size
      /\ EndOf(old, layout) \in 0 .. Length
      /\ layout.size \in Nat
  BY <1>1, <1>3, Placement, FitsIsEnd, LayoutFields DEF EndOf
<1>5. /\ box.chain = c /\ box.link = r /\ box.size = layout.size
      /\ box.at = StartOf(old, layout) /\ box \in Boxes
  BY <1>2, <1>4 DEF BoxAt, Boxes
<1> HIDE DEF r, old, box
<1>6. TypeOK'
  BY <1>1, <1>2, <1>4, <1>5 DEF ChainInv, TypeOK
<1>7. EachLinkOnce' /\ BelowClosed'
  BY <1>1 DEF ChainInv, EachLinkOnce, BelowClosed, From
<1>8. RootsSound'
  BY <1>1, <1>5 DEF ChainInv, RootsSound, Idle, Borrowed, NoCall
<1>9. \A b \in boxes : /\ b.at \in Nat /\ b.size \in Nat /\ b.link \in Links
                       /\ b.at + b.size <= level[b.link]
                       /\ level[b.link] <= level'[b.link]
                       /\ b.link = r => b.at + b.size <= box.at
  <2> SUFFICES ASSUME NEW b \in boxes
               PROVE  /\ b.at \in Nat /\ b.size \in Nat /\ b.link \in Links
                      /\ b.at + b.size <= level[b.link]
                      /\ level[b.link] <= level'[b.link]
                      /\ b.link = r => b.at + b.size <= box.at
    OBVIOUS
  <2>1. /\ b.at \in Nat /\ b.size \in Nat /\ b.link \in Links
        /\ b.at + b.size <= level[b.link] /\ level[b.link] \in Nat
    BY <1>2, ArenaAssumption, BoxAllocated DEF ChainInv, BoxesSafe
  <2>2. CASE b.link = r
    BY <1>1, <1>2, <1>3, <1>4, <1>5, <2>1, <2>2 DEF old
  <2>3. CASE b.link # r
    BY <1>1, <1>2, <2>1, <2>3
  <2> QED
    BY <2>1, <2>2, <2>3
<1>10. BoxesSafe'
  <2>1. \A x : Holder(x)' = Holder(x)
    BY <1>1 DEF Holder
  <2>2. \A x \in Links \cup {Nil} : From(x)' = From(x)
    BY <1>1 DEF From
  <2>3. Holder(c) = c
    BY <1>1 DEF Holder, Idle, NoCall
  <2>4. ASSUME NEW b \in boxes'
        PROVE  /\ b.link \in From(root[Holder(b.chain)])'
               /\ b.at + b.size <= level'[b.link]
    <3>1. CASE b \in boxes
      <4>1. b.link \in From(root[Holder(b.chain)])
        BY <3>1 DEF ChainInv, BoxesSafe
      <4>2. From(root[Holder(b.chain)])' = From(root[Holder(b.chain)])
        BY <1>1 DEF From, Holder
      <4>3. level'[b.link] \in Nat /\ level[b.link] \in Nat
        BY <1>1, <1>2, <1>4, <1>9, <3>1, ArenaAssumption
      <4> QED
        BY <1>9, <3>1, <4>1, <4>2, <4>3
    <3>2. CASE b = box
      <4>1. Holder(b.chain)' = c /\ root'[c] = r
        BY <1>1, <1>5, <2>3, <3>2 DEF Holder, r
      <4>2. r \in From(root[c])'
        BY <1>1, <1>2, ChainAssumption DEF From, r
      <4> QED
        BY <1>1, <1>2, <1>4, <1>5, <3>2, <4>1, <4>2 DEF r
    <3> QED
      BY <1>1, <2>4, <3>1, <3>2
  <2>5. ASSUME NEW b \in boxes', NEW o \in boxes' \ {b}, o.link = b.link
        PROVE  b.at + b.size <= o.at \/ o.at + o.size <= b.at
    BY <1>1, <1>5, <1>9, <2>5 DEF ChainInv, BoxesSafe
  <2> QED
    BY <2>4, <2>5 DEF BoxesSafe
<1> QED
  BY <1>6, <1>7, <1>8, <1>10 DEF ChainInv

LEMMA ReturnBoxKeeps ==
  ASSUME ChainInv, NEW b \in boxes, ReturnBox(b)
  PROVE  ChainInv'
  BY DEF ChainInv, ReturnBox, heap, TypeOK, EachLinkOnce, BoxesSafe, RootsSound,
         BelowClosed, From, Holder, Borrowed, Idle

------------------------------------------------------------------------------
(* Calls that free links *)

\* The root of new, with the links of self below it instead of its own, which
\* are on the way out.
LEMMA StartChainKeeps ==
  ASSUME ChainInv, NEW c \in Chains, NEW d \in Chains, StartChain(c, d)
  PROVE  ChainInv'
<1> DEFINE r == root[d]
           own == root[c]
           tail == next[r]
<1>1. /\ Idle /\ c \in live /\ d \in live /\ c # d /\ ~ Borrowed(d)
      /\ call' = [op |-> "chain", chain |-> c, new |-> d]
      /\ root' = [root EXCEPT ![c] = Nil]
      /\ next' = [next EXCEPT ![r] = own]
      /\ below' = [below EXCEPT ![r] = From(own)]
      /\ doomed' = tail
      /\ UNCHANGED <<live, level, allocated, boxes>>
  BY DEF StartChain
<1>2. /\ root \in [Chains -> Links \cup {Nil}] /\ next \in [Links -> Links \cup {Nil}]
      /\ below \in [Links -> SUBSET Links] /\ allocated \subseteq Links
  BY DEF ChainInv, TypeOK
<1>3. r # Nil /\ own # Nil /\ doomed = Nil /\ Nil \notin Links
  BY <1>1, ChainAssumption DEF ChainInv, RootsSound, Idle, NoCall
<1>4. /\ r \in allocated /\ r \in Links
      /\ \A l \in allocated : r \notin below[l] /\ next[l] # r
      /\ \A e \in Chains : e # d => r \notin From(root[e])
  BY <1>3, RootIsTop
<1>5. own \in allocated /\ own \in Links /\ own # r /\ r \notin From(own)
  BY <1>1, <1>3, <1>4, RootIsTop DEF From
<1>6. From(r) = {r} \cup From(tail) /\ r \notin From(tail)
      /\ tail \in Links \cup {Nil} /\ tail # r
  <2>1. below[r] = From(tail) /\ r \notin below[r]
    BY <1>4 DEF ChainInv, EachLinkOnce
  <2>2. tail \in Links \cup {Nil} /\ tail # r
    BY <1>2, <1>4
  <2> QED
    BY <1>3, <2>1, <2>2 DEF From
<1> HIDE DEF r, own, tail
<1>7. root'[d] = r /\ root'[c] = Nil /\ next'[r] = own /\ below'[r] = From(own)
  BY <1>1, <1>2, <1>4 DEF r
<1>8. /\ From(root[d])' = {r} \cup From(own)
      /\ From(root[c])' = {}
      /\ From(doomed)' = From(tail)
  BY <1>1, <1>2, <1>3, <1>6, <1>7 DEF From
<1>9. \A e \in Chains \ {c, d} : root'[e] = root[e] /\ From(root[e])' = From(root[e])
  <2> SUFFICES ASSUME NEW e \in Chains \ {c, d}
               PROVE  root'[e] = root[e] /\ From(root[e])' = From(root[e])
    OBVIOUS
  <2>1. root'[e] = root[e] /\ root[e] \in Links \cup {Nil}
    BY <1>1, <1>2
  <2>2. root[e] # r
    BY <1>3, <1>4 DEF From
  <2> QED
    BY <1>1, <1>2, <2>1, <2>2 DEF From
<1>10. \A l \in allocated \ {r} :
         /\ l \in Links /\ next'[l] = next[l] /\ below'[l] = below[l]
         /\ From(next[l])' = From(next[l])
         /\ \A m \in below[l] : below'[m] = below[m]
  <2> SUFFICES ASSUME NEW l \in allocated \ {r}
               PROVE  /\ l \in Links /\ next'[l] = next[l] /\ below'[l] = below[l]
                      /\ From(next[l])' = From(next[l])
                      /\ \A m \in below[l] : below'[m] = below[m]
    OBVIOUS
  <2>1. l \in Links /\ next'[l] = next[l] /\ below'[l] = below[l] /\ next[l] # r
    BY <1>1, <1>2, <1>4
  <2>2. From(next[l])' = From(next[l])
    BY <1>1, <1>2, <2>1 DEF From
  <2>3. \A m \in below[l] : m # r /\ m \in Links
    BY <1>2, <1>4, <2>1
  <2> QED
    BY <1>1, <1>2, <2>1, <2>2, <2>3
<1>11. TypeOK'
  BY <1>1, <1>2, <1>5, <1>6 DEF ChainInv, TypeOK, Calls, From
<1>12. EachLinkOnce'
  <2>1. From(root[d]) = {r} \cup From(tail) /\ From(root[c]) = From(own)
        /\ From(doomed) = {}
    BY <1>3, <1>6 DEF r, own, From
  <2>2. \A l \in Links : l \in allocated' <=> \/ l \in From(doomed)'
                                            \/ \E e \in Chains : l \in From(root[e])'
    <3> SUFFICES ASSUME NEW l \in Links
                 PROVE  l \in allocated <=> \/ l \in From(doomed)'
                                            \/ \E e \in Chains : l \in From(root[e])'
      BY <1>1
    <3>1. l \in allocated <=> \E e \in Chains : l \in From(root[e])
      BY <2>1 DEF ChainInv, EachLinkOnce
    <3>2. (\E e \in Chains : l \in From(root[e])) <=>
             \/ l \in {r} \cup From(tail) \/ l \in From(own)
             \/ \E e \in Chains \ {c, d} : l \in From(root[e])
      BY <2>1
    <3>3. (\E e \in Chains : l \in From(root[e])') <=>
             \/ l \in {r} \cup From(own)
             \/ \E e \in Chains \ {c, d} : l \in From(root[e])
      BY <1>8, <1>9
    <3> QED
      BY <1>8, <3>1, <3>2, <3>3
  <2>3. \A e, f \in Chains : e # f => From(root[e])' \cap From(root[f])' = {}
    <3>1. \A e \in Chains \ {c, d} :
            From(root[e]) \cap From(own) = {} /\ r \notin From(root[e])
      BY <1>4, <2>1 DEF ChainInv, EachLinkOnce
    <3>2. \A e, f \in Chains : e # f => From(root[e]) \cap From(root[f]) = {}
      BY DEF ChainInv, EachLinkOnce
    <3> QED
      BY <1>8, <1>9, <3>1, <3>2
  <2>4. \A e \in Chains : From(root[e])' \cap From(doomed)' = {}
    <3>1. \A e \in Chains \ {d} : From(root[e]) \cap From(tail) = {}
      BY <2>1 DEF ChainInv, EachLinkOnce
    <3>2. From(own) \cap From(tail) = {}
      BY <1>1, <2>1, <3>1
    <3> QED
      BY <1>6, <1>8, <1>9, <3>1, <3>2
  <2>5. \A l \in allocated' : below'[l] = From(next[l])' /\ l \notin below'[l]
    <3> SUFFICES ASSUME NEW l \in allocated
                 PROVE  below'[l] = From(next[l])' /\ l \notin below'[l]
      BY <1>1
    <3>1. CASE l = r
      <4>1. next'[l] = own /\ below'[own] = below[own] /\ own # Nil
        BY <1>1, <1>2, <1>3, <1>5, <1>7, <3>1
      <4>2. From(next[l])' = From(own)
        BY <4>1 DEF From
      <4> QED
        BY <1>5, <1>7, <3>1, <4>2
    <3>2. CASE l # r
      BY <1>10, <3>2 DEF ChainInv, EachLinkOnce
    <3> QED
      BY <3>1, <3>2
  <2> QED
    BY <2>2, <2>3, <2>4, <2>5 DEF EachLinkOnce
<1>13. BoxesSafe'
  <2>1. \A b \in boxes : b.link \in From(root[Holder(b.chain)])'
    <3> SUFFICES ASSUME NEW b \in boxes
                 PROVE  b.link \in From(root[Holder(b.chain)])'
      OBVIOUS
    <3>1. b.chain \in Chains /\ b.link \in From(root[b.chain]) /\ b.chain # d
      BY <1>1, BoxAllocated DEF Holder, Idle, NoCall, Borrowed
    <3>2. CASE b.chain = c
      <4>1. Holder(b.chain)' = d
        BY <1>1, <3>2 DEF Holder
      <4> QED
        BY <1>8, <3>1, <3>2, <4>1 DEF own
    <3>3. CASE b.chain # c
      <4>1. Holder(b.chain)' = b.chain
        BY <1>1, <3>3 DEF Holder
      <4> QED
        BY <1>9, <3>1, <3>3, <4>1
    <3> QED
      BY <3>2, <3>3
  <2> QED
    BY <1>1, <2>1 DEF ChainInv, BoxesSafe
<1>14. RootsSound'
  BY <1>1, <1>2 DEF ChainInv, RootsSound, Idle, Borrowed, NoCall
<1>15. BelowClosed'
  <2> SUFFICES ASSUME NEW l \in allocated, NEW m \in below'[l]
               PROVE  m \in allocated /\ below'[m] \subseteq below'[l]
    BY <1>1 DEF BelowClosed
  <2>1. CASE l = r
    <3>1. m \in From(own)
      BY <1>7, <2>1
    <3>2. m \in allocated /\ m # r
      BY <1>3, <1>5, <3>1 DEF ChainInv, BelowClosed, From
    <3>3. \A k \in below[m] : k \in From(own)
      BY <1>5, <3>1, FromClosed
    <3> QED
      BY <1>7, <1>10, <2>1, <3>2, <3>3
  <2>2. CASE l # r
    BY <1>10, <2>2 DEF ChainInv, BelowClosed
  <2> QED
    BY <2>1, <2>2
<1> QED
  BY <1>11, <1>12, <1>13, <1>14, <1>15 DEF ChainInv

LEMMA StartDropKeeps ==
  ASSUME ChainInv, NEW c \in Chains, StartDrop(c)
  PROVE  ChainInv'
<1>1. /\ Idle /\ c \in live /\ ~ Borrowed(c)
      /\ call' = [op |-> "drop"] /\ live' = live \ {c}
      /\ doomed' = root[c] /\ root' = [root EXCEPT ![c] = Nil]
      /\ UNCHANGED <<next, below, allocated, level, boxes>>
  BY DEF StartDrop, heap
<1>2. root \in [Chains -> Links \cup {Nil}] /\ doomed = Nil
  BY <1>1 DEF ChainInv, TypeOK, RootsSound
<1>3. \A x : From(x)' = IF x' = Nil THEN {} ELSE {x'} \cup below[x']
  BY <1>1 DEF From
<1>4. /\ From(doomed)' = From(root[c]) /\ From(root[c])' = {}
      /\ \A e \in Chains \ {c} : root'[e] = root[e] /\ From(root[e])' = From(root[e])
  BY <1>1, <1>2 DEF From
<1>5. TypeOK'
  BY <1>1, <1>2 DEF ChainInv, TypeOK, Calls
<1>6. EachLinkOnce' /\ BelowClosed'
  <2>1. From(doomed) = {}
    BY <1>2 DEF From
  <2>2. \A l \in Links : l \in allocated' <=> \/ l \in From(doomed)'
                                            \/ \E e \in Chains : l \in From(root[e])'
    BY <1>1, <1>4, <2>1 DEF ChainInv, EachLinkOnce
  <2>3. \A e, f \in Chains : e # f => From(root[e])' \cap From(root[f])' = {}
    BY <1>4 DEF ChainInv, EachLinkOnce
  <2>4. \A e \in Chains : From(root[e])' \cap From(doomed)' = {}
    BY <1>4 DEF ChainInv, EachLinkOnce
  <2>5. \A l \in allocated' : below'[l] = From(next[l])' /\ l \notin below'[l]
    BY <1>1 DEF ChainInv, EachLinkOnce, From
  <2> QED
    BY <1>1, <2>2, <2>3, <2>4, <2>5 DEF ChainInv, EachLinkOnce, BelowClosed
<1>7. BoxesSafe'
  <2>1. \A b \in boxes : b.link \in From(root[Holder(b.chain)])'
    <3> SUFFICES ASSUME NEW b \in boxes
                 PROVE  b.link \in From(root[Holder(b.chain)])'
      OBVIOUS
    <3>1. b.chain \in Chains /\ b.link \in From(root[b.chain]) /\ b.chain # c
      BY <1>1, BoxAllocated DEF Holder, Idle, NoCall, Borrowed
    <3>2. Holder(b.chain)' = b.chain
      BY <1>1 DEF Holder
    <3> QED
      BY <1>4, <3>1, <3>2
  <2> QED
    BY <1>1, <2>1 DEF ChainInv, BoxesSafe
<1>8. RootsSound'
  BY <1>1, <1>2 DEF ChainInv, RootsSound, Idle, Borrowed, NoCall
<1> QED
  BY <1>5, <1>6, <1>7, <1>8 DEF ChainInv

\* The link that is freed is on no list of a chain, so no box lies in it.
LEMMA FreeKeeps ==
  ASSUME ChainInv, Free
  PROVE  ChainInv'
<1>1. PICK x \in Links : x = doomed
  BY DEF ChainInv, TypeOK, Free
<1>2. /\ ~ Idle /\ doomed # Nil /\ x # Nil
      /\ doomed' = next[x]
      /\ next' = [next EXCEPT ![x] = Nil] /\ below' = [below EXCEPT ![x] = {}]
      /\ allocated' = allocated \ {x}
      /\ UNCHANGED <<live, root, level, boxes, call>>
  BY <1>1 DEF Free
<1>3. /\ root \in [Chains -> Links \cup {Nil}] /\ next \in [Links -> Links \cup {Nil}]
      /\ below \in [Links -> SUBSET Links] /\ allocated \subseteq Links
  BY DEF ChainInv, TypeOK
<1>4. /\ x \in allocated
      /\ \A l \in allocated : x \notin below[l] /\ next[l] # x
      /\ \A e \in Chains : x \notin From(root[e])
  BY <1>1, <1>2, DoomedIsTop
<1>5. From(doomed) = {x} \cup below[x] /\ below[x] = From(next[x]) /\ x \notin below[x]
  BY <1>1, <1>2, <1>4 DEF ChainInv, EachLinkOnce, From
<1>6. From(doomed)' = below[x]
  <2>1. next[x] # x /\ next[x] \in Links \cup {Nil}
    BY <1>3, <1>4
  <2>2. next[x] # Nil => below'[next[x]] = below[next[x]]
    BY <1>2, <1>3, <2>1
  <2> QED
    BY <1>2, <1>5, <2>2 DEF From
<1>7. \A e \in Chains : root'[e] = root[e] /\ From(root[e])' = From(root[e])
  <2> SUFFICES ASSUME NEW e \in Chains
               PROVE  root'[e] = root[e] /\ From(root[e])' = From(root[e])
    OBVIOUS
  <2>1. root[e] # x
    BY <1>2, <1>4 DEF From
  <2> QED
    BY <1>2, <1>3, <2>1 DEF From
<1>8. \A l \in allocated' :
         /\ l \in allocated /\ next'[l] = next[l] /\ below'[l] = below[l]
         /\ From(next[l])' = From(next[l])
         /\ \A m \in below[l] : m # x /\ below'[m] = below[m]
  <2> SUFFICES ASSUME NEW l \in allocated'
               PROVE  /\ l \in allocated /\ next'[l] = next[l] /\ below'[l] = below[l]
                      /\ From(next[l])' = From(next[l])
                      /\ \A m \in below[l] : m # x /\ below'[m] = below[m]
    OBVIOUS
  <2>1. /\ l \in allocated /\ l \in Links /\ next'[l] = next[l] /\ below'[l] = below[l]
        /\ next[l] # x
    BY <1>2, <1>3, <1>4
  <2>2. From(next[l])' = From(next[l])
    BY <1>2, <1>3, <2>1 DEF From
  <2>3. \A m \in below[l] : m # x /\ m \in Links
    BY <1>3, <1>4, <2>1
  <2> QED
    BY <1>2, <1>3, <2>1, <2>2, <2>3
<1>9. TypeOK'
  BY <1>2, <1>3 DEF ChainInv, TypeOK
<1>10. EachLinkOnce'
  <2>1. \A l \in Links : l \in allocated' <=> \/ l \in From(doomed)'
                                            \/ \E e \in Chains : l \in From(root[e])'
    BY <1>2, <1>4, <1>5, <1>6, <1>7 DEF ChainInv, EachLinkOnce
  <2>2. /\ \A e, f \in Chains : e # f => From(root[e])' \cap From(root[f])' = {}
        /\ \A e \in Chains : From(root[e])' \cap From(doomed)' = {}
    BY <1>5, <1>6, <1>7 DEF ChainInv, EachLinkOnce
  <2>3. \A l \in allocated' : below'[l] = From(next[l])' /\ l \notin below'[l]
    BY <1>8 DEF ChainInv, EachLinkOnce
  <2> QED
    BY <2>1, <2>2, <2>3 DEF EachLinkOnce
<1>11. BoxesSafe'
  <2>1. \A b \in boxes : b.link \in From(root[Holder(b.chain)])'
    <3> SUFFICES ASSUME NEW b \in boxes
                 PROVE  b.link \in From(root[Holder(b.chain)])'
      OBVIOUS
    <3>1. Holder(b.chain)' = Holder(b.chain)
      BY <1>2 DEF Holder
    <3> QED
      BY <1>7, <3>1, BoxAllocated
  <2> QED
    BY <1>2, <2>1 DEF ChainInv, BoxesSafe
<1>12. RootsSound'
  BY <1>2 DEF ChainInv, RootsSound, Idle, Borrowed
<1>13. BelowClosed'
  BY <1>2, <1>8 DEF ChainInv, BelowClosed
<1> QED
  BY <1>9, <1>10, <1>11, <1>12, <1>13 DEF ChainInv

LEMMA FinishKeeps ==
  ASSUME ChainInv, Finish
  PROVE  ChainInv'
<1>1. /\ ~ Idle /\ doomed = Nil /\ call' = NoCall
      /\ UNCHANGED <<next, below, allocated, level, boxes, doomed>>
  BY DEF Finish, heap
<1>2. root \in [Chains -> Links \cup {Nil}] /\ call \in Calls
  BY DEF ChainInv, TypeOK
<1>3. \A b \in boxes : Holder(b.chain)' = b.chain
  BY <1>1 DEF Holder, NoCall
<1>4. CASE call.op # "chain"
  <2>1. UNCHANGED <<root, live>>
    BY <1>4 DEF Finish
  <2>2. TypeOK'
    BY <1>1, <2>1 DEF ChainInv, TypeOK, Calls, NoCall
  <2>3. EachLinkOnce' /\ BelowClosed'
    BY <1>1, <2>1 DEF ChainInv, EachLinkOnce, BelowClosed, From
  <2>4. BoxesSafe'
    BY <1>1, <1>4, <2>1 DEF ChainInv, BoxesSafe, From, Holder, NoCall
  <2>5. RootsSound'
    BY <1>1, <1>4, <2>1 DEF ChainInv, RootsSound, Idle, Borrowed, NoCall
  <2> QED
    BY <2>2, <2>3, <2>4, <2>5 DEF ChainInv
<1>5. CASE call.op = "chain"
  <2>1. PICK c \in Chains, d \in Chains : call.chain = c /\ call.new = d
    BY <1>5 DEF ChainInv, RootsSound, TypeOK
  <2>2. /\ root' = [root EXCEPT ![c] = root[d], ![d] = Nil]
        /\ live' = live \ {d}
    BY <1>5, <2>1 DEF Finish
  <2>3. /\ c # d /\ c \in live /\ d \in live /\ root[c] = Nil /\ root[d] # Nil
        /\ ~ Borrowed(d)
    BY <1>5, <2>1 DEF ChainInv, RootsSound
  <2>4. /\ root'[c] = root[d] /\ root'[d] = Nil
        /\ \A e \in Chains \ {c, d} : root'[e] = root[e]
    BY <1>2, <2>2, <2>3
  <2>5. /\ From(root[c])' = From(root[d]) /\ From(root[d])' = {} /\ From(root[c]) = {}
        /\ \A e \in Chains \ {c, d} : From(root[e])' = From(root[e])
        /\ From(doomed)' = {} /\ From(doomed) = {}
    BY <1>1, <2>3, <2>4 DEF From
  <2>6. TypeOK'
    BY <1>1, <1>2, <2>2 DEF ChainInv, TypeOK, Calls, NoCall
  <2>7. EachLinkOnce' /\ BelowClosed'
    <3>1. \A l \in Links : l \in allocated' <=> \/ l \in From(doomed)'
                                              \/ \E e \in Chains : l \in From(root[e])'
      <4> SUFFICES ASSUME NEW l \in Links
                   PROVE  l \in allocated <=> \E e \in Chains : l \in From(root[e])'
        BY <1>1, <2>5
      <4>1. l \in allocated <=> \E e \in Chains : l \in From(root[e])
        BY <2>5 DEF ChainInv, EachLinkOnce
      <4>2. (\E e \in Chains : l \in From(root[e])) <=>
              \/ l \in From(root[d])
              \/ \E e \in Chains \ {c, d} : l \in From(root[e])
        BY <2>5
      <4>3. (\E e \in Chains : l \in From(root[e])') <=>
              \/ l \in From(root[d])
              \/ \E e \in Chains \ {c, d} : l \in From(root[e])
        BY <2>5
      <4> QED
        BY <4>1, <4>2, <4>3
    <3>2. \A e, f \in Chains : e # f => From(root[e])' \cap From(root[f])' = {}
      BY <2>5 DEF ChainInv, EachLinkOnce
    <3>3. \A l \in allocated' : below'[l] = From(next[l])' /\ l \notin below'[l]
      BY <1>1 DEF ChainInv, EachLinkOnce, From
    <3> QED
      BY <1>1, <2>5, <3>1, <3>2, <3>3 DEF ChainInv, EachLinkOnce, BelowClosed
  <2>8. BoxesSafe'
    <3>1. \A b \in boxes : b.link \in From(root[Holder(b.chain)])'
      <4> SUFFICES ASSUME NEW b \in boxes
                   PROVE  b.link \in From(root[Holder(b.chain)])'
        OBVIOUS
      <4>1. b.chain \in Chains /\ b.chain # d
        BY <2>3, BoxAllocated DEF Borrowed
      <4>2. CASE b.chain = c
        BY <1>3, <1>5, <2>1, <2>5, <4>2, BoxAllocated DEF Holder
      <4>3. CASE b.chain # c
        BY <1>3, <1>5, <2>1, <2>5, <4>1, <4>3, BoxAllocated DEF Holder
      <4> QED
        BY <4>2, <4>3
    <3> QED
      BY <1>1, <3>1 DEF ChainInv, BoxesSafe
  <2>9. RootsSound'
    BY <1>1, <1>5, <2>1, <2>2, <2>3, <2>4 DEF ChainInv, RootsSound, Idle, Borrowed, NoCall
  <2> QED
    BY <2>6, <2>7, <2>8, <2>9 DEF ChainInv
<1> QED
  BY <1>4, <1>5

LEMMA ChainNext == ChainInv /\ [Next]_vars => ChainInv'
<1> SUFFICES ASSUME ChainInv, [Next]_vars
             PROVE  ChainInv'
  OBVIOUS
<1>1. CASE UNCHANGED vars
  BY <1>1 DEF vars, heap, ChainInv, TypeOK, EachLinkOnce, BoxesSafe, RootsSound,
              BelowClosed, From, Holder, Borrowed, Idle
<1>2. CASE Next
  BY <1>2, NewKeeps, BumpBoxKeeps, ReturnBoxKeeps, StartChainKeeps, StartDropKeeps,
     FreeKeeps, FinishKeeps DEF Next, LoopStep
<1> QED
  BY <1>1, <1>2

------------------------------------------------------------------------------
(* The theorems *)

\* Every reachable state of the chains satisfies the inductive invariant.
THEOREM ChainHolds == Spec => []ChainInv
<1>1. Init => ChainInv
  BY ChainInit
<1>2. ChainInv /\ [Next]_vars => ChainInv'
  BY ChainNext
<1> QED
  BY <1>1, <1>2, PTL DEF Spec

\* No link is leaked, freed twice or met twice by a loop.
THEOREM ChainEachLinkOnce == Spec => []EachLinkOnce
<1>1. ChainInv => EachLinkOnce
  BY DEF ChainInv
<1> QED
  BY <1>1, ChainHolds, PTL

\* Borrowed memory is not freed, whatever was chained and dropped meanwhile.
THEOREM ChainBoxesSafe == Spec => []BoxesSafe
<1>1. ChainInv => BoxesSafe
  BY DEF ChainInv
<1> QED
  BY <1>1, ChainHolds, PTL

\* The bound on the loops of chain and drop: every step ends the call, or frees
\* the first of the links that are left, which is then none of them any more.
LoopsAdvance ==
  [][~ Idle =>
       \/ Idle'
       \/ /\ doomed \in allocated /\ doomed \notin allocated'
          /\ From(doomed)' = From(doomed) \ {doomed}]_vars

\* No loop meets a link again or goes over to another list: it takes at most as
\* many steps as there were links below the pointer it started from, and one.
\* LoopsEnd is this and a scheduler.
THEOREM ChainLoopsAdvance == Spec => LoopsAdvance
<1>1. ASSUME ChainInv, Free
      PROVE  /\ doomed \in allocated /\ doomed \notin allocated'
             /\ From(doomed)' = From(doomed) \ {doomed}
  <2>1. PICK x \in Links : x = doomed
    BY <1>1 DEF ChainInv, TypeOK, Free
  <2>2. /\ x # Nil /\ doomed' = next[x] /\ below' = [below EXCEPT ![x] = {}]
        /\ allocated' = allocated \ {x}
    BY <1>1, <2>1 DEF Free
  <2>3. /\ x \in allocated /\ next[x] # x
        /\ next[x] \in Links \cup {Nil} /\ below \in [Links -> SUBSET Links]
    BY <1>1, <2>1, <2>2, DoomedIsTop DEF ChainInv, TypeOK
  <2>4. From(doomed) = {x} \cup below[x] /\ below[x] = From(next[x]) /\ x \notin below[x]
    BY <1>1, <2>1, <2>2, <2>3 DEF ChainInv, EachLinkOnce, From
  <2>5. next[x] # Nil => below'[next[x]] = below[next[x]]
    BY <2>2, <2>3
  <2>6. From(doomed)' = below[x]
    BY <2>2, <2>4, <2>5 DEF From
  <2> QED
    BY <2>1, <2>2, <2>3, <2>4, <2>6
<1>2. ASSUME ChainInv, Next, ~ Idle
      PROVE  \/ Idle'
             \/ /\ doomed \in allocated /\ doomed \notin allocated'
                /\ From(doomed)' = From(doomed) \ {doomed}
  <2>1. CASE Free
    BY <1>1, <1>2, <2>1
  <2>2. CASE Finish
    BY <2>2 DEF Finish, Idle
  <2>3. CASE \E b \in boxes : ReturnBox(b)
    BY <1>2, <2>3 DEF ReturnBox
  <2> QED
    BY <1>2, <2>1, <2>2, <2>3 DEF Next, LoopStep, New, BumpBox, StartChain, StartDrop
<1>3. ChainInv /\ [Next]_vars =>
        [~ Idle => \/ Idle'
                   \/ /\ doomed \in allocated /\ doomed \notin allocated'
                      /\ From(doomed)' = From(doomed) \ {doomed}]_vars
  BY <1>2
<1> QED
  BY <1>3, ChainHolds, PTL DEF Spec, LoopsAdvance

\* Type correctness: every pointer of a chain is to a link, and no link is filled
\* beyond its length.
THEOREM ChainTypeCorrect == Spec => []TypeOK
<1>1. ChainInv => TypeOK
  BY DEF ChainInv
<1> QED
  BY <1>1, ChainHolds, PTL
=============================================================================
