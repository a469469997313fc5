--------------------------- MODULE JobListsProofs ---------------------------
(***************************************************************************)
(* Theorems about JobLists, for any finite set of cells: the pointers of   *)
(* the two lists and of the worker thread always hold lists (IInv), so     *)
(* that nothing is lost, shared or freed twice, and together they are the  *)
(* queue of JobQueue.                                                      *)
(***************************************************************************)
EXTENDS JobListsLemmas, SequenceTheorems

\* No task twice
Distinct(t) == \A i, j \in 1..Len(t) : t[i] = t[j] => i = j

\* Where the worker thread holds a list by iter, and where by first_wish
Taking == {"reverse", "clear_wishes", "unschedule"}
Giving == {"reverse", "schedule", "splice"}

\* The lists: w the wishes, s the jobs, a what the worker thread has before it (from
\* iter), b what it has behind it (from first_wish).
AList(p, x, n) == Listed(next, prev, NULL, p, x, n)
ListAhead(a, na) ==
  Listed(next, prev, IF pc = "reverse" THEN first_wish ELSE prev[iter],
         IF pc \in Taking THEN iter ELSE NULL, a, na)
ListBehind(b, nb) ==
  Listed(next, prev, IF pc = "reverse" THEN iter ELSE NULL,
         IF pc \in Giving THEN first_wish ELSE NULL, b, nb)

\* last_wish is the last cell in hand.
LastWish(a, b, nb) ==
  /\ pc \in {"schedule", "splice"} => nb > 0
  /\ pc \in Giving => last_wish = IF nb = 0 THEN a[1] ELSE b[nb]

\* No cell is in two of the lists or being run, and all that are in use are in one.
Apart(W1, S1, A1, B1) ==
  /\ W1 \cap S1 = {} /\ W1 \cap A1 = {} /\ W1 \cap B1 = {}
  /\ S1 \cap A1 = {} /\ S1 \cap B1 = {} /\ A1 \cap B1 = {}
  /\ running \notin W1 \cup S1 \cup A1 \cup B1
  /\ used = W1 \cup S1 \cup A1 \cup B1 \cup ({running} \ {NULL})

\* What the scheduler knows: the jobs, and in the middle of load_request_handler()
\* those of the wishes it has been handed; when the jobs are cleared, what is left.
Scheduled(S1, A1, b, nb) ==
  CASE pc = "unschedule" -> S1 = {} /\ ToSet(tasks) = A1
    [] pc = "schedule" ->
         \E k \in 1..nb : /\ iter = b[k]
                         /\ ToSet(tasks) = S1 \cup {b[i] : i \in 1..(k - 1)}
    [] pc = "splice" -> ToSet(tasks) = S1 \cup Members(b, nb)
    [] OTHER -> ToSet(tasks) = S1

Shape(w, nw, s, ns, a, na, b, nb) ==
  /\ AList(wishlist, w, nw) /\ AList(schedules, s, ns)
  /\ ListAhead(a, na) /\ ListBehind(b, nb)
  /\ pc \in Taking => na > 0
  /\ LastWish(a, b, nb)
  /\ Apart(Members(w, nw), Members(s, ns), Members(a, na), Members(b, nb))
  /\ Scheduled(Members(s, ns), Members(a, na), b, nb)

\* The control of the worker thread, with the types
Control ==
  /\ used \subseteq Cells
  /\ next \in [Cells -> Pointers] /\ prev \in [Cells -> Pointers]
  /\ wishlist \in Pointers /\ schedules \in Pointers /\ iter \in Pointers
  /\ first_wish \in Pointers /\ last_wish \in Pointers /\ running \in Pointers
  /\ tasks \in Seq(Cells) /\ Distinct(tasks)
  /\ held \in BOOLEAN /\ alive \in BOOLEAN
  /\ left \subseteq {"wishlist", "schedules"}
  /\ pc \in {"loop", "frame", "reverse", "schedule", "splice", "clear",
             "clear_wishes", "unschedule"}
  /\ held <=> pc = "clear_wishes"
  /\ pc = "loop" => running = NULL
  /\ fault = "none"

\* The lists, read off the pointers
Wishes == Chain(wishlist)
Jobs == Chain(schedules)
Ahead == Chain(IF pc \in Taking THEN iter ELSE NULL)
Behind == Chain(IF pc \in Giving THEN first_wish ELSE NULL)

\* The inductive invariant.  Its proof handles the lists as functions of given
\* length: that they are what Chain() gives is used only at its ends (Names, Found).
IInv ==
  /\ Control
  /\ Shape(Wishes, Len(Wishes), Jobs, Len(Jobs), Ahead, Len(Ahead), Behind, Len(Behind))

(***************************************************************************)
(* Tasks                                                                   *)
(***************************************************************************)
\* A job handed to the scheduler is one more task.
LEMMA TaskAdded ==
  ASSUME NEW t \in Seq(Cells), Distinct(t), NEW c \in Cells, c \notin ToSet(t)
  PROVE  /\ Append(t, c) \in Seq(Cells) /\ Distinct(Append(t, c))
         /\ ToSet(Append(t, c)) = ToSet(t) \cup {c}
<1> DEFINE u == Append(t, c)
           n == Len(t)
<1>1. /\ u \in Seq(Cells) /\ n \in Nat /\ Len(u) = n + 1
      /\ \A i \in 1..n : u[i] = t[i]
      /\ u[n + 1] = c
  OBVIOUS
<1>2. ToSet(t) = Members(t, n) /\ ToSet(u) = Members(u, n + 1)
  BY <1>1 DEF ToSet, Members
<1>3. \A i \in 1..n : t[i] # c
  BY <1>2 DEF Members
<1>4. \A i, j \in 1..n : t[i] = t[j] => i = j
  BY DEF Distinct
<1> HIDE DEF u, n
<1>5. \A i, j \in 1..(n + 1) : u[i] = u[j] => i = j
  BY <1>1, <1>3, <1>4
<1>6. Members(u, n + 1) = Members(t, n) \cup {c}
  BY <1>1 DEF Members
<1> QED BY <1>1, <1>2, <1>5, <1>6 DEF Distinct, u

\* A task that runs or is cancelled leaves the others, in their order.
LEMMA TaskRemoved ==
  ASSUME NEW t \in Seq(Cells), Distinct(t), NEW i \in 1..Len(t)
  PROVE  /\ RemoveAt(t, i) \in Seq(Cells) /\ Distinct(RemoveAt(t, i))
         /\ ToSet(RemoveAt(t, i)) = ToSet(t) \ {t[i]}
         /\ t[i] \in ToSet(t)
<1> DEFINE u == RemoveAt(t, i)
           n == Len(t)
<1>1. n \in Nat /\ t \in [1..n -> Cells]
  OBVIOUS
<1>2. /\ u \in Seq(Cells) /\ Len(u) = n - 1
      /\ \A j \in 1..(n - 1) : u[j] = IF j < i THEN t[j] ELSE t[j + 1]
  <2>1. /\ SubSeq(t, 1, i - 1) \in Seq(Cells) /\ Len(SubSeq(t, 1, i - 1)) = i - 1
        /\ \A j \in 1..(i - 1) : SubSeq(t, 1, i - 1)[j] = t[j]
    BY <1>1
  <2>2. /\ SubSeq(t, i + 1, n) \in Seq(Cells) /\ Len(SubSeq(t, i + 1, n)) = n - i
        /\ \A j \in 1..(n - i) : SubSeq(t, i + 1, n)[j] = t[j + i]
    <3>1. i \in 1..n /\ \A j \in (i + 1)..n : t[j] \in Cells
      BY <1>1
    <3>2. /\ SubSeq(t, i + 1, n) \in Seq(Cells)
          /\ Len(SubSeq(t, i + 1, n)) = IF i + 1 <= n THEN n - (i + 1) + 1 ELSE 0
          /\ \A j \in 1..(n - (i + 1) + 1) : SubSeq(t, i + 1, n)[j] = t[i + 1 + j - 1]
      BY <1>1, <3>1, SubSeqProperties
    <3>3. /\ (IF i + 1 <= n THEN n - (i + 1) + 1 ELSE 0) = n - i
          /\ n - (i + 1) + 1 = n - i
          /\ \A j \in 1..(n - i) : i + 1 + j - 1 = j + i
      BY <1>1, <3>1
    <3> QED BY <3>2, <3>3
  <2>3. u = SubSeq(t, 1, i - 1) \o SubSeq(t, i + 1, n)
    BY DEF RemoveAt
  <2> DEFINE x == SubSeq(t, 1, i - 1)
             y == SubSeq(t, i + 1, n)
  <2> HIDE DEF x, y, u, n
  <2> QED BY <1>1, <2>1, <2>2, <2>3, ConcatProperties DEF x, y
<1>3. \A j, k \in 1..n : t[j] = t[k] => j = k
  BY DEF Distinct
<1>4. ToSet(t) = Members(t, n) /\ ToSet(u) = Members(u, n - 1)
  BY <1>1, <1>2 DEF ToSet, Members
<1>5. i \in 1..n
  OBVIOUS
<1> HIDE DEF u, n
<1>6. \A j, k \in 1..(n - 1) : u[j] = u[k] => j = k
  BY <1>1, <1>2, <1>3
<1>7. Members(u, n - 1) = Members(t, n) \ {t[i]}
  <2>1. ASSUME NEW j \in 1..(n - 1) PROVE u[j] \in Members(t, n) /\ u[j] # t[i]
    <3>1. CASE j < i
      <4>1. u[j] = t[j] /\ j \in 1..n
        BY <1>1, <1>2, <3>1
      <4> QED BY <1>3, <1>5, <3>1, <4>1 DEF Members
    <3>2. CASE j >= i
      <4>1. u[j] = t[j + 1] /\ j + 1 \in 1..n
        BY <1>1, <1>2, <3>2
      <4> QED BY <1>3, <1>5, <3>2, <4>1 DEF Members
    <3> QED BY <1>1, <1>5, <3>1, <3>2
  <2>2. ASSUME NEW j \in 1..n, t[j] # t[i] PROVE t[j] \in Members(u, n - 1)
    <3>1. CASE j < i
      <4>1. u[j] = t[j] /\ j \in 1..(n - 1)
        BY <1>1, <1>2, <1>5, <3>1
      <4> QED BY <4>1 DEF Members
    <3>2. CASE j > i
      <4>1. u[j - 1] = t[j] /\ j - 1 \in 1..(n - 1)
        BY <1>1, <1>2, <1>5, <3>2
      <4> QED BY <4>1 DEF Members
    <3> QED BY <1>1, <1>5, <2>2, <3>1, <3>2
  <2> QED BY <2>1, <2>2 DEF Members
<1>8. t[i] \in ToSet(t)
  BY <1>4, <1>5 DEF Members
<1> QED BY <1>2, <1>4, <1>6, <1>7, <1>8 DEF Distinct, u

(***************************************************************************)
(* The steps.  Each lemma names the lists after its step.                  *)
(***************************************************************************)
\* What the worker thread holds: its pointers name the first cells of the lists.
LEMMA Hands ==
  ASSUME NEW w, NEW nw, NEW s, NEW ns, NEW a, NEW na, NEW b, NEW nb,
         Shape(w, nw, s, ns, a, na, b, nb)
  PROVE  /\ nw \in Nat /\ ns \in Nat /\ na \in Nat /\ nb \in Nat
         /\ Members(w, nw) \subseteq Cells /\ Members(s, ns) \subseteq Cells
         /\ Members(a, na) \subseteq Cells /\ Members(b, nb) \subseteq Cells
         /\ nw = 0 <=> wishlist = NULL
         /\ nw > 0 => wishlist = w[1] /\ wishlist \in Members(w, nw)
         /\ ns = 0 <=> schedules = NULL
         /\ ns > 0 => schedules = s[1] /\ schedules \in Members(s, ns)
         /\ na = 0 => Members(a, na) = {}
         /\ nb = 0 => Members(b, nb) = {}
         /\ nw = 0 => Members(w, nw) = {}
         /\ ns = 0 => Members(s, ns) = {}
         /\ pc \notin Taking => na = 0
         /\ pc \notin Giving => nb = 0
         /\ pc \in Taking => na > 0 /\ iter = a[1] /\ iter \in Members(a, na)
         /\ pc \in Taking => (next[iter] = NULL <=> na = 1)
         /\ pc \in Giving => (nb = 0 <=> first_wish = NULL)
<1>1. /\ AList(wishlist, w, nw) /\ AList(schedules, s, ns)
      /\ ListAhead(a, na) /\ ListBehind(b, nb)
      /\ pc \in Taking => na > 0
  BY DEF Shape
<1>2. nw \in Nat /\ ns \in Nat /\ na \in Nat /\ nb \in Nat
  BY <1>1 DEF AList, ListAhead, ListBehind, Listed, Path
<1>3. /\ wishlist = NULL <=> nw = 0
      /\ nw = 0 <=> Members(w, nw) = {}
      /\ Members(w, nw) \subseteq Cells
      /\ nw > 0 => wishlist = w[1] /\ wishlist \in Members(w, nw)
  BY <1>1, EmptyList DEF AList
<1>4. /\ schedules = NULL <=> ns = 0
      /\ ns = 0 <=> Members(s, ns) = {}
      /\ Members(s, ns) \subseteq Cells
      /\ ns > 0 => schedules = s[1] /\ schedules \in Members(s, ns)
  BY <1>1, EmptyList DEF AList
<1> DEFINE p == IF pc \in Taking THEN iter ELSE NULL
           q == IF pc \in Giving THEN first_wish ELSE NULL
<1>5. /\ p = NULL <=> na = 0
      /\ na = 0 <=> Members(a, na) = {}
      /\ Members(a, na) \subseteq Cells
      /\ na > 0 => p = a[1] /\ p \in Members(a, na)
      /\ na > 0 => (next[p] = NULL <=> na = 1)
  BY <1>1, EmptyList DEF ListAhead
<1>6. /\ q = NULL <=> nb = 0
      /\ nb = 0 <=> Members(b, nb) = {}
      /\ Members(b, nb) \subseteq Cells
  BY <1>1, EmptyList DEF ListBehind
<1> QED BY <1>1, <1>2, <1>3, <1>4, <1>5, <1>6

\* A step that leaves the cells and the thread's place alone
LEMMA HandsKept ==
  ASSUME NEW a, NEW na, NEW b, NEW nb, ListAhead(a, na), ListBehind(b, nb),
         \A c \in Members(a, na) \cup Members(b, nb) :
           next'[c] = next[c] /\ prev'[c] = prev[c],
         pc \in Taking => iter \in Members(a, na),
         pc' = pc, iter' = iter, first_wish' = first_wish
  PROVE  ListAhead(a, na)' /\ ListBehind(b, nb)'
<1> DEFINE before == IF pc = "reverse" THEN first_wish ELSE prev[iter]
           before1 == IF pc' = "reverse" THEN first_wish' ELSE prev'[iter']
           p == IF pc \in Taking THEN iter ELSE NULL
<1>1. na > 0 => before1 = before
  <2>1. pc \notin Taking => na = 0
    BY EmptyList DEF ListAhead
  <2> QED BY <2>1
<1>2. Listed(next, prev, before, p, a, na)
  BY DEF ListAhead
<1> HIDE DEF before, before1, p
<1>3. Listed(next', prev', before1, p, a, na)
  BY <1>1, <1>2, Undisturbed
<1>4. ListAhead(a, na)'
  BY <1>3 DEF ListAhead, before1, p, Taking
<1> DEFINE bb == IF pc = "reverse" THEN iter ELSE NULL
           q == IF pc \in Giving THEN first_wish ELSE NULL
<1>5. Listed(next, prev, bb, q, b, nb)
  BY DEF ListBehind
<1> HIDE DEF bb, q
<1>6. Listed(next', prev', bb, q, b, nb)
  BY <1>5, Undisturbed
<1>7. ListBehind(b, nb)'
  BY <1>6 DEF ListBehind, bb, q, Giving
<1> QED BY <1>4, <1>7

\* So with the wishlist ...
LEMMA WishlistKept ==
  ASSUME NEW w, NEW nw, AList(wishlist, w, nw), wishlist' = wishlist,
         \A c \in Members(w, nw) : next'[c] = next[c] /\ prev'[c] = prev[c]
  PROVE  AList(wishlist, w, nw)'
<1>1. Listed(next, prev, NULL, wishlist, w, nw)
  BY DEF AList
<1>2. Listed(next', prev', NULL, wishlist, w, nw)
  BY <1>1, Undisturbed
<1> QED BY <1>2 DEF AList

\* ... and with the schedules.
LEMMA JobsKept ==
  ASSUME NEW s, NEW ns, AList(schedules, s, ns), schedules' = schedules,
         \A c \in Members(s, ns) : next'[c] = next[c] /\ prev'[c] = prev[c]
  PROVE  AList(schedules, s, ns)'
<1>1. Listed(next, prev, NULL, schedules, s, ns)
  BY DEF AList
<1>2. Listed(next', prev', NULL, schedules, s, ns)
  BY <1>1, Undisturbed
<1> QED BY <1>2 DEF AList

\* A wish goes in front of the wishlist, whatever the worker thread is at.
LEMMA PushWishStep ==
  ASSUME NEW w, NEW nw, NEW s, NEW ns, NEW a, NEW na, NEW b, NEW nb,
         Control, Shape(w, nw, s, ns, a, na, b, nb), NEW c \in Cells, PushWish(c)
  PROVE  Control' /\ Shape(Shifted(c, w, nw), nw + 1, s, ns, a, na, b, nb)'
<1> DEFINE W == Members(w, nw)
           S == Members(s, ns)
           A == Members(a, na)
           B == Members(b, nb)
<1>1. /\ next \in [Cells -> Pointers] /\ prev \in [Cells -> Pointers]
      /\ wishlist \in Pointers /\ c # NULL
  BY CellsAssumption DEF Control
<1>2. /\ AList(wishlist, w, nw) /\ AList(schedules, s, ns)
      /\ ListAhead(a, na) /\ ListBehind(b, nb) /\ Apart(W, S, A, B)
      /\ pc \in Taking => na > 0
  BY DEF Shape
<1>3. /\ pc \in Taking => iter \in A
      /\ wishlist # NULL => wishlist \in W
      /\ nw = 0 <=> wishlist = NULL
      /\ nw \in Nat
  BY Hands
<1>4. /\ c \notin used /\ used' = used \cup {c} /\ wishlist' = c
      /\ next' = [next EXCEPT ![c] = wishlist]
      /\ prev' = IF wishlist = NULL THEN [prev EXCEPT ![c] = NULL]
                 ELSE [prev EXCEPT ![c] = NULL, ![wishlist] = c]
      /\ schedules' = schedules /\ tasks' = tasks /\ pc' = pc /\ iter' = iter
      /\ first_wish' = first_wish /\ last_wish' = last_wish /\ running' = running
  BY DEF PushWish, Link, locals
<1>5. c \notin W \cup S \cup A \cup B \cup {running}
  BY <1>1, <1>2, <1>4 DEF Apart
<1> HIDE DEF W, S, A, B
<1>6. \A d \in S \cup A \cup B : next'[d] = next[d] /\ prev'[d] = prev[d]
  <2>1. \A d \in S \cup A \cup B : d # c /\ d # wishlist
    BY <1>2, <1>3, <1>5, CellsAssumption, Hands DEF Apart, A, B, S, W
  <2>2. S \cup A \cup B \subseteq Cells
    BY Hands DEF S, A, B
  <2> QED BY <1>1, <1>4, <2>1, <2>2
<1>7. /\ AList(wishlist, Shifted(c, w, nw), nw + 1)'
      /\ Members(Shifted(c, w, nw), nw + 1) = W \cup {c}
  <2>1. Listed(next, prev, NULL, wishlist, w, nw) /\ c \notin Members(w, nw)
    BY <1>2, <1>5 DEF AList, W
  <2> DEFINE ff == next'
             gg == prev'
  <2>2. Pushing(next, prev, ff, gg, c, wishlist)
    BY <1>1, <1>4, CellsAssumption DEF Pushing
  <2> HIDE DEF ff, gg
  <2>4. /\ Listed(ff, gg, NULL, c, Shifted(c, w, nw), nw + 1)
        /\ Members(Shifted(c, w, nw), nw + 1) = Members(w, nw) \cup {c}
    BY <1>1, <2>1, <2>2, PushedInFront
  <2> QED BY <1>4, <2>4 DEF AList, W, ff, gg
<1>8. AList(schedules, s, ns)'
  BY <1>2, <1>4, <1>6, JobsKept DEF S
<1>9. ListAhead(a, na)' /\ ListBehind(b, nb)'
  BY <1>2, <1>3, <1>4, <1>6, HandsKept DEF A, B
<1>10. Apart(W \cup {c}, S, A, B)'
  BY <1>2, <1>4, <1>5 DEF Apart
<1>11. (pc \in Taking => na > 0)' /\ LastWish(a, b, nb)' /\ Scheduled(S, A, b, nb)'
  BY <1>4 DEF Shape, LastWish, Scheduled, S, A, Taking, Giving
<1>12. Control'
  BY <1>1, <1>4 DEF Control, PushWish, Pointers, locals
<1> QED BY <1>7, <1>8, <1>9, <1>10, <1>11, <1>12 DEF Shape, S, A, B

\* A job pushed by the worker thread goes in front of the schedules.
LEMMA PushSelfStep ==
  ASSUME NEW w, NEW nw, NEW s, NEW ns, NEW a, NEW na, NEW b, NEW nb,
         Control, Shape(w, nw, s, ns, a, na, b, nb), NEW c \in Cells, PushSelf(c)
  PROVE  Control' /\ Shape(w, nw, Shifted(c, s, ns), ns + 1, a, na, b, nb)'
<1> DEFINE W == Members(w, nw)
           S == Members(s, ns)
           A == Members(a, na)
           B == Members(b, nb)
<1>1. /\ next \in [Cells -> Pointers] /\ prev \in [Cells -> Pointers]
      /\ schedules \in Pointers /\ c # NULL
  BY CellsAssumption DEF Control
<1>2. /\ AList(wishlist, w, nw) /\ AList(schedules, s, ns)
      /\ ListAhead(a, na) /\ ListBehind(b, nb) /\ Apart(W, S, A, B)
      /\ pc \in Taking => na > 0
  BY DEF Shape
<1>3. /\ pc \in Taking => iter \in A
      /\ schedules # NULL => schedules \in S
      /\ ns \in Nat
  BY Hands
<1>4. /\ c \notin used /\ used' = used \cup {c} /\ schedules' = c /\ pc = "frame"
      /\ next' = [next EXCEPT ![c] = schedules]
      /\ prev' = IF schedules = NULL THEN [prev EXCEPT ![c] = NULL]
                 ELSE [prev EXCEPT ![c] = NULL, ![schedules] = c]
      /\ wishlist' = wishlist /\ tasks' = Append(tasks, c) /\ pc' = pc /\ iter' = iter
      /\ first_wish' = first_wish /\ last_wish' = last_wish /\ running' = running
  BY DEF PushSelf, Link, locals
<1>5. c \notin W \cup S \cup A \cup B \cup {running}
  BY <1>1, <1>2, <1>4 DEF Apart
<1>6. ToSet(tasks) = S
  BY <1>4 DEF Shape, Scheduled
<1> HIDE DEF W, S, A, B
<1>7. \A d \in W \cup A \cup B : next'[d] = next[d] /\ prev'[d] = prev[d]
  <2>1. \A d \in W \cup A \cup B : d # c /\ d # schedules
    BY <1>2, <1>3, <1>5, CellsAssumption, Hands DEF Apart, A, B, S, W
  <2>2. W \cup A \cup B \subseteq Cells
    BY Hands DEF W, A, B
  <2> QED BY <1>1, <1>4, <2>1, <2>2
<1>8. /\ AList(schedules, Shifted(c, s, ns), ns + 1)'
      /\ Members(Shifted(c, s, ns), ns + 1) = S \cup {c}
  <2>1. Listed(next, prev, NULL, schedules, s, ns) /\ c \notin Members(s, ns)
    BY <1>2, <1>5 DEF AList, S
  <2> DEFINE ff == next'
             gg == prev'
  <2>2. Pushing(next, prev, ff, gg, c, schedules)
    BY <1>1, <1>4, CellsAssumption DEF Pushing
  <2> HIDE DEF ff, gg
  <2>3. /\ Listed(ff, gg, NULL, c, Shifted(c, s, ns), ns + 1)
        /\ Members(Shifted(c, s, ns), ns + 1) = Members(s, ns) \cup {c}
    BY <1>1, <2>1, <2>2, PushedInFront
  <2> QED BY <1>4, <2>3 DEF AList, S, ff, gg
<1>9. AList(wishlist, w, nw)'
  BY <1>2, <1>4, <1>7, WishlistKept DEF W
<1>10. ListAhead(a, na)' /\ ListBehind(b, nb)'
  BY <1>2, <1>3, <1>4, <1>7, HandsKept DEF A, B
<1>11. Apart(W, S \cup {c}, A, B)'
  BY <1>2, <1>4, <1>5 DEF Apart
<1>12. /\ tasks' \in Seq(Cells) /\ Distinct(tasks)' /\ ToSet(tasks') = S \cup {c}
  <2>1. tasks \in Seq(Cells) /\ Distinct(tasks) /\ c \notin ToSet(tasks)
    BY <1>5, <1>6 DEF Control
  <2>2. /\ Append(tasks, c) \in Seq(Cells) /\ Distinct(Append(tasks, c))
        /\ ToSet(Append(tasks, c)) = ToSet(tasks) \cup {c}
    BY <2>1, TaskAdded
  <2> QED BY <1>4, <1>6, <2>2 DEF Distinct
<1>13. (pc \in Taking => na > 0)' /\ LastWish(a, b, nb)'
  BY <1>4 DEF Taking, Giving, LastWish
<1>14. Scheduled(S \cup {c}, A, b, nb)'
  BY <1>4, <1>12 DEF Scheduled
<1>15. Control'
  BY <1>1, <1>4, <1>12 DEF Control, PushSelf, Pointers, locals
<1> QED BY <1>8, <1>9, <1>10, <1>11, <1>13, <1>14, <1>15 DEF Shape, W, A, B

\* What the worker thread starts with: a list it has taken for itself
LEMMA TakeWishesStep ==
  ASSUME NEW w, NEW nw, NEW s, NEW ns, NEW a, NEW na, NEW b, NEW nb,
         Control, Shape(w, nw, s, ns, a, na, b, nb), TakeWishes
  PROVE  /\ Control'
         /\ IF wishlist = NULL THEN Shape(w, nw, s, ns, a, na, b, nb)'
            ELSE Shape(a, na, s, ns, w, nw, b, nb)'
<1> DEFINE W == Members(w, nw)
           S == Members(s, ns)
           A == Members(a, na)
           B == Members(b, nb)
<1>1. /\ AList(wishlist, w, nw) /\ AList(schedules, s, ns)
      /\ ListAhead(a, na) /\ ListBehind(b, nb) /\ Apart(W, S, A, B)
      /\ Scheduled(S, A, b, nb)
  BY DEF Shape
<1>2. /\ pc \in {"loop", "frame"} /\ ~held /\ wishlist' = NULL
      /\ iter' = wishlist /\ first_wish' = NULL /\ last_wish' = wishlist
      /\ pc' = IF wishlist = NULL THEN pc ELSE "reverse"
      /\ used' = used /\ next' = next /\ prev' = prev /\ schedules' = schedules
      /\ tasks' = tasks /\ held' = held /\ alive' = alive /\ left' = left
      /\ running' = running /\ fault' = fault
  BY DEF TakeWishes, InFrame, WishesTaken, cells
<1>3. /\ na = 0 /\ nb = 0 /\ A = {} /\ B = {} /\ pc \notin Taking /\ pc \notin Giving
      /\ nw \in Nat /\ (nw = 0 <=> wishlist = NULL) /\ (nw > 0 => wishlist = w[1])
  BY <1>2, Hands DEF Taking, Giving
<1>4. /\ Listed(next, prev, NULL, wishlist, w, nw)
      /\ Listed(next, prev, NULL, schedules, s, ns)
      /\ Listed(next, prev, prev[iter], NULL, a, na)
      /\ Listed(next, prev, NULL, NULL, b, nb)
  BY <1>1, <1>2 DEF AList, ListAhead, ListBehind, Taking, Giving
<1>5. ToSet(tasks) = S
  BY <1>1, <1>2 DEF Scheduled
<1> DEFINE bb == prev'[iter']
<1>6. Listed(next, prev, bb, NULL, a, na) /\ Listed(next, prev, NULL, NULL, a, na)
  BY <1>3, <1>4 DEF Listed
<1>7. Listed(next, prev, wishlist, NULL, b, nb)
  BY <1>3, <1>4 DEF Listed
<1> HIDE DEF W, S, A, B, bb
<1>8. CASE wishlist = NULL
  <2>1. /\ AList(wishlist, w, nw)' /\ AList(schedules, s, ns)'
        /\ ListAhead(a, na)' /\ ListBehind(b, nb)'
    BY <1>2, <1>3, <1>4, <1>6, <1>8 DEF AList, ListAhead, ListBehind, Taking, Giving, bb
  <2>2. Apart(W, S, A, B)'
    BY <1>1, <1>2 DEF Apart
  <2>3. Scheduled(S, A, b, nb)' /\ (pc \in Taking => na > 0)' /\ LastWish(a, b, nb)'
    BY <1>2, <1>3, <1>5, <1>8 DEF Scheduled, LastWish, Taking, Giving
  <2> QED BY <1>8, <2>1, <2>2, <2>3, <1>2, CellsAssumption
     DEF Control, Pointers, Shape, W, S, A, B
<1>9. CASE wishlist # NULL
  <2>1. /\ AList(wishlist, a, na)' /\ AList(schedules, s, ns)'
        /\ ListAhead(w, nw)' /\ ListBehind(b, nb)'
    BY <1>2, <1>4, <1>6, <1>7, <1>9 DEF AList, ListAhead, ListBehind, Taking, Giving
  <2>2. Apart(A, S, W, B)'
    BY <1>1, <1>2 DEF Apart
  <2>3. Scheduled(S, W, b, nb)' /\ (pc \in Taking => nw > 0)' /\ LastWish(w, b, nb)'
    BY <1>2, <1>3, <1>5, <1>9 DEF Scheduled, LastWish, Taking, Giving
  <2> QED BY <1>9, <2>1, <2>2, <2>3, <1>2, CellsAssumption
     DEF Control, Pointers, Shape, W, S, A, B
<1> QED BY <1>8, <1>9

\* The first cell ahead becomes the first cell behind.
LEMMA TurnAroundStep ==
  ASSUME NEW w, NEW nw, NEW s, NEW ns, NEW a, NEW na, NEW b, NEW nb,
         Control, Shape(w, nw, s, ns, a, na, b, nb), TurnAround
  PROVE  /\ Control'
         /\ Shape(w, nw, s, ns, Rest(a, na), na - 1, Shifted(a[1], b, nb), nb + 1)'
<1> DEFINE W == Members(w, nw)
           S == Members(s, ns)
           A == Members(a, na)
           B == Members(b, nb)
           a1 == Rest(a, na)
           b1 == Shifted(a[1], b, nb)
           A1 == Members(a1, na - 1)
           B1 == Members(b1, nb + 1)
<1>0. /\ next \in [Cells -> Pointers] /\ prev \in [Cells -> Pointers]
      /\ iter \in Pointers
  BY DEF Control
<1>1. /\ AList(wishlist, w, nw) /\ AList(schedules, s, ns)
      /\ ListAhead(a, na) /\ ListBehind(b, nb) /\ Apart(W, S, A, B)
      /\ LastWish(a, b, nb) /\ Scheduled(S, A, b, nb)
  BY DEF Shape
<1>2. /\ pc = "reverse" /\ pc' = IF next[iter] = NULL THEN "schedule" ELSE "reverse"
      /\ first_wish' = iter /\ iter' = IF next[iter] = NULL THEN iter ELSE next[iter]
      /\ next' = [next EXCEPT ![iter] = prev[iter]]
      /\ prev' = [prev EXCEPT ![iter] = next[iter]]
      /\ used' = used /\ wishlist' = wishlist /\ schedules' = schedules
      /\ tasks' = tasks /\ held' = held /\ alive' = alive /\ left' = left
      /\ last_wish' = last_wish /\ running' = running /\ fault' = fault
  BY DEF TurnAround, Goto, SwapLinks, heads
<1>3. /\ na > 0 /\ na \in Nat /\ iter = a[1] /\ iter \in A /\ nb \in Nat
      /\ (next[iter] = NULL <=> na = 1) /\ iter \in Cells
      /\ W \subseteq Cells /\ S \subseteq Cells
  BY <1>2, Hands DEF Taking, Giving
<1>4. /\ Listed(next, prev, first_wish, iter, a, na)
      /\ Listed(next, prev, iter, first_wish, b, nb)
  BY <1>1, <1>2 DEF ListAhead, ListBehind, Taking, Giving
<1>5. ToSet(tasks) = S
  BY <1>1, <1>2 DEF Scheduled
<1>6. /\ Listed(next', prev', iter, next[iter], a1, na - 1)
      /\ A1 = A \ {iter}
      /\ Listed(next', prev', next[iter], iter, b1, nb + 1)
      /\ B1 = B \cup {iter}
  <2> DEFINE ff == next'
             gg == prev'
  <2>1. Turning(next, prev, ff, gg, iter)
    BY <1>0, <1>2 DEF Turning
  <2>2. A \cap B = {}
    BY <1>1 DEF Apart
  <2> HIDE DEF ff, gg
  <2>3. /\ Listed(ff, gg, iter, next[iter], Rest(a, na), na - 1)
        /\ Members(Rest(a, na), na - 1) = A \ {iter}
        /\ Listed(ff, gg, next[iter], iter, Shifted(iter, b, nb), nb + 1)
        /\ Members(Shifted(iter, b, nb), nb + 1) = B \cup {iter}
    BY <1>0, <1>3, <1>4, <2>1, <2>2, CellTurned
  <2> QED BY <1>3, <2>3 DEF ff, gg
<1>7. \A d \in W \cup S : next'[d] = next[d] /\ prev'[d] = prev[d]
  <2>1. \A d \in W \cup S : d # iter /\ d \in Cells
    BY <1>1, <1>3 DEF Apart
  <2> QED BY <1>0, <1>2, <2>1
<1>8. AList(wishlist, w, nw)' /\ AList(schedules, s, ns)'
  BY <1>1, <1>2, <1>7, WishlistKept, JobsKept
<1>9. /\ nb = 0 => b1[nb + 1] = iter
      /\ nb > 0 => b1[nb + 1] = b[nb]
      /\ b1[1] = iter
  BY <1>3 DEF Shifted
<1> HIDE DEF W, S, A, B, A1, B1, a1, b1
<1>10. last_wish = b1[nb + 1]
  BY <1>1, <1>2, <1>3, <1>9 DEF LastWish, Giving
<1>11. ListAhead(a1, na - 1)' /\ ListBehind(b1, nb + 1)'
  <2>1. CASE next[iter] = NULL
    <3>1. na - 1 = 0
      BY <1>3, <2>1
    <3> DEFINE bb == prev'[iter']
    <3>2. Listed(next', prev', bb, NULL, a1, na - 1)
      BY <1>6, <2>1, <3>1 DEF Listed
    <3> HIDE DEF bb
    <3> QED BY <1>2, <1>6, <2>1, <3>2 DEF ListAhead, ListBehind, Taking, Giving, bb
  <2>2. CASE next[iter] # NULL
    BY <1>2, <1>6, <2>2 DEF ListAhead, ListBehind, Taking, Giving
  <2> QED BY <2>1, <2>2
<1>12. Apart(W, S, A1, B1)'
  BY <1>1, <1>2, <1>3, <1>6 DEF Apart
<1>13. (pc \in Taking => na - 1 > 0)' /\ LastWish(a1, b1, nb + 1)'
  <2>1. nb + 1 > 0 /\ nb + 1 # 0
    BY <1>3
  <2>2. next[iter] # NULL => na - 1 > 0
    BY <1>3
  <2> QED BY <1>2, <1>10, <2>1, <2>2 DEF LastWish, Taking, Giving
<1>14. Scheduled(S, A1, b1, nb + 1)'
  <2>1. CASE next[iter] = NULL
    <3>1. /\ 1 \in 1..(nb + 1) /\ iter' = b1[1]
          /\ tasks' = tasks /\ {b1[i] : i \in 1..(1 - 1)} = {}
      BY <1>2, <1>3, <1>9, <2>1
    <3> QED BY <1>2, <1>5, <2>1, <3>1 DEF Scheduled
  <2>2. CASE next[iter] # NULL
    BY <1>2, <1>5, <2>2 DEF Scheduled
  <2> QED BY <2>1, <2>2
<1>15. Control'
  BY <1>0, <1>2, <1>3 DEF Control, Pointers
<1> QED BY <1>8, <1>11, <1>12, <1>13, <1>14, <1>15 DEF Shape, W, S, A1, B1, a1, b1

\* The scheduler has one more of the wishes in hand.
LEMMA ScheduleStep ==
  ASSUME NEW w, NEW nw, NEW s, NEW ns, NEW a, NEW na, NEW b, NEW nb,
         Control, Shape(w, nw, s, ns, a, na, b, nb), Schedule
  PROVE  Control' /\ Shape(w, nw, s, ns, a, na, b, nb)'
<1> DEFINE W == Members(w, nw)
           S == Members(s, ns)
           A == Members(a, na)
           B == Members(b, nb)
<1>1. /\ AList(wishlist, w, nw) /\ AList(schedules, s, ns)
      /\ ListAhead(a, na) /\ ListBehind(b, nb) /\ Apart(W, S, A, B)
      /\ LastWish(a, b, nb) /\ Scheduled(S, A, b, nb)
  BY DEF Shape
<1>2. /\ pc = "schedule" /\ pc' = IF next[iter] = NULL THEN "splice" ELSE "schedule"
      /\ tasks' = Append(tasks, iter) /\ iter' = next[iter]
      /\ used' = used /\ next' = next /\ prev' = prev /\ wishlist' = wishlist
      /\ schedules' = schedules /\ held' = held /\ alive' = alive /\ left' = left
      /\ first_wish' = first_wish /\ last_wish' = last_wish /\ running' = running
      /\ fault' = fault
  BY DEF Schedule, Goto, ThisWish, cells, heads
<1>3. na = 0 /\ nb \in Nat /\ nb > 0 /\ B \subseteq Cells
  BY <1>1, <1>2, Hands DEF Taking, Giving, LastWish
<1>4. /\ Listed(next, prev, prev[iter], NULL, a, na)
      /\ Listed(next, prev, NULL, first_wish, b, nb)
  BY <1>1, <1>2 DEF ListAhead, ListBehind, Taking, Giving
<1>5. PICK k \in 1..nb : iter = b[k] /\ ToSet(tasks) = S \cup {b[i] : i \in 1..(k - 1)}
  BY <1>1, <1>2 DEF Scheduled
<1>6. /\ iter \in Cells /\ \A i, j \in 1..nb : b[i] = b[j] => i = j
      /\ next[iter] = IF k = nb THEN NULL ELSE b[k + 1]
      /\ \A i \in 1..nb : b[i] \in Cells
  BY <1>4, <1>5 DEF Listed, Path
<1>7. iter \notin ToSet(tasks)
  <2>1. iter \notin S
    BY <1>1, <1>5 DEF Apart, Members
  <2>2. \A i \in 1..(k - 1) : i \in 1..nb /\ i # k
    BY <1>3
  <2>3. iter \notin {b[i] : i \in 1..(k - 1)}
    BY <1>5, <1>6, <2>2
  <2> QED BY <1>5, <2>1, <2>3
<1>8. /\ tasks' \in Seq(Cells) /\ Distinct(tasks)'
      /\ ToSet(tasks') = S \cup {b[i] : i \in 1..k}
  <2>1. tasks \in Seq(Cells) /\ Distinct(tasks)
    BY DEF Control
  <2>2. /\ Append(tasks, iter) \in Seq(Cells) /\ Distinct(Append(tasks, iter))
        /\ ToSet(Append(tasks, iter)) = ToSet(tasks) \cup {iter}
    BY <1>6, <1>7, <2>1, TaskAdded
  <2>3. {b[i] : i \in 1..k} = {b[i] : i \in 1..(k - 1)} \cup {b[k]}
    <3>1. \A i \in 1..k : i \in 1..(k - 1) \/ i = k
      BY <1>3
    <3>2. k \in 1..k /\ \A i \in 1..(k - 1) : i \in 1..k
      BY <1>3
    <3> QED BY <3>1, <3>2
  <2> QED BY <1>2, <1>5, <2>2, <2>3 DEF Distinct
<1> HIDE DEF W, S, A, B
<1>9. /\ AList(wishlist, w, nw)' /\ AList(schedules, s, ns)'
  BY <1>1, <1>2 DEF AList
<1>10. ListAhead(a, na)' /\ ListBehind(b, nb)'
  <2> DEFINE bb == prev'[iter']
  <2>1. Listed(next, prev, bb, NULL, a, na)
    BY <1>3, <1>4 DEF Listed
  <2> HIDE DEF bb
  <2> QED BY <1>2, <1>4, <2>1 DEF ListAhead, ListBehind, Taking, Giving, bb
<1>11. Apart(W, S, A, B)'
  BY <1>1, <1>2 DEF Apart
<1>12. (pc \in Taking => na > 0)' /\ LastWish(a, b, nb)'
  BY <1>1, <1>2, <1>3 DEF LastWish, Taking, Giving
<1>13. Scheduled(S, A, b, nb)'
  <2>1. CASE k = nb
    BY <1>2, <1>6, <1>8, <2>1 DEF Scheduled, Members
  <2>2. CASE k # nb
    <3>1. k + 1 \in 1..nb /\ (k + 1) - 1 = k
      BY <1>3, <2>2
    <3>2. iter' = b[k + 1] /\ pc' = "schedule"
      BY <1>2, <1>6, <2>2, <3>1, CellsAssumption
    <3>3. \E m \in 1..nb : iter' = b[m] /\ ToSet(tasks') = S \cup {b[i] : i \in 1..(m - 1)}
      BY <1>8, <3>1, <3>2
    <3> QED BY <3>2, <3>3 DEF Scheduled
  <2> QED BY <2>1, <2>2
<1>14. Control'
  BY <1>2, <1>6, <1>8 DEF Control, Pointers
<1> QED BY <1>9, <1>10, <1>11, <1>12, <1>13, <1>14 DEF Shape, W, S, A, B

\* The wishes in hand go in front of the schedules, and the scheduler has them all.
LEMMA SpliceStep ==
  ASSUME NEW w, NEW nw, NEW s, NEW ns, NEW a, NEW na, NEW b, NEW nb,
         Control, Shape(w, nw, s, ns, a, na, b, nb), Splice
  PROVE  Control' /\ Shape(w, nw, Joined(b, nb, s, ns), nb + ns, a, na, a, na)'
<1> DEFINE W == Members(w, nw)
           S == Members(s, ns)
           A == Members(a, na)
           B == Members(b, nb)
           s1 == Joined(b, nb, s, ns)
           S1 == Members(s1, nb + ns)
<1>0. /\ next \in [Cells -> Pointers] /\ prev \in [Cells -> Pointers]
      /\ schedules \in Pointers
  BY DEF Control
<1>1. /\ AList(wishlist, w, nw) /\ AList(schedules, s, ns)
      /\ ListAhead(a, na) /\ ListBehind(b, nb) /\ Apart(W, S, A, B)
      /\ LastWish(a, b, nb) /\ Scheduled(S, A, b, nb)
  BY DEF Shape
<1>2. /\ pc = "splice" /\ pc' \in Back /\ schedules' = first_wish
      /\ next' = IF schedules = NULL THEN next ELSE [next EXCEPT ![last_wish] = schedules]
      /\ prev' = IF schedules = NULL THEN prev ELSE [prev EXCEPT ![schedules] = last_wish]
      /\ used' = used /\ wishlist' = wishlist /\ tasks' = tasks /\ held' = held
      /\ alive' = alive /\ left' = left /\ iter' = iter /\ first_wish' = first_wish
      /\ last_wish' = last_wish /\ running' = running /\ fault' = fault
  BY DEF Splice, JoinLists, locals
<1>3. /\ na = 0 /\ A = {} /\ nb \in Nat /\ nb > 0 /\ last_wish = b[nb]
      /\ W \subseteq Cells /\ B \subseteq Cells /\ S \subseteq Cells
      /\ schedules # NULL => schedules \in S
  BY <1>1, <1>2, Hands DEF Taking, Giving, LastWish
<1>4. /\ Listed(next, prev, NULL, schedules, s, ns)
      /\ Listed(next, prev, prev[iter], NULL, a, na)
      /\ Listed(next, prev, NULL, first_wish, b, nb)
  BY <1>1, <1>2 DEF AList, ListAhead, ListBehind, Taking, Giving
<1>5. last_wish \in B /\ last_wish \in Cells
  BY <1>3 DEF Members
<1>6. B \cap S = {}
  BY <1>1 DEF Apart
<1>7. /\ Listed(next', prev', NULL, first_wish, s1, nb + ns)
      /\ S1 = B \cup S
  <2> DEFINE ff == next'
             gg == prev'
  <2>1. Joining(next, prev, ff, gg, b[nb], schedules)
    BY <1>0, <1>2, <1>3, <1>5, CellsAssumption DEF Joining
  <2> HIDE DEF ff, gg
  <2>2. /\ Listed(ff, gg, NULL, first_wish, Joined(b, nb, s, ns), nb + ns)
        /\ Members(Joined(b, nb, s, ns), nb + ns) = Members(b, nb) \cup Members(s, ns)
    BY <1>0, <1>3, <1>4, <1>6, <2>1, ListsJoined
  <2> QED BY <2>2 DEF ff, gg
<1>8. \A d \in W : next'[d] = next[d] /\ prev'[d] = prev[d]
  <2>1. \A d \in W : d \notin B /\ d \notin S /\ d \in Cells
    BY <1>1, <1>3 DEF Apart
  <2> QED BY <1>0, <1>2, <1>3, <1>5, <2>1
<1>9. AList(wishlist, w, nw)'
  BY <1>1, <1>2, <1>8, WishlistKept
<1> HIDE DEF W, S, A, B, s1, S1
<1>10. AList(schedules, s1, nb + ns)'
  BY <1>2, <1>7 DEF AList
<1>11. ListAhead(a, na)' /\ ListBehind(a, na)'
  <2> DEFINE bb == prev'[iter']
  <2>1. Listed(next', prev', bb, NULL, a, na) /\ Listed(next', prev', NULL, NULL, a, na)
    BY <1>3, <1>4 DEF Listed, Path
  <2> HIDE DEF bb
  <2> QED BY <1>2, <2>1 DEF ListAhead, ListBehind, Taking, Giving, Back, bb
<1>12. Apart(W, S1, A, A)'
  BY <1>1, <1>2, <1>3, <1>7 DEF Apart
<1>13. (pc \in Taking => na > 0)' /\ LastWish(a, a, na)'
  BY <1>2 DEF LastWish, Taking, Giving, Back
<1>14. Scheduled(S1, A, a, na)'
  BY <1>1, <1>2, <1>7 DEF Scheduled, Back, B
<1>15. Control'
  BY <1>0, <1>2, <1>3, <1>5 DEF Control, Pointers, Back
<1> QED BY <1>9, <1>10, <1>11, <1>12, <1>13, <1>14, <1>15 DEF Shape, W, S1, A, s1

\* A job that runs leaves the schedules, wherever it is in them.
LEMMA RunStep ==
  ASSUME NEW w, NEW nw, NEW s, NEW ns, NEW a, NEW na, NEW b, NEW nb,
         Control, Shape(w, nw, s, ns, a, na, b, nb), NEW i \in 1..Len(tasks), Run(i)
  PROVE  Control' /\ \E k \in 1..ns : Shape(w, nw, Without(k, s, ns), ns - 1, a, na, b, nb)'
<1> DEFINE W == Members(w, nw)
           S == Members(s, ns)
           A == Members(a, na)
           B == Members(b, nb)
           j == tasks[i]
<1>0. /\ next \in [Cells -> Pointers] /\ prev \in [Cells -> Pointers]
      /\ tasks \in Seq(Cells) /\ Distinct(tasks)
  BY DEF Control
<1>1. /\ AList(wishlist, w, nw) /\ AList(schedules, s, ns)
      /\ ListAhead(a, na) /\ ListBehind(b, nb) /\ Apart(W, S, A, B)
      /\ Scheduled(S, A, b, nb)
  BY DEF Shape
<1>2. /\ pc = "loop" /\ pc' = "frame" /\ running' = j /\ tasks' = RemoveAt(tasks, i)
      /\ schedules' = IF schedules = j THEN next[j] ELSE schedules
      /\ next' = IF schedules # j /\ prev[j] # NULL
                 THEN [next EXCEPT ![prev[j]] = next[j]] ELSE next
      /\ prev' = IF next[j] # NULL THEN [prev EXCEPT ![next[j]] = prev[j]] ELSE prev
      /\ used' = used /\ wishlist' = wishlist /\ held' = held
      /\ alive' = alive /\ left' = left /\ iter' = iter /\ first_wish' = first_wish
      /\ last_wish' = last_wish /\ fault' = fault
  BY DEF Run, Goto, Unlist, locals
<1>3. /\ na = 0 /\ nb = 0 /\ A = {} /\ B = {} /\ W \subseteq Cells /\ S \subseteq Cells
      /\ pc \notin Taking /\ pc \notin Giving /\ running = NULL
  BY <1>2, Hands DEF Taking, Giving, Control
<1>4. ToSet(tasks) = S
  BY <1>1, <1>2 DEF Scheduled
<1>5. /\ tasks' \in Seq(Cells) /\ Distinct(tasks)' /\ ToSet(tasks') = S \ {j} /\ j \in S
  <2>1. /\ RemoveAt(tasks, i) \in Seq(Cells) /\ Distinct(RemoveAt(tasks, i))
        /\ ToSet(RemoveAt(tasks, i)) = ToSet(tasks) \ {tasks[i]}
        /\ tasks[i] \in ToSet(tasks)
    BY <1>0, TaskRemoved
  <2> QED BY <1>2, <1>4, <2>1 DEF Distinct
<1> HIDE DEF j
<1>6. PICK k \in 1..ns : j = s[k]
  BY <1>5 DEF Members
<1>7. /\ Listed(next, prev, NULL, schedules, s, ns)
      /\ Listed(next, prev, prev[iter], NULL, a, na)
      /\ Listed(next, prev, NULL, NULL, b, nb)
  BY <1>1, <1>3, <1>2 DEF AList, ListAhead, ListBehind, Giving
<1> DEFINE s1 == Without(k, s, ns)
           S1 == Members(s1, ns - 1)
<1>8. /\ Listed(next', prev', NULL, schedules', s1, ns - 1)
      /\ S1 = S \ {j}
      /\ \A c \in Cells \ S : next'[c] = next[c] /\ prev'[c] = prev[c]
  <2> DEFINE ff == next'
             gg == prev'
             q == schedules'
  <2>1. Unlisting(next, prev, schedules, ff, gg, q, j)
    BY <1>0, <1>2, <1>3, <1>5, CellsAssumption DEF Unlisting
  <2>2. Unlisting(next, prev, schedules, ff, gg, q, s[k])
    BY <1>6, <2>1
  <2>4. k \in 1..ns
    BY <1>6
  <2> HIDE DEF ff, gg, q
  <2>5. Listed(ff, gg, NULL, q, Without(k, s, ns), ns - 1)
    BY <1>0, <1>7, <2>2, <2>4, CellUnlisted
  <2>3. /\ Members(Without(k, s, ns), ns - 1) = Members(s, ns) \ {s[k]}
        /\ \A c \in Cells \ Members(s, ns) : ff[c] = next[c] /\ gg[c] = prev[c]
    BY <1>0, <1>7, <2>2, <2>4, <2>5, CellUnlisted
  <2> QED BY <1>6, <2>3, <2>5 DEF ff, gg, q
<1>9. AList(wishlist, w, nw)'
  <2>1. \A c \in W : c \in Cells \ S
    BY <1>1, <1>3 DEF Apart
  <2>2. \A c \in W : next'[c] = next[c] /\ prev'[c] = prev[c]
    BY <1>8, <2>1
  <2> QED BY <1>1, <1>2, <2>2, WishlistKept
<1> HIDE DEF W, S, A, B, s1, S1
<1>10. AList(schedules, s1, ns - 1)'
  BY <1>8 DEF AList
<1>11. ListAhead(a, na)' /\ ListBehind(b, nb)'
  <2> DEFINE bb == prev'[iter']
  <2>1. Listed(next', prev', bb, NULL, a, na) /\ Listed(next', prev', NULL, NULL, b, nb)
    BY <1>3, <1>7 DEF Listed, Path
  <2> HIDE DEF bb
  <2> QED BY <1>2, <2>1 DEF ListAhead, ListBehind, Taking, Giving, bb
<1>12. Apart(W, S1, A, B)'
  BY <1>1, <1>2, <1>3, <1>5, <1>8, CellsAssumption DEF Apart
<1>13. (pc \in Taking => na > 0)' /\ LastWish(a, b, nb)'
  BY <1>2 DEF LastWish, Taking, Giving
<1>14. Scheduled(S1, A, b, nb)'
  BY <1>2, <1>5, <1>8 DEF Scheduled
<1>15. Control'
  <2>1. /\ next' \in [Cells -> Pointers] /\ prev' \in [Cells -> Pointers]
        /\ schedules' \in Pointers
    BY <1>0, <1>2, <1>3, <1>5 DEF Control, Pointers
  <2> QED BY <1>2, <1>3, <1>5, <2>1 DEF Control, Pointers
<1> QED BY <1>9, <1>10, <1>11, <1>12, <1>13, <1>14, <1>15 DEF Shape, W, S1, A, B, s1

\* Steps that touch no list
LEMMA QuietStep ==
  ASSUME NEW w, NEW nw, NEW s, NEW ns, NEW a, NEW na, NEW b, NEW nb,
         Control, Shape(w, nw, s, ns, a, na, b, nb),
         JobReturns \/ OtherCode \/ BeginClear \/ Cleared
  PROVE  Control' /\ Shape(w, nw, s, ns, a, na, b, nb)'
<1> DEFINE W == Members(w, nw)
           S == Members(s, ns)
           A == Members(a, na)
           B == Members(b, nb)
<1>1. /\ AList(wishlist, w, nw) /\ AList(schedules, s, ns)
      /\ ListAhead(a, na) /\ ListBehind(b, nb) /\ Apart(W, S, A, B)
      /\ Scheduled(S, A, b, nb)
  BY DEF Shape
<1>2. /\ {pc, pc'} \subseteq {"loop", "frame", "clear"}
      /\ next' = next /\ prev' = prev /\ wishlist' = wishlist /\ schedules' = schedules
      /\ tasks' = tasks /\ held' = held /\ iter' = iter /\ first_wish' = first_wish
      /\ last_wish' = last_wish
  BY DEF JobReturns, OtherCode, BeginClear, Cleared, Goto, InFrame, Back, heads, locals,
    cells
<1>3. /\ used' = used /\ running' = running /\ fault' = fault
      \/ /\ used' = used \ {running} /\ running \in used /\ running' = NULL
         /\ fault' = fault
  <2>1. CASE JobReturns
    <3>1. running # NULL /\ running \in used
      BY <1>1, <2>1 DEF JobReturns, Apart
    <3> QED BY <2>1, <3>1 DEF JobReturns, Freed
  <2>2. CASE OtherCode \/ BeginClear \/ Cleared
    BY <2>2 DEF OtherCode, BeginClear, Cleared, cells
  <2> QED BY <2>1, <2>2
<1> HIDE DEF W, S, A, B
<1>4. /\ AList(wishlist, w, nw)' /\ AList(schedules, s, ns)'
      /\ ListAhead(a, na)' /\ ListBehind(b, nb)'
  BY <1>1, <1>2 DEF AList, ListAhead, ListBehind, Taking, Giving
<1>5. NULL \notin W \cup S \cup A \cup B
  BY Hands, CellsAssumption DEF W, S, A, B
<1>6. Apart(W, S, A, B)'
  BY <1>1, <1>3, <1>5 DEF Apart
<1>7. (pc \in Taking => na > 0)' /\ LastWish(a, b, nb)' /\ Scheduled(S, A, b, nb)'
  BY <1>1, <1>2 DEF LastWish, Taking, Giving, Scheduled
<1>8. Control'
  <2>1. /\ held' <=> pc' = "clear_wishes"
        /\ pc' = "loop" => running' = NULL
    BY <1>2 DEF Control, JobReturns, OtherCode, BeginClear, Cleared, Goto, Back
  <2>2. /\ alive' \in BOOLEAN /\ left' \subseteq {"wishlist", "schedules"}
    BY DEF Control, JobReturns, OtherCode, BeginClear, Cleared
  <2> QED BY <1>2, <1>3, <2>1, <2>2 DEF Control, Pointers, Distinct
<1> QED BY <1>4, <1>6, <1>7, <1>8 DEF Shape, W, S, A, B

\* The wishlist becomes the list in hand, under the mutex.
LEMMA BeginClearWishesStep ==
  ASSUME NEW w, NEW nw, NEW s, NEW ns, NEW a, NEW na, NEW b, NEW nb,
         Control, Shape(w, nw, s, ns, a, na, b, nb), BeginClearWishes
  PROVE  /\ Control'
         /\ IF wishlist = NULL THEN Shape(w, nw, s, ns, a, na, b, nb)'
            ELSE Shape(a, na, s, ns, w, nw, b, nb)'
<1> DEFINE W == Members(w, nw)
           S == Members(s, ns)
           A == Members(a, na)
           B == Members(b, nb)
<1>1. /\ AList(wishlist, w, nw) /\ AList(schedules, s, ns)
      /\ ListAhead(a, na) /\ ListBehind(b, nb) /\ Apart(W, S, A, B)
      /\ Scheduled(S, A, b, nb)
  BY DEF Shape
<1>2. /\ pc = "clear" /\ pc' = IF wishlist = NULL THEN "clear" ELSE "clear_wishes"
      /\ wishlist' = NULL /\ iter' = wishlist /\ held' = (wishlist # NULL)
      /\ left' = left \ {"wishlist"}
      /\ used' = used /\ next' = next /\ prev' = prev /\ schedules' = schedules
      /\ tasks' = tasks /\ alive' = alive /\ first_wish' = first_wish
      /\ last_wish' = last_wish /\ running' = running /\ fault' = fault
  BY DEF BeginClearWishes, Goto, cells
<1>3. /\ na = 0 /\ nb = 0 /\ A = {} /\ B = {} /\ pc \notin Taking /\ pc \notin Giving
      /\ nw \in Nat /\ (nw = 0 <=> wishlist = NULL)
  BY <1>2, Hands DEF Taking, Giving
<1>4. /\ Listed(next, prev, NULL, wishlist, w, nw)
      /\ Listed(next, prev, NULL, schedules, s, ns)
      /\ Listed(next, prev, prev[iter], NULL, a, na)
      /\ Listed(next, prev, NULL, NULL, b, nb)
  BY <1>1, <1>2 DEF AList, ListAhead, ListBehind, Taking, Giving
<1>5. ToSet(tasks) = S
  BY <1>1, <1>2 DEF Scheduled
<1> DEFINE bb == prev'[iter']
<1> HIDE DEF W, S, A, B, bb
<1>6. Listed(next, prev, bb, NULL, a, na) /\ Listed(next, prev, NULL, NULL, a, na)
  BY <1>3, <1>4 DEF Listed
<1>7. wishlist # NULL => Listed(next, prev, bb, wishlist, w, nw)
  <2> SUFFICES ASSUME wishlist # NULL PROVE Listed(next, prev, bb, wishlist, w, nw)
    OBVIOUS
  <2>1. wishlist = w[1] /\ prev[w[1]] = NULL
    BY <1>3, <1>4, Hands DEF Listed
  <2>2. bb = NULL
    BY <1>2, <2>1 DEF bb
  <2> QED BY <1>4, <2>2
<1>8. CASE wishlist = NULL
  <2>1. /\ AList(wishlist, w, nw)' /\ AList(schedules, s, ns)'
        /\ ListAhead(a, na)' /\ ListBehind(b, nb)'
    BY <1>2, <1>3, <1>4, <1>6, <1>8 DEF AList, ListAhead, ListBehind, Taking, Giving, bb
  <2>2. Apart(W, S, A, B)'
    BY <1>1, <1>2 DEF Apart
  <2>3. Scheduled(S, A, b, nb)' /\ (pc \in Taking => na > 0)' /\ LastWish(a, b, nb)'
    BY <1>2, <1>3, <1>5, <1>8 DEF Scheduled, LastWish, Taking, Giving
  <2> QED BY <1>8, <2>1, <2>2, <2>3, <1>2, CellsAssumption
     DEF Control, Pointers, Distinct, Shape, W, S, A, B
<1>9. CASE wishlist # NULL
  <2>1. /\ AList(wishlist, a, na)' /\ AList(schedules, s, ns)'
        /\ ListAhead(w, nw)' /\ ListBehind(b, nb)'
    BY <1>2, <1>4, <1>6, <1>7, <1>9 DEF AList, ListAhead, ListBehind, Taking, Giving, bb
  <2>2. Apart(A, S, W, B)'
    BY <1>1, <1>2 DEF Apart
  <2>3. Scheduled(S, W, b, nb)' /\ (pc \in Taking => nw > 0)' /\ LastWish(w, b, nb)'
    BY <1>2, <1>3, <1>5, <1>9 DEF Scheduled, LastWish, Taking, Giving
  <2> QED BY <1>9, <2>1, <2>2, <2>3, <1>2, CellsAssumption
     DEF Control, Pointers, Distinct, Shape, W, S, A, B
<1> QED BY <1>8, <1>9

\* The schedules become the list in hand.
LEMMA BeginUnscheduleStep ==
  ASSUME NEW w, NEW nw, NEW s, NEW ns, NEW a, NEW na, NEW b, NEW nb,
         Control, Shape(w, nw, s, ns, a, na, b, nb), BeginUnschedule
  PROVE  /\ Control'
         /\ IF schedules = NULL THEN Shape(w, nw, s, ns, a, na, b, nb)'
            ELSE Shape(w, nw, a, na, s, ns, b, nb)'
<1> DEFINE W == Members(w, nw)
           S == Members(s, ns)
           A == Members(a, na)
           B == Members(b, nb)
<1>1. /\ AList(wishlist, w, nw) /\ AList(schedules, s, ns)
      /\ ListAhead(a, na) /\ ListBehind(b, nb) /\ Apart(W, S, A, B)
      /\ Scheduled(S, A, b, nb)
  BY DEF Shape
<1>2. /\ pc = "clear" /\ pc' = IF schedules = NULL THEN "clear" ELSE "unschedule"
      /\ schedules' = NULL /\ iter' = schedules /\ held' = held
      /\ left' = left \ {"schedules"}
      /\ used' = used /\ next' = next /\ prev' = prev /\ wishlist' = wishlist
      /\ tasks' = tasks /\ alive' = alive /\ first_wish' = first_wish
      /\ last_wish' = last_wish /\ running' = running /\ fault' = fault
  BY DEF BeginUnschedule, Goto, cells
<1>3. /\ na = 0 /\ nb = 0 /\ A = {} /\ B = {} /\ pc \notin Taking /\ pc \notin Giving
      /\ ns \in Nat /\ (ns = 0 <=> schedules = NULL)
  BY <1>2, Hands DEF Taking, Giving
<1>4. /\ Listed(next, prev, NULL, wishlist, w, nw)
      /\ Listed(next, prev, NULL, schedules, s, ns)
      /\ Listed(next, prev, prev[iter], NULL, a, na)
      /\ Listed(next, prev, NULL, NULL, b, nb)
  BY <1>1, <1>2 DEF AList, ListAhead, ListBehind, Taking, Giving
<1>5. ToSet(tasks) = S
  BY <1>1, <1>2 DEF Scheduled
<1> DEFINE bb == prev'[iter']
<1> HIDE DEF W, S, A, B, bb
<1>6. Listed(next, prev, bb, NULL, a, na) /\ Listed(next, prev, NULL, NULL, a, na)
  BY <1>3, <1>4 DEF Listed
<1>7. schedules # NULL => Listed(next, prev, bb, schedules, s, ns)
  <2> SUFFICES ASSUME schedules # NULL PROVE Listed(next, prev, bb, schedules, s, ns)
    OBVIOUS
  <2>1. schedules = s[1] /\ prev[s[1]] = NULL
    BY <1>3, <1>4, Hands DEF Listed
  <2>2. bb = NULL
    BY <1>2, <2>1 DEF bb
  <2> QED BY <1>4, <2>2
<1>8. CASE schedules = NULL
  <2>1. /\ AList(wishlist, w, nw)' /\ AList(schedules, s, ns)'
        /\ ListAhead(a, na)' /\ ListBehind(b, nb)'
    BY <1>2, <1>3, <1>4, <1>6, <1>8 DEF AList, ListAhead, ListBehind, Taking, Giving, bb
  <2>2. Apart(W, S, A, B)'
    BY <1>1, <1>2 DEF Apart
  <2>3. Scheduled(S, A, b, nb)' /\ (pc \in Taking => na > 0)' /\ LastWish(a, b, nb)'
    BY <1>2, <1>3, <1>5, <1>8 DEF Scheduled, LastWish, Taking, Giving
  <2> QED BY <1>8, <2>1, <2>2, <2>3, <1>2, CellsAssumption
     DEF Control, Pointers, Distinct, Shape, W, S, A, B
<1>9. CASE schedules # NULL
  <2>1. /\ AList(wishlist, w, nw)' /\ AList(schedules, a, na)'
        /\ ListAhead(s, ns)' /\ ListBehind(b, nb)'
    BY <1>2, <1>4, <1>6, <1>7, <1>9 DEF AList, ListAhead, ListBehind, Taking, Giving, bb
  <2>2. Apart(W, A, S, B)'
    BY <1>1, <1>2 DEF Apart
  <2>3. Scheduled(A, S, b, nb)' /\ (pc \in Taking => ns > 0)' /\ LastWish(s, b, nb)'
    BY <1>2, <1>3, <1>5, <1>9 DEF Scheduled, LastWish, Taking, Giving
  <2> QED BY <1>9, <2>1, <2>2, <2>3, <1>2, CellsAssumption
     DEF Control, Pointers, Distinct, Shape, W, S, A, B
<1> QED BY <1>8, <1>9

\* What the two loops that free a list have in common
LEMMA FreeOneStep ==
  ASSUME NEW w, NEW nw, NEW s, NEW ns, NEW a, NEW na, NEW b, NEW nb,
         Control, Shape(w, nw, s, ns, a, na, b, nb),
         NEW stage \in {"clear_wishes", "unschedule"}, FreeOne(stage)
  PROVE  /\ pc = stage /\ pc' \in {"clear", stage} /\ Victim = iter /\ iter \in used
         /\ iter \in Members(a, na) /\ iter \in Cells
         /\ Members(Rest(a, na), na - 1) = Members(a, na) \ {iter}
         /\ AList(wishlist, w, nw)' /\ AList(schedules, s, ns)'
         /\ ListAhead(Rest(a, na), na - 1)' /\ ListBehind(b, nb)'
         /\ (pc \in Taking => na - 1 > 0)' /\ LastWish(Rest(a, na), b, nb)'
         /\ pc' = stage <=> next[iter] # NULL
         /\ pc' = "clear" => Members(Rest(a, na), na - 1) = {}
         /\ iter' \in Pointers /\ nb = 0
<1> DEFINE A == Members(a, na)
           a1 == Rest(a, na)
<1>1. /\ AList(wishlist, w, nw) /\ AList(schedules, s, ns)
      /\ ListAhead(a, na) /\ ListBehind(b, nb)
      /\ Apart(Members(w, nw), Members(s, ns), A, Members(b, nb))
  BY DEF Shape
<1>2. /\ pc = stage /\ pc' = IF next[iter] = NULL THEN "clear" ELSE stage
      /\ iter' = next[iter] /\ next' = next /\ prev' = prev /\ wishlist' = wishlist
      /\ schedules' = schedules /\ first_wish' = first_wish /\ last_wish' = last_wish
  BY DEF FreeOne, Goto, heads
<1>3. /\ na > 0 /\ na \in Nat /\ iter \in A /\ A \subseteq Cells /\ nb = 0
      /\ (next[iter] = NULL <=> na = 1)
  BY <1>2, Hands DEF Taking, Giving
<1>4. Listed(next, prev, prev[iter], iter, a, na) /\ Listed(next, prev, NULL, NULL, b, nb)
  BY <1>1, <1>2 DEF ListAhead, ListBehind, Taking, Giving
<1>5. /\ Listed(next, prev, iter, next[iter], a1, na - 1)
      /\ Members(a1, na - 1) = A \ {iter}
  BY <1>3, <1>4, RestOfList
<1>6. next[iter] # NULL => prev[next[iter]] = iter
  <2> SUFFICES ASSUME next[iter] # NULL PROVE prev[next[iter]] = iter
    OBVIOUS
  <2> HIDE DEF a1
  <2>1. na - 1 > 0
    BY <1>3
  <2>2. prev[a1[1]] = iter
    BY <1>5, <2>1 DEF Listed
  <2>3. next[iter] = a1[1]
    BY <1>5, <2>1 DEF Listed, Path
  <2> QED BY <2>2, <2>3
<1>7. Victim = iter
  BY <1>6 DEF Victim
<1>8. iter \in used /\ iter \in Cells
  BY <1>1, <1>3 DEF Apart
<1>9. /\ AList(wishlist, w, nw)' /\ AList(schedules, s, ns)'
  BY <1>1, <1>2 DEF AList
<1> HIDE DEF A, a1
<1>10. ListAhead(a1, na - 1)' /\ ListBehind(b, nb)'
  <2> DEFINE bb == prev'[iter']
  <2>1. CASE next[iter] = NULL
    <3>1. na - 1 = 0
      BY <1>3, <2>1
    <3>2. Listed(next', prev', bb, NULL, a1, na - 1)
      BY <1>2, <1>5, <2>1, <3>1 DEF Listed
    <3> HIDE DEF bb
    <3> QED BY <1>2, <1>4, <2>1, <3>2 DEF ListAhead, ListBehind, Taking, Giving, bb
  <2>2. CASE next[iter] # NULL
    <3>1. bb = iter
      BY <1>2, <1>6, <2>2
    <3> HIDE DEF bb
    <3>2. Listed(next', prev', bb, next[iter], a1, na - 1)
      BY <1>2, <1>5, <3>1
    <3> QED BY <1>2, <1>4, <2>2, <3>2 DEF ListAhead, ListBehind, Taking, Giving, bb
  <2> QED BY <2>1, <2>2
<1>11. (pc \in Taking => na - 1 > 0)' /\ LastWish(a1, b, nb)'
  BY <1>2, <1>3 DEF LastWish, Taking, Giving
<1>12. pc' = "clear" => Members(a1, na - 1) = {}
  <2>1. pc' = "clear" => na - 1 = 0
    BY <1>2, <1>3
  <2> QED BY <2>1, <1>5, EmptyList
<1>13. iter' \in Pointers
  BY <1>2, <1>8 DEF Control
<1> QED BY <1>2, <1>3, <1>5, <1>7, <1>8, <1>9, <1>10, <1>11, <1>12, <1>13 DEF A, a1

\* A wish is freed.
LEMMA ClearWishStep ==
  ASSUME NEW w, NEW nw, NEW s, NEW ns, NEW a, NEW na, NEW b, NEW nb,
         Control, Shape(w, nw, s, ns, a, na, b, nb), ClearWish
  PROVE  Control' /\ Shape(w, nw, s, ns, Rest(a, na), na - 1, b, nb)'
<1> DEFINE W == Members(w, nw)
           S == Members(s, ns)
           A == Members(a, na)
           B == Members(b, nb)
           A1 == Members(Rest(a, na), na - 1)
<1>0. FreeOne("clear_wishes")
  BY DEF ClearWish
<1>1. /\ pc = "clear_wishes" /\ pc' \in {"clear", "clear_wishes"}
      /\ Victim = iter /\ iter \in used /\ iter \in A /\ A1 = A \ {iter}
      /\ AList(wishlist, w, nw)' /\ AList(schedules, s, ns)'
      /\ ListAhead(Rest(a, na), na - 1)' /\ ListBehind(b, nb)'
      /\ (pc \in Taking => na - 1 > 0)' /\ LastWish(Rest(a, na), b, nb)'
      /\ pc' = "clear_wishes" <=> next[iter] # NULL
      /\ iter' \in Pointers
  BY <1>0, FreeOneStep
<1>2. /\ used' = used \ {iter} /\ fault' = fault /\ held' = (next[iter] # NULL)
      /\ tasks' = tasks /\ wishlist' = wishlist /\ schedules' = schedules
      /\ next' = next /\ prev' = prev /\ alive' = alive /\ left' = left
      /\ first_wish' = first_wish /\ last_wish' = last_wish /\ running' = running
  BY <1>1 DEF ClearWish, FreeOne, Freed, heads
<1>3. Apart(W, S, A, B) /\ Scheduled(S, A, b, nb)
  BY DEF Shape
<1> HIDE DEF W, S, A, B, A1
<1>4. Apart(W, S, A1, B)'
  BY <1>1, <1>2, <1>3 DEF Apart
<1>5. Scheduled(S, A1, b, nb)'
  BY <1>1, <1>2, <1>3 DEF Scheduled
<1>6. Control'
  BY <1>1, <1>2 DEF Control, Distinct
<1> QED BY <1>1, <1>4, <1>5, <1>6 DEF Shape, W, S, B, A1

\* The scheduler has the task that is cancelled, and its cell is freed.
LEMMA UnscheduleStep ==
  ASSUME NEW w, NEW nw, NEW s, NEW ns, NEW a, NEW na, NEW b, NEW nb,
         Control, Shape(w, nw, s, ns, a, na, b, nb), Unschedule
  PROVE  /\ Control' /\ Shape(w, nw, s, ns, Rest(a, na), na - 1, b, nb)'
         /\ \E i \in 1..Len(tasks) : tasks' = RemoveAt(tasks, i)
<1> DEFINE W == Members(w, nw)
           S == Members(s, ns)
           A == Members(a, na)
           B == Members(b, nb)
           A1 == Members(Rest(a, na), na - 1)
<1>0. FreeOne("unschedule")
  BY DEF Unschedule
<1>1. /\ pc = "unschedule" /\ pc' \in {"clear", "unschedule"}
      /\ Victim = iter /\ iter \in used /\ iter \in A /\ A1 = A \ {iter}
      /\ AList(wishlist, w, nw)' /\ AList(schedules, s, ns)'
      /\ ListAhead(Rest(a, na), na - 1)' /\ ListBehind(b, nb)'
      /\ (pc \in Taking => na - 1 > 0)' /\ LastWish(Rest(a, na), b, nb)'
      /\ iter' \in Pointers /\ (pc' = "clear" => A1 = {})
  BY <1>0, FreeOneStep
<1>3. Apart(W, S, A, B) /\ S = {} /\ ToSet(tasks) = A
  BY <1>1 DEF Shape, Scheduled
<1>2. /\ used' = used \ {iter} /\ fault' = fault /\ held' = held
      /\ wishlist' = wishlist /\ schedules' = schedules
      /\ next' = next /\ prev' = prev /\ alive' = alive /\ left' = left
      /\ first_wish' = first_wish /\ last_wish' = last_wish /\ running' = running
  BY <1>1, <1>3 DEF Unschedule, FreeOne, heads
<1>4. PICK i \in 1..Len(tasks) : tasks[i] = iter /\ tasks' = RemoveAt(tasks, i)
  BY <1>1, <1>3 DEF Unschedule
<1>5. /\ tasks' \in Seq(Cells) /\ Distinct(tasks)' /\ ToSet(tasks') = A \ {iter}
  <2>1. tasks \in Seq(Cells) /\ Distinct(tasks) /\ i \in 1..Len(tasks)
    BY <1>4 DEF Control
  <2>2. /\ RemoveAt(tasks, i) \in Seq(Cells) /\ Distinct(RemoveAt(tasks, i))
        /\ ToSet(RemoveAt(tasks, i)) = ToSet(tasks) \ {tasks[i]}
    BY <2>1, TaskRemoved
  <2> QED BY <1>3, <1>4, <2>2 DEF Distinct
<1> HIDE DEF W, S, A, B, A1
<1>6. Apart(W, S, A1, B)'
  BY <1>1, <1>2, <1>3 DEF Apart
<1>7. Scheduled(S, A1, b, nb)'
  BY <1>1, <1>3, <1>5 DEF Scheduled
<1>8. Control'
  BY <1>1, <1>2, <1>5 DEF Control
<1> QED BY <1>1, <1>4, <1>6, <1>7, <1>8 DEF Shape, W, S, B, A1

(***************************************************************************)
(* The invariant                                                           *)
(***************************************************************************)
\* The lists of a Shape are those read off the pointers, now ...
LEMMA Names ==
  ASSUME NEW w, NEW nw, NEW s, NEW ns, NEW a, NEW na, NEW b, NEW nb,
         Shape(w, nw, s, ns, a, na, b, nb)
  PROVE  /\ Wishes = w /\ Jobs = s /\ Ahead = a /\ Behind = b
         /\ Len(w) = nw /\ Len(s) = ns /\ Len(a) = na /\ Len(b) = nb
<1>1. /\ AList(wishlist, w, nw) /\ AList(schedules, s, ns)
      /\ ListAhead(a, na) /\ ListBehind(b, nb)
  BY DEF Shape
<1>2. /\ Path(next, wishlist, w, nw) /\ Path(next, schedules, s, ns)
      /\ Path(next, IF pc \in Taking THEN iter ELSE NULL, a, na)
      /\ Path(next, IF pc \in Giving THEN first_wish ELSE NULL, b, nb)
  BY <1>1 DEF AList, ListAhead, ListBehind, Listed
<1>3. Wishes = w /\ Jobs = s /\ Ahead = a /\ Behind = b
  BY <1>2, ChainIs DEF Wishes, Jobs, Ahead, Behind, Chain
<1>4. Len(w) = nw /\ Len(s) = ns /\ Len(a) = na /\ Len(b) = nb
  BY <1>2 DEF Path
<1> QED BY <1>3, <1>4

\* ... and after the step.
LEMMA NamesNext ==
  ASSUME NEW w, NEW nw, NEW s, NEW ns, NEW a, NEW na, NEW b, NEW nb,
         Shape(w, nw, s, ns, a, na, b, nb)'
  PROVE  /\ Wishes' = w /\ Jobs' = s /\ Ahead' = a /\ Behind' = b
         /\ Len(w) = nw /\ Len(s) = ns /\ Len(a) = na /\ Len(b) = nb
<1>1. /\ AList(wishlist, w, nw)' /\ AList(schedules, s, ns)'
      /\ ListAhead(a, na)' /\ ListBehind(b, nb)'
  BY DEF Shape
<1>2. /\ Path(next', wishlist', w, nw) /\ Path(next', schedules', s, ns)
      /\ Path(next', IF pc' \in Taking THEN iter' ELSE NULL, a, na)
      /\ Path(next', IF pc' \in Giving THEN first_wish' ELSE NULL, b, nb)
  BY <1>1 DEF AList, ListAhead, ListBehind, Listed, Taking, Giving
<1>3. Wishes' = w /\ Jobs' = s /\ Ahead' = a /\ Behind' = b
  BY <1>2, ChainIs DEF Wishes, Jobs, Ahead, Behind, Chain, Taking, Giving
<1>4. Len(w) = nw /\ Len(s) = ns /\ Len(a) = na /\ Len(b) = nb
  BY <1>2 DEF Path
<1> QED BY <1>3, <1>4

\* Any lists with that Shape will do, now ...
LEMMA Found ==
  ASSUME NEW w, NEW nw, NEW s, NEW ns, NEW a, NEW na, NEW b, NEW nb,
         Control, Shape(w, nw, s, ns, a, na, b, nb)
  PROVE  IInv
BY Names DEF IInv

\* ... and after the step.
LEMMA FoundNext ==
  ASSUME NEW w, NEW nw, NEW s, NEW ns, NEW a, NEW na, NEW b, NEW nb,
         Control', Shape(w, nw, s, ns, a, na, b, nb)'
  PROVE  IInv'
BY NamesNext DEF IInv

\* It holds when on_worker_start runs.
LEMMA InitInv == Init => IInv
<1> SUFFICES ASSUME Init PROVE IInv
  OBVIOUS
<1> DEFINE e == [i \in 1..0 |-> NULL]
<1>1. e \in [1..0 -> Cells]
  OBVIOUS
<1> HIDE DEF e
<1>2. Members(e, 0) = {} /\ ToSet(tasks) = {} /\ tasks \in Seq(Cells) /\ Distinct(tasks)
  BY DEF Members, ToSet, Init, Distinct
<1>3. \A bb : Listed(next, prev, bb, NULL, e, 0)
  BY <1>1 DEF Listed, Path
<1>4. Control
  BY <1>2, CellsAssumption DEF Init, Control, Pointers
<1>5. /\ AList(wishlist, e, 0) /\ AList(schedules, e, 0)
      /\ ListAhead(e, 0) /\ ListBehind(e, 0)
  BY <1>3 DEF Init, AList, ListAhead, ListBehind, Taking, Giving
<1>6. /\ pc \notin Taking /\ pc \notin Giving /\ Apart({}, {}, {}, {})
      /\ Scheduled({}, {}, e, 0)
  BY <1>2 DEF Init, Apart, Scheduled, Taking, Giving
<1>7. Shape(e, 0, e, 0, e, 0, e, 0)
  BY <1>2, <1>5, <1>6 DEF Shape, LastWish, Taking, Giving
<1> QED BY <1>4, <1>7, Found

\* Every step keeps it.
LEMMA StepInv == IInv /\ [Next]_vars => IInv'
<1> SUFFICES ASSUME IInv, [Next]_vars PROVE IInv'
  OBVIOUS
<1>0. Control
  BY DEF IInv
<1>1. PICK w, nw, s, ns, a, na, b, nb : Shape(w, nw, s, ns, a, na, b, nb)
  BY DEF IInv
<1>2. ASSUME NEW c \in Cells, PushWish(c) PROVE IInv'
  BY <1>0, <1>1, <1>2, PushWishStep, FoundNext
<1>3. ASSUME NEW c \in Cells, PushSelf(c) PROVE IInv'
  BY <1>0, <1>1, <1>3, PushSelfStep, FoundNext
<1>4. CASE TakeWishes
  BY <1>0, <1>1, <1>4, TakeWishesStep, FoundNext
<1>5. CASE TurnAround
  BY <1>0, <1>1, <1>5, TurnAroundStep, FoundNext
<1>6. CASE Schedule
  BY <1>0, <1>1, <1>6, ScheduleStep, FoundNext
<1>7. CASE Splice
  BY <1>0, <1>1, <1>7, SpliceStep, FoundNext
<1>8. ASSUME NEW i \in 1..Len(tasks), Run(i) PROVE IInv'
  BY <1>0, <1>1, <1>8, RunStep, FoundNext
<1>9. CASE JobReturns \/ OtherCode \/ BeginClear \/ Cleared
  BY <1>0, <1>1, <1>9, QuietStep, FoundNext
<1>10. CASE BeginClearWishes
  BY <1>0, <1>1, <1>10, BeginClearWishesStep, FoundNext
<1>11. CASE ClearWish
  BY <1>0, <1>1, <1>11, ClearWishStep, FoundNext
<1>12. CASE BeginUnschedule
  BY <1>0, <1>1, <1>12, BeginUnscheduleStep, FoundNext
<1>13. CASE Unschedule
  BY <1>0, <1>1, <1>13, UnscheduleStep, FoundNext
<1>14. CASE UNCHANGED vars
  <2>1. Control'
    BY <1>0, <1>14 DEF Control, vars, cells, heads, locals, Distinct
  <2>2. Shape(w, nw, s, ns, a, na, b, nb)'
    BY <1>1, <1>14 DEF Shape, AList, ListAhead, ListBehind, LastWish, Apart, Scheduled,
      Taking, Giving, vars, cells, heads, locals
  <2> QED BY <2>1, <2>2, FoundNext
<1> QED BY <1>2, <1>3, <1>4, <1>5, <1>6, <1>7, <1>8, <1>9, <1>10, <1>11, <1>12, <1>13,
  <1>14 DEF Next

\* IInv is an invariant of the pushes, of load_request_handler(), of the jobs and of
\* the clearing of the lists, in any order they may come.
THEOREM Invariant == Spec => []IInv
BY InitInv, StepInv, PTL DEF Spec

(***************************************************************************)
(* What follows from it                                                    *)
(***************************************************************************)
\* ToSet, by positions
LEMMA Positions ==
  ASSUME NEW S, NEW t \in Seq(S)
  PROVE  ToSet(t) = Members(t, Len(t))
BY DEF ToSet, Members

\* A function on 1..n is a sequence.
LEMMA AListIsASequence ==
  ASSUME NEW n \in Nat, NEW x \in [1..n -> Cells]
  PROVE  x \in Seq(Cells) /\ Len(x) = n
OBVIOUS

\* What the backward pointers of a list are
LEMMA BackLinks ==
  ASSUME NEW p, NEW x, NEW n, AList(p, x, n)
  PROVE  \A i \in 1..n : prev[x[i]] = IF i = 1 THEN NULL ELSE x[i - 1]
<1>1. /\ n \in Nat /\ (n > 0 => prev[x[1]] = NULL)
      /\ \A i \in 2..n : prev[x[i]] = x[i - 1]
  BY DEF AList, Listed, Path
<1>2. \A i \in 1..n : n > 0 /\ (i = 1 \/ i \in 2..n)
  BY <1>1
<1> QED BY <1>1, <1>2

\* What Reverse does, and what it leaves to a concatenation
LEMMA Reversed ==
  ASSUME NEW t \in Seq(Cells), NEW u \in Seq(Cells)
  PROVE  /\ Reverse(t) \in Seq(Cells) /\ Len(Reverse(t)) = Len(t)
         /\ \A i \in 1..Len(t) : Reverse(t)[i] = t[Len(t) - i + 1]
         /\ ToSet(Reverse(t) \o u) = ToSet(t) \cup ToSet(u)
<1> DEFINE r == Reverse(t)
           n == Len(t)
           m == Len(u)
           x == r \o u
<1>1. n \in Nat /\ m \in Nat /\ t \in [1..n -> Cells] /\ u \in [1..m -> Cells]
  OBVIOUS
<1>2. r = [i \in 1..n |-> t[n - i + 1]]
  BY DEF Reverse
<1>3. \A i \in 1..n : n - i + 1 \in 1..n /\ n - (n - i + 1) + 1 = i
  BY <1>1
<1>4. r \in [1..n -> Cells]
  BY <1>1, <1>2, <1>3
<1>5. r \in Seq(Cells) /\ Len(r) = n
  BY <1>1, <1>4
<1>6. /\ x \in Seq(Cells) /\ Len(x) = n + m
      /\ \A i \in 1..(n + m) : x[i] = IF i <= n THEN r[i] ELSE u[i - n]
  <2>1. /\ r \o u \in Seq(Cells) /\ Len(r \o u) = Len(r) + Len(u)
        /\ \A i \in 1..Len(r) + Len(u) :
             (r \o u)[i] = IF i <= Len(r) THEN r[i] ELSE u[i - Len(r)]
    <3> HIDE DEF r
    <3> QED BY <1>5, ConcatProperties
  <2> HIDE DEF r
  <2> QED BY <1>5, <2>1
<1>7. /\ ToSet(x) = Members(x, n + m) /\ ToSet(t) = Members(t, n)
      /\ ToSet(u) = Members(u, m)
  BY <1>6, Positions
<1> HIDE DEF r, n, m, x
<1>8. \A i \in 1..n : r[i] = t[n - i + 1]
  BY <1>2
<1>9. Members(x, n + m) = Members(t, n) \cup Members(u, m)
  <2>1. ASSUME NEW i \in 1..(n + m) PROVE x[i] \in Members(t, n) \cup Members(u, m)
    <3>1. CASE i <= n
      <4>1. i \in 1..n
        BY <1>1, <3>1
      <4>2. x[i] = t[n - i + 1] /\ n - i + 1 \in 1..n
        BY <1>3, <1>6, <1>8, <3>1, <4>1
      <4> QED BY <4>2 DEF Members
    <3>2. CASE i > n
      <4>1. i - n \in 1..m /\ x[i] = u[i - n]
        BY <1>1, <1>6, <3>2
      <4> QED BY <4>1 DEF Members
    <3> QED BY <1>1, <3>1, <3>2
  <2>2. ASSUME NEW i \in 1..n PROVE t[i] \in Members(x, n + m)
    <3>1. n - i + 1 \in 1..n /\ n - i + 1 \in 1..(n + m) /\ n - i + 1 <= n
      BY <1>1
    <3>2. x[n - i + 1] = r[n - i + 1]
      BY <1>6, <3>1
    <3>3. r[n - i + 1] = t[i]
      BY <1>3, <1>8, <3>1
    <3> QED BY <3>1, <3>2, <3>3 DEF Members
  <2>3. ASSUME NEW i \in 1..m PROVE u[i] \in Members(x, n + m)
    <3>1. n + i \in 1..(n + m) /\ x[n + i] = u[i]
      BY <1>1, <1>6
    <3> QED BY <3>1 DEF Members
  <2> QED BY <2>1, <2>2, <2>3 DEF Members
<1> QED BY <1>5, <1>7, <1>8, <1>9 DEF r, n, x, m

\* The lists of the invariant, as the properties name them
LEMMA Places ==
  ASSUME IInv
  PROVE  /\ Control
         /\ Shape(Wishes, Len(Wishes), Jobs, Len(Jobs), Ahead, Len(Ahead),
                  Behind, Len(Behind))
         /\ Wishes \in Seq(Cells) /\ Jobs \in Seq(Cells) /\ Ahead \in Seq(Cells)
         /\ Behind \in Seq(Cells)
         /\ ToSet(Wishes) = Members(Wishes, Len(Wishes))
         /\ ToSet(Jobs) = Members(Jobs, Len(Jobs))
         /\ ToSet(Ahead) = Members(Ahead, Len(Ahead))
         /\ ToSet(Behind) = Members(Behind, Len(Behind))
         /\ Apart(ToSet(Wishes), ToSet(Jobs), ToSet(Ahead), ToSet(Behind))
<1>1. /\ Control
      /\ Shape(Wishes, Len(Wishes), Jobs, Len(Jobs), Ahead, Len(Ahead),
               Behind, Len(Behind))
  BY DEF IInv
<1>2. /\ Wishes \in [1..Len(Wishes) -> Cells] /\ Len(Wishes) \in Nat
      /\ Jobs \in [1..Len(Jobs) -> Cells] /\ Len(Jobs) \in Nat
      /\ Ahead \in [1..Len(Ahead) -> Cells] /\ Len(Ahead) \in Nat
      /\ Behind \in [1..Len(Behind) -> Cells] /\ Len(Behind) \in Nat
  BY <1>1 DEF Shape, AList, ListAhead, ListBehind, Listed, Path
<1>3. /\ Wishes \in Seq(Cells) /\ Jobs \in Seq(Cells) /\ Ahead \in Seq(Cells)
      /\ Behind \in Seq(Cells)
  BY <1>2, AListIsASequence
<1>4. /\ ToSet(Wishes) = Members(Wishes, Len(Wishes))
      /\ ToSet(Jobs) = Members(Jobs, Len(Jobs))
      /\ ToSet(Ahead) = Members(Ahead, Len(Ahead))
      /\ ToSet(Behind) = Members(Behind, Len(Behind))
  BY <1>3, Positions
<1> QED BY <1>1, <1>3, <1>4 DEF Shape

\* The domains are part of it.
LEMMA TypeFollows == IInv => TypeOK
<1> SUFFICES ASSUME IInv PROVE TypeOK
  OBVIOUS
<1>1. Control
  BY DEF IInv
<1>2. ToSet(tasks) \subseteq Cells
  BY <1>1 DEF Control, ToSet
<1> QED BY <1>1, <1>2 DEF Control, TypeOK

\* Both heads are heads of lists.
LEMMA LinksFollow == IInv => WellLinked
<1> SUFFICES ASSUME IInv PROVE WellLinked
  OBVIOUS
<1>1. /\ ToSet(Wishes) \subseteq used /\ ToSet(Jobs) \subseteq used
  BY Places DEF Apart
<1>2. AList(wishlist, Wishes, Len(Wishes)) /\ AList(schedules, Jobs, Len(Jobs))
  BY DEF IInv, Shape
<1>3. \A i \in 1..Len(Wishes) : prev[Wishes[i]] = IF i = 1 THEN NULL ELSE Wishes[i - 1]
  BY <1>2, BackLinks
<1>4. \A i \in 1..Len(Jobs) : prev[Jobs[i]] = IF i = 1 THEN NULL ELSE Jobs[i - 1]
  BY <1>2, BackLinks
<1>5. ASSUME NEW head \in {wishlist, schedules}
      PROVE  /\ ToSet(Chain(head)) \subseteq used
             /\ \A i \in 1..Len(Chain(head)) :
                  prev[Chain(head)[i]] = IF i = 1 THEN NULL ELSE Chain(head)[i - 1]
  <2>1. CASE head = wishlist
    BY <1>1, <1>3, <2>1 DEF Wishes
  <2>2. CASE head = schedules
    BY <1>1, <1>4, <2>2 DEF Jobs
  <2> QED BY <2>1, <2>2
<1> QED BY <1>5 DEF WellLinked

\* The cells in hand are those ahead and behind.
LEMMA PlacesFollow == IInv => EveryJobHasAPlace
<1> SUFFICES ASSUME IInv PROVE EveryJobHasAPlace
  OBVIOUS
<1> DEFINE W == ToSet(Wishes)
           S == ToSet(Jobs)
           A == ToSet(Ahead)
           B == ToSet(Behind)
           R == {running} \ {NULL}
           H == ToSet(InHand)
<1>1. /\ Control /\ Ahead \in Seq(Cells) /\ Behind \in Seq(Cells) /\ Apart(W, S, A, B)
  BY Places
<1>2. /\ pc \notin Taking => A = {}
      /\ pc \notin Giving => B = {}
  <2>1. /\ pc \notin Taking => Members(Ahead, Len(Ahead)) = {}
        /\ pc \notin Giving => Members(Behind, Len(Behind)) = {}
    BY Hands DEF IInv
  <2> QED BY <2>1, Places
<1>3. H = A \cup B
  <2>1. CASE pc = "reverse"
    <3>1. InHand = Reverse(Ahead) \o Behind
      BY <2>1 DEF InHand, OnTheirWay, Ahead, Behind, Taking, Giving
    <3> QED BY <1>1, <3>1, Reversed
  <2>2. CASE pc \in {"splice", "schedule"}
    <3>1. InHand = Behind
      BY <2>2 DEF InHand, Behind, Giving
    <3> QED BY <1>2, <2>2, <3>1 DEF Taking
  <2>3. CASE pc \in {"clear_wishes", "unschedule"}
    <3>1. InHand = Ahead
      BY <2>3 DEF InHand, Ahead, Taking
    <3> QED BY <1>2, <2>3, <3>1 DEF Giving
  <2>4. CASE pc \in {"loop", "frame", "clear"}
    <3>1. InHand = <<>>
      BY <2>4 DEF InHand, OnTheirWay
    <3>2. ToSet(<<>>) = {}
      BY DEF ToSet
    <3> QED BY <1>2, <2>4, <3>1, <3>2 DEF Taking, Giving
  <2> QED BY <1>1, <2>1, <2>2, <2>3, <2>4 DEF Control
<1> HIDE DEF W, S, A, B, H, R
<1>4. /\ used = W \cup S \cup H \cup R
      /\ W \cap S = {} /\ W \cap H = {} /\ W \cap R = {}
      /\ S \cap H = {} /\ S \cap R = {} /\ H \cap R = {}
  BY <1>1, <1>3 DEF Apart, R
<1> DEFINE places == <<W, S, H, R>>
<1>5. /\ Len(places) = 4 /\ places[1] = W /\ places[2] = S /\ places[3] = H
      /\ places[4] = R
  OBVIOUS
<1>6. UNION ToSet(places) = W \cup S \cup H \cup R
  <2>1. ToSet(places) = {W, S, H, R}
    BY <1>5 DEF ToSet
  <2> QED BY <2>1
<1>7. \A i, j \in 1..Len(places) : i # j => places[i] \cap places[j] = {}
  <2> HIDE DEF places
  <2>1. 1..Len(places) = {1, 2, 3, 4}
    BY <1>5
  <2> QED BY <1>4, <1>5, <2>1
<1> HIDE DEF places
<1>8. used = UNION ToSet(places)
  BY <1>4, <1>6
<1> QED BY <1>7, <1>8 DEF EveryJobHasAPlace, places, W, S, H, R, Wishes, Jobs

\* The worker thread has handed over all it took before it gives back the control.
LEMMA TasksFollow == IInv => TasksAreListed
<1> SUFFICES ASSUME IInv, InFrame PROVE ToSet(tasks) = ToSet(Chain(schedules))
  BY DEF TasksAreListed
<1>1. ToSet(tasks) = Members(Jobs, Len(Jobs))
  BY DEF IInv, Shape, Scheduled, InFrame
<1> QED BY <1>1, Places DEF Jobs

\* Every variable stays in its domain: no pointer of the worker thread or of a cell
\* leaves the memory malloc() gives.
THEOREM TypeCorrect == Spec => []TypeOK
BY Invariant, TypeFollows, PTL

\* Both lists can be walked both ways through memory in use, at any time: also while
\* load_request_handler() has its hands in the cells.
THEOREM BothWays == Spec => []WellLinked
BY Invariant, LinksFollow, PTL

\* No job falls out of the lists and none is in two places: turning the wishes
\* around, joining them to the jobs, unlisting and clearing account for every cell.
THEOREM NoneLeakedNorShared == Spec => []EveryJobHasAPlace
BY Invariant, PlacesFollow, PTL

\* Whenever the scheduler or user code has the control, the tasks of the scheduler are
\* those of the listed jobs.
THEOREM TheSchedulerKnows == Spec => []TasksAreListed
BY Invariant, TasksFollow, PTL

\* No cell is freed twice and no task is cancelled that the scheduler does not have.
THEOREM NothingTwice == Spec => []MemorySafe
<1>1. IInv => MemorySafe
  BY DEF IInv, Control, MemorySafe
<1> QED BY <1>1, Invariant, PTL

(***************************************************************************)
(* The two lists are a queue                                               *)
(***************************************************************************)
\* The cells of a list from the k-th on
From(k, x, n) == [i \in 1..(n - k + 1) |-> x[i + k - 1]]

\* The part of a list from its k-th cell on is a list.
LEMMA PathFrom ==
  ASSUME NEW f, NEW p, NEW x, NEW n, Path(f, p, x, n), NEW k \in 1..n
  PROVE  ChainOf(f, x[k]) = From(k, x, n)
<1> DEFINE y == From(k, x, n)
           m == n - k + 1
<1>1. n \in Nat /\ x \in [1..n -> Cells] /\ m \in Nat /\ m > 0
  BY DEF Path
<1>2. /\ \A i \in 1..n : f[x[i]] = IF i = n THEN NULL ELSE x[i + 1]
      /\ \A i, j \in 1..n : x[i] = x[j] => i = j
  BY DEF Path
<1>3. \A i \in 1..m : i + k - 1 \in 1..n /\ y[i] = x[i + k - 1]
  BY <1>1 DEF From
<1>4. y \in [1..m -> Cells]
  BY <1>1, <1>3 DEF From
<1>5. y[1] = x[k]
  BY <1>1, <1>3
<1>6. \A i \in 1..m :
        /\ i + k - 1 = n <=> i = m
        /\ i # m => i + 1 \in 1..m /\ (i + 1) + k - 1 = (i + k - 1) + 1
  BY <1>1
<1> HIDE DEF y, m
<1>7. \A i, j \in 1..m : y[i] = y[j] => i = j
  <2> TAKE i, j \in 1..m
  <2>1. y[i] = y[j] => i + k - 1 = j + k - 1
    BY <1>2, <1>3
  <2> QED BY <1>1, <2>1
<1>8. \A i \in 1..m : f[y[i]] = IF i = m THEN NULL ELSE y[i + 1]
  <2> TAKE i \in 1..m
  <2>1. f[y[i]] = IF i + k - 1 = n THEN NULL ELSE x[i + k - 1 + 1]
    BY <1>2, <1>3
  <2>2. i # m => y[i + 1] = x[i + k - 1 + 1]
    BY <1>3, <1>6
  <2> QED BY <1>6, <2>1, <2>2
<1>9. Path(f, x[k], y, m)
  BY <1>1, <1>4, <1>5, <1>7, <1>8 DEF Path
<1> QED BY <1>9, ChainIs DEF y

\* The jobs on their way to the scheduler, by the lists in hand, now ...
LEMMA Transit ==
  ASSUME NEW w, NEW nw, NEW s, NEW ns, NEW a, NEW na, NEW b, NEW nb,
         Shape(w, nw, s, ns, a, na, b, nb)
  PROVE  /\ pc = "reverse" => OnTheirWay = Reverse(a) \o b
         /\ pc = "schedule" =>
              \A k \in 1..nb : iter = b[k] => OnTheirWay = From(k, b, nb)
         /\ pc \notin {"reverse", "schedule"} => OnTheirWay = <<>>
<1>1. Ahead = a /\ Behind = b
  BY Names
<1>2. pc = "reverse" => OnTheirWay = Reverse(a) \o b
  BY <1>1 DEF OnTheirWay, Ahead, Behind, Taking, Giving
<1>3. ASSUME pc = "schedule", NEW k \in 1..nb, iter = b[k]
      PROVE  OnTheirWay = From(k, b, nb)
  <2>1. Path(next, first_wish, b, nb)
    BY <1>3 DEF Shape, ListBehind, Listed, Giving
  <2>2. ChainOf(next, b[k]) = From(k, b, nb)
    BY <2>1, PathFrom
  <2> QED BY <1>3, <2>2 DEF OnTheirWay, Chain
<1>4. pc \notin {"reverse", "schedule"} => OnTheirWay = <<>>
  BY DEF OnTheirWay
<1> QED BY <1>2, <1>3, <1>4

\* ... and after the step.
LEMMA TransitNext ==
  ASSUME NEW w, NEW nw, NEW s, NEW ns, NEW a, NEW na, NEW b, NEW nb,
         Shape(w, nw, s, ns, a, na, b, nb)'
  PROVE  /\ pc' = "reverse" => OnTheirWay' = Reverse(a) \o b
         /\ pc' = "schedule" =>
              \A k \in 1..nb : iter' = b[k] => OnTheirWay' = From(k, b, nb)
         /\ pc' \notin {"reverse", "schedule"} => OnTheirWay' = <<>>
<1>1. Ahead' = a /\ Behind' = b
  BY NamesNext
<1>2. pc' = "reverse" => OnTheirWay' = Reverse(a) \o b
  BY <1>1 DEF OnTheirWay, Ahead, Behind, Taking, Giving
<1>3. ASSUME pc' = "schedule", NEW k \in 1..nb, iter' = b[k]
      PROVE  OnTheirWay' = From(k, b, nb)
  <2>1. Path(next', first_wish', b, nb)
    BY <1>3 DEF Shape, ListBehind, Listed, Giving
  <2>2. ChainOf(next', b[k]) = From(k, b, nb)
    BY <2>1, PathFrom
  <2> QED BY <1>3, <2>2 DEF OnTheirWay, Chain
<1>4. pc' \notin {"reverse", "schedule"} => OnTheirWay' = <<>>
  BY DEF OnTheirWay
<1> QED BY <1>2, <1>3, <1>4

\* They stay the same when the lists in hand and the pointers do.
LEMMA TransitKept ==
  ASSUME NEW w, NEW nw, NEW s, NEW ns, NEW a, NEW na, NEW b, NEW nb,
         Shape(w, nw, s, ns, a, na, b, nb),
         NEW v, NEW nv, NEW r, NEW nr, Shape(v, nv, r, nr, a, na, b, nb)',
         pc' = pc, iter' = iter
  PROVE  OnTheirWay' = OnTheirWay
<1>1. pc = "schedule" => \E k \in 1..nb : iter = b[k]
  BY DEF Shape, Scheduled
<1>2. CASE pc = "schedule"
  <2>1. PICK k \in 1..nb : iter = b[k]
    BY <1>1, <1>2
  <2> QED BY <1>2, <2>1, Transit, TransitNext
<1>3. CASE pc # "schedule"
  BY <1>3, Transit, TransitNext
<1> QED BY <1>2, <1>3

(***************************************************************************)
(* Sequences                                                               *)
(***************************************************************************)
\* Sequences with the same elements are the same.
LEMMA SameSequence ==
  ASSUME NEW x \in Seq(Cells), NEW y \in Seq(Cells), Len(x) = Len(y),
         \A i \in 1..Len(x) : x[i] = y[i]
  PROVE  x = y
OBVIOUS

\* The reverse of the empty sequence
LEMMA NoneReversed == Reverse(<<>>) = <<>> /\ Reverse(<<>>) \o <<>> = <<>>
BY DEF Reverse

\* The last wish, which is the first of the list, comes last in the queue.
LEMMA LastWished ==
  ASSUME NEW x, NEW n \in Nat, x \in [1..n -> Cells], NEW c \in Cells
  PROVE  Reverse(Shifted(c, x, n)) = Append(Reverse(x), c)
<1> DEFINE y == Shifted(c, x, n)
           u == Reverse(y)
           v == Append(Reverse(x), c)
<1>1. x \in Seq(Cells) /\ Len(x) = n
  BY AListIsASequence
<1>2. /\ y \in [1..(n + 1) -> Cells] /\ y[1] = c
      /\ \A i \in 2..(n + 1) : y[i] = x[i - 1]
  BY DEF Shifted
<1> HIDE DEF y
<1>3. y \in Seq(Cells) /\ Len(y) = n + 1
  BY <1>2, AListIsASequence
<1>4. /\ Reverse(x) \in Seq(Cells) /\ Len(Reverse(x)) = n
      /\ \A i \in 1..n : Reverse(x)[i] = x[n - i + 1]
  BY <1>1, Reversed
<1>5. /\ u \in Seq(Cells) /\ Len(u) = n + 1
      /\ \A i \in 1..(n + 1) : u[i] = y[n + 1 - i + 1]
  BY <1>3, Reversed
<1>6. /\ v \in Seq(Cells) /\ Len(v) = n + 1 /\ v[n + 1] = c
      /\ \A i \in 1..n : v[i] = Reverse(x)[i]
  BY <1>4
<1> HIDE DEF u, v
<1>7. ASSUME NEW i \in 1..(n + 1) PROVE u[i] = v[i]
  <2>1. CASE i = n + 1
    BY <1>2, <1>5, <1>6, <2>1
  <2>2. CASE i \in 1..n
    <3>1. n + 1 - i + 1 \in 2..(n + 1) /\ n + 1 - i + 1 - 1 = n - i + 1
      BY <2>2
    <3>2. u[i] = x[n - i + 1]
      BY <1>2, <1>5, <3>1
    <3> QED BY <1>4, <1>6, <2>2, <3>2
  <2> QED BY <2>1, <2>2
<1>8. u = v
  BY <1>5, <1>6, <1>7, SameSequence
<1> QED BY <1>8 DEF u, v, y

\* Turning one cell around leaves the order of the jobs as it was.
LEMMA FirstTurned ==
  ASSUME NEW a, NEW n \in Nat, n > 0, a \in [1..n -> Cells], NEW b, NEW m \in Nat,
         b \in [1..m -> Cells]
  PROVE  Reverse(Rest(a, n)) \o Shifted(a[1], b, m) = Reverse(a) \o b
<1> DEFINE a1 == Rest(a, n)
           b1 == Shifted(a[1], b, m)
           u == Reverse(a1) \o b1
           v == Reverse(a) \o b
<1>1. /\ a \in Seq(Cells) /\ Len(a) = n /\ b \in Seq(Cells) /\ Len(b) = m
      /\ 1 \in 1..n
  BY AListIsASequence
<1>2. /\ a1 \in [1..(n - 1) -> Cells] /\ n - 1 \in Nat
      /\ \A i \in 1..(n - 1) : a1[i] = a[i + 1]
  BY DEF Rest
<1>3. /\ b1 \in [1..(m + 1) -> Cells] /\ m + 1 \in Nat /\ b1[1] = a[1]
      /\ \A i \in 2..(m + 1) : b1[i] = b[i - 1]
  BY <1>1 DEF Shifted
<1> HIDE DEF a1, b1
<1>4. /\ a1 \in Seq(Cells) /\ Len(a1) = n - 1 /\ b1 \in Seq(Cells) /\ Len(b1) = m + 1
  BY <1>2, <1>3, AListIsASequence
<1>5. /\ Reverse(a) \in Seq(Cells) /\ Len(Reverse(a)) = n
      /\ \A i \in 1..n : Reverse(a)[i] = a[n - i + 1]
  BY <1>1, Reversed
<1>6. /\ Reverse(a1) \in Seq(Cells) /\ Len(Reverse(a1)) = n - 1
      /\ \A i \in 1..(n - 1) : Reverse(a1)[i] = a1[n - 1 - i + 1]
  BY <1>4, Reversed
<1> DEFINE r == Reverse(a)
           r1 == Reverse(a1)
<1> HIDE DEF r, r1
<1>7. /\ v \in Seq(Cells) /\ Len(v) = n + m
      /\ \A i \in 1..(n + m) : v[i] = IF i <= n THEN r[i] ELSE b[i - n]
  <2>1. r \in Seq(Cells) /\ Len(r) = n /\ v = r \o b
    BY <1>5 DEF r
  <2> HIDE DEF v
  <2>2. /\ r \o b \in Seq(Cells) /\ Len(r \o b) = Len(r) + Len(b)
        /\ \A i \in 1..Len(r) + Len(b) :
             (r \o b)[i] = IF i <= Len(r) THEN r[i] ELSE b[i - Len(r)]
    BY <1>1, <2>1, ConcatProperties
  <2> QED BY <1>1, <2>1, <2>2
<1>8. /\ u \in Seq(Cells) /\ Len(u) = n - 1 + (m + 1)
      /\ \A i \in 1..(n - 1 + (m + 1)) :
           u[i] = IF i <= n - 1 THEN r1[i] ELSE b1[i - (n - 1)]
  <2>1. r1 \in Seq(Cells) /\ Len(r1) = n - 1 /\ u = r1 \o b1
    BY <1>6 DEF r1
  <2> HIDE DEF u
  <2>2. /\ r1 \o b1 \in Seq(Cells) /\ Len(r1 \o b1) = Len(r1) + Len(b1)
        /\ \A i \in 1..Len(r1) + Len(b1) :
             (r1 \o b1)[i] = IF i <= Len(r1) THEN r1[i] ELSE b1[i - Len(r1)]
    BY <1>4, <2>1, ConcatProperties
  <2> QED BY <1>4, <2>1, <2>2
<1>9. n - 1 + (m + 1) = n + m
  OBVIOUS
<1> HIDE DEF u, v
<1>10. ASSUME NEW i \in 1..(n + m) PROVE u[i] = v[i]
  <2>1. CASE i \in 1..(n - 1)
    <3>1. n - 1 - i + 1 \in 1..(n - 1) /\ n - 1 - i + 1 + 1 = n - i + 1 /\ i <= n - 1
          /\ i <= n /\ i \in 1..n
      BY <2>1
    <3>2. u[i] = a1[n - 1 - i + 1]
      BY <1>6, <1>8, <1>9, <2>1, <3>1 DEF r1
    <3>3. a1[n - 1 - i + 1] = a[n - i + 1]
      BY <1>2, <3>1
    <3> QED BY <1>5, <1>7, <3>1, <3>2, <3>3 DEF r
  <2>2. CASE i = n
    <3>1. n - i + 1 = 1 /\ i - (n - 1) = 1 /\ i <= n /\ ~(i <= n - 1) /\ i \in 1..n
      BY <1>1, <2>2
    <3> QED BY <1>3, <1>5, <1>7, <1>8, <1>9, <3>1 DEF r
  <2>3. CASE i > n
    <3>1. /\ i - (n - 1) \in 2..(m + 1) /\ i - (n - 1) - 1 = i - n
          /\ ~(i <= n - 1) /\ ~(i <= n)
      BY <2>3
    <3> QED BY <1>3, <1>7, <1>8, <1>9, <3>1
  <2> QED BY <2>1, <2>2, <2>3
<1>11. u = v
  BY <1>7, <1>8, <1>9, <1>10, SameSequence
<1> QED BY <1>11 DEF u, v, a1, b1

\* The empty sequence adds nothing.
LEMMA NothingAppended == ASSUME NEW t \in Seq(Cells), NEW u \in [1..0 -> Cells]
                         PROVE  t \o u = t
<1>1. u \in Seq(Cells) /\ Len(u) = 0 /\ 0 \in Nat
  BY AListIsASequence
<1>2. /\ t \o u \in Seq(Cells) /\ Len(t \o u) = Len(t)
      /\ \A i \in 1..Len(t) : (t \o u)[i] = t[i]
  <2>1. /\ t \o u \in Seq(Cells) /\ Len(t \o u) = Len(t) + Len(u)
        /\ \A i \in 1..Len(t) + Len(u) :
             (t \o u)[i] = IF i <= Len(t) THEN t[i] ELSE u[i - Len(t)]
    BY <1>1, ConcatProperties
  <2> QED BY <1>1, <2>1
<1> QED BY <1>2, SameSequence

\* A list of no cells is the empty sequence.
LEMMA NoneLeft == ASSUME NEW u \in [1..0 -> Cells] PROVE u = <<>> /\ Reverse(u) = <<>>
<1>1. u = <<>>
  OBVIOUS
<1> QED BY <1>1, NoneReversed

\* The lists of the invariant as sequences
LEMMA Lists ==
  ASSUME NEW w, NEW nw, NEW s, NEW ns, NEW a, NEW na, NEW b, NEW nb,
         Shape(w, nw, s, ns, a, na, b, nb)
  PROVE  /\ nw \in Nat /\ w \in [1..nw -> Cells] /\ w \in Seq(Cells)
         /\ na \in Nat /\ a \in [1..na -> Cells] /\ a \in Seq(Cells)
         /\ nb \in Nat /\ b \in [1..nb -> Cells] /\ b \in Seq(Cells)
<1>1. /\ w \in [1..nw -> Cells] /\ nw \in Nat /\ a \in [1..na -> Cells] /\ na \in Nat
      /\ b \in [1..nb -> Cells] /\ nb \in Nat
  BY DEF Shape, AList, ListAhead, ListBehind, Listed, Path
<1> QED BY <1>1, AListIsASequence

\* A cell that malloc() gives is no job in the queue.
LEMMA FreshIsNotPending ==
  ASSUME IInv, NEW c \in Cells, c \notin used
  PROVE  c \notin Queue!Pending
<1>1. PICK w, nw, s, ns, a, na, b, nb : Shape(w, nw, s, ns, a, na, b, nb)
  BY DEF IInv
<1> DEFINE W == Members(w, nw)
           S == Members(s, ns)
           A == Members(a, na)
           B == Members(b, nb)
<1>2. /\ nw \in Nat /\ w \in [1..nw -> Cells] /\ w \in Seq(Cells)
      /\ na \in Nat /\ a \in [1..na -> Cells] /\ a \in Seq(Cells)
      /\ nb \in Nat /\ b \in [1..nb -> Cells] /\ b \in Seq(Cells)
      /\ Wishes = w /\ Len(w) = nw /\ Len(a) = na /\ Len(b) = nb
  BY <1>1, Lists, Names
<1>3. ToSet(a) = A /\ ToSet(b) = B /\ ToSet(w) = W
  BY <1>2, Positions
<1>4. Apart(W, S, A, B) /\ Scheduled(S, A, b, nb)
  BY <1>1 DEF Shape
<1> HIDE DEF W, S, A, B
<1>5. c \notin W /\ c \notin S /\ c \notin A /\ c \notin B
  BY <1>4 DEF Apart
<1>6. c \notin ToSet(Reverse(w))
  <2>1. <<>> \in [1..0 -> Cells] /\ <<>> \in Seq(Cells) /\ ToSet(<<>>) = {}
    BY DEF ToSet
  <2>2. /\ Reverse(w) \in Seq(Cells)
        /\ ToSet(Reverse(w) \o <<>>) = ToSet(w) \cup ToSet(<<>>)
    BY <1>2, <2>1, Reversed
  <2>3. Reverse(w) \o <<>> = Reverse(w)
    BY <2>1, <2>2, NothingAppended
  <2> QED BY <1>3, <1>5, <2>1, <2>2, <2>3
<1>7. c \notin ToSet(OnTheirWay)
  <2>1. CASE pc = "reverse"
    <3>1. OnTheirWay = Reverse(a) \o b
      BY <1>1, <2>1, Transit
    <3>2. ToSet(Reverse(a) \o b) = A \cup B
      BY <1>2, <1>3, Reversed
    <3> QED BY <1>5, <3>1, <3>2
  <2>2. CASE pc = "schedule"
    <3>1. PICK k \in 1..nb : iter = b[k]
      BY <1>4, <2>2 DEF Scheduled
    <3>2. OnTheirWay = From(k, b, nb)
      BY <1>1, <2>2, <3>1, Transit
    <3> DEFINE m == nb - k + 1
               y == From(k, b, nb)
    <3>3. m \in Nat /\ \A i \in 1..m : i + k - 1 \in 1..nb /\ y[i] = b[i + k - 1]
      BY <1>2, <3>1 DEF From
    <3>4. y \in [1..m -> Cells]
      BY <1>2, <3>3 DEF From
    <3> HIDE DEF m, y
    <3>5. y \in Seq(Cells) /\ Len(y) = m
      BY <3>3, <3>4, AListIsASequence
    <3>6. ToSet(y) = Members(y, m)
      BY <3>5, Positions
    <3>7. Members(y, m) \subseteq B
      BY <3>3 DEF Members, B
    <3> QED BY <1>5, <3>2, <3>6, <3>7 DEF y
  <2>3. CASE pc \notin {"reverse", "schedule"}
    <3>1. OnTheirWay = <<>>
      BY <1>1, <2>3, Transit
    <3> QED BY <3>1 DEF ToSet
  <2> QED BY <2>1, <2>2, <2>3
<1>8. c \notin ToSet(tasks)
  <2>1. CASE pc = "schedule"
    <3>1. PICK k \in 1..nb : ToSet(tasks) = S \cup {b[i] : i \in 1..(k - 1)}
      BY <1>4, <2>1 DEF Scheduled
    <3>2. \A i \in 1..(k - 1) : b[i] \in B
      BY <1>2, <3>1 DEF B, Members
    <3> QED BY <1>5, <3>1, <3>2
  <2>2. CASE pc # "schedule"
    <3>1. ToSet(tasks) \subseteq S \cup A \cup B
      BY <1>4, <2>2 DEF Scheduled, B
    <3> QED BY <1>5, <3>1
  <2> QED BY <2>1, <2>2
<1> QED BY <1>2, <1>6, <1>7, <1>8 DEF Queue!Pending, Queue!ToSet, ToSet, Wishes

\* A step that changes none of what the queue is made of
LEMMA QueueStutters ==
  ASSUME Wishes' = Wishes, OnTheirWay' = OnTheirWay, tasks' = tasks
  PROVE  UNCHANGED Queue!vars
BY DEF Queue!vars, Wishes

\* A push by another thread is a wish.
LEMMA WishIsWish ==
  ASSUME IInv, NEW c \in Cells, PushWish(c) PROVE Queue!Wish(c)
<1>0. Control
  BY DEF IInv
<1>1. PICK w, nw, s, ns, a, na, b, nb : Shape(w, nw, s, ns, a, na, b, nb)
  BY DEF IInv
<1>2. Shape(Shifted(c, w, nw), nw + 1, s, ns, a, na, b, nb)'
  BY <1>0, <1>1, PushWishStep
<1>3. Wishes = w /\ Wishes' = Shifted(c, w, nw)
  BY <1>1, <1>2, Names, NamesNext
<1>4. Reverse(Wishes') = Append(Reverse(Wishes), c)
  BY <1>1, <1>3, Lists, LastWished
<1>5. OnTheirWay' = OnTheirWay
  <2>1. pc' = pc /\ iter' = iter
    BY DEF PushWish, locals
  <2> QED BY <1>1, <1>2, <2>1, TransitKept
<1>6. c \notin Queue!Pending
  BY FreshIsNotPending DEF PushWish
<1>7. tasks' = tasks
  BY DEF PushWish
<1> QED BY <1>4, <1>5, <1>6, <1>7 DEF Queue!Wish, Wishes

\* A push by the worker thread is handed over at once.
LEMMA SelfIsSelf ==
  ASSUME IInv, NEW c \in Cells, PushSelf(c) PROVE Queue!PushSelf(c)
<1>0. Control
  BY DEF IInv
<1>1. PICK w, nw, s, ns, a, na, b, nb : Shape(w, nw, s, ns, a, na, b, nb)
  BY DEF IInv
<1>2. Shape(w, nw, Shifted(c, s, ns), ns + 1, a, na, b, nb)'
  BY <1>0, <1>1, PushSelfStep
<1>3. Wishes' = Wishes
  BY <1>1, <1>2, Names, NamesNext
<1>4. OnTheirWay' = OnTheirWay
  <2>1. pc' = pc /\ iter' = iter
    BY DEF PushSelf, locals
  <2> QED BY <1>1, <1>2, <2>1, TransitKept
<1>5. c \notin Queue!Pending
  BY FreshIsNotPending DEF PushSelf
<1>6. tasks' = Append(tasks, c)
  BY DEF PushSelf
<1> QED BY <1>3, <1>4, <1>5, <1>6 DEF Queue!PushSelf, Wishes

\* Taking the wishlist takes the wishes.
LEMMA TakeIsTake ==
  ASSUME IInv, TakeWishes PROVE Queue!Take \/ UNCHANGED Queue!vars
<1>0. Control
  BY DEF IInv
<1>1. PICK w, nw, s, ns, a, na, b, nb : Shape(w, nw, s, ns, a, na, b, nb)
  BY DEF IInv
<1>2. tasks' = tasks /\ pc \in {"loop", "frame"}
  BY DEF TakeWishes, InFrame
<1>3. OnTheirWay = <<>>
  BY <1>1, <1>2, Transit
<1>4. CASE wishlist = NULL
  <2>1. Shape(w, nw, s, ns, a, na, b, nb)'
    BY <1>0, <1>1, <1>4, TakeWishesStep
  <2>2. Wishes' = Wishes
    BY <1>1, <2>1, Names, NamesNext
  <2>3. pc' = pc
    BY <1>4 DEF TakeWishes
  <2>4. OnTheirWay' = <<>>
    BY <1>2, <2>1, <2>3, TransitNext
  <2> QED BY <1>2, <1>3, <2>2, <2>4, QueueStutters
<1>5. CASE wishlist # NULL
  <2>1. Shape(a, na, s, ns, w, nw, b, nb)'
    BY <1>0, <1>1, <1>5, TakeWishesStep
  <2>2. pc' = "reverse"
    BY <1>5 DEF TakeWishes
  <2>3. na = 0 /\ nb = 0
    BY <1>1, <1>2, Hands DEF Taking, Giving
  <2>4. Wishes = w /\ Wishes' = a /\ OnTheirWay' = Reverse(w) \o b
    BY <1>1, <2>1, <2>2, Names, NamesNext, TransitNext
  <2>5. /\ w \in Seq(Cells) /\ a \in [1..0 -> Cells] /\ b \in [1..0 -> Cells]
        /\ <<>> \in Seq(Cells)
    BY <1>1, <2>3, Lists
  <2>6. Reverse(w) \in Seq(Cells) /\ Reverse(a) = <<>>
    BY <2>5, Reversed, NoneLeft
  <2>7. OnTheirWay' = Reverse(Wishes) /\ Reverse(Wishes') = <<>>
    BY <2>4, <2>5, <2>6, NothingAppended
  <2> QED BY <1>2, <1>3, <2>7 DEF Queue!Take, Wishes
<1> QED BY <1>4, <1>5

\* Turning the list around is not seen from outside.
LEMMA TurningIsUnseen ==
  ASSUME IInv, TurnAround PROVE UNCHANGED Queue!vars
<1>0. Control
  BY DEF IInv
<1>1. PICK w, nw, s, ns, a, na, b, nb : Shape(w, nw, s, ns, a, na, b, nb)
  BY DEF IInv
<1> DEFINE a1 == Rest(a, na)
           b1 == Shifted(a[1], b, nb)
<1>2. Shape(w, nw, s, ns, a1, na - 1, b1, nb + 1)'
  BY <1>0, <1>1, TurnAroundStep
<1>3. /\ na > 0 /\ iter = a[1] /\ (next[iter] = NULL <=> na = 1) /\ iter \in Cells
  BY <1>1, Hands DEF TurnAround, Goto, Taking
<1>4. Wishes' = Wishes /\ tasks' = tasks
  BY <1>1, <1>2, Names, NamesNext DEF TurnAround
<1>5. OnTheirWay = Reverse(a) \o b
  BY <1>1, Transit DEF TurnAround, Goto
<1>6. /\ na \in Nat /\ a \in [1..na -> Cells] /\ nb \in Nat /\ b \in [1..nb -> Cells]
  BY <1>1, Lists
<1>7. Reverse(a1) \o b1 = Reverse(a) \o b
  BY <1>3, <1>6, FirstTurned
<1>8. OnTheirWay' = Reverse(a1) \o b1
  <2>1. CASE next[iter] # NULL
    <3>1. pc' = "reverse"
      BY <2>1 DEF TurnAround, Goto
    <3> HIDE DEF a1, b1
    <3> QED BY <1>2, <3>1, TransitNext
  <2>2. CASE next[iter] = NULL
    <3>1. pc' = "schedule" /\ iter' = iter
      BY <2>2 DEF TurnAround, Goto
    <3>2. b1 \in [1..(nb + 1) -> Cells] /\ b1[1] = iter /\ 1 \in 1..(nb + 1)
      BY <1>3, <1>6 DEF Shifted
    <3>3. a1 \in [1..0 -> Cells]
      BY <1>3, <2>2 DEF Rest
    <3> HIDE DEF a1, b1
    <3>4. OnTheirWay' = From(1, b1, nb + 1)
      BY <1>2, <3>1, <3>2, TransitNext
    <3>5. From(1, b1, nb + 1) = b1
      BY <1>6, <3>2 DEF From
    <3>6. Reverse(a1) \o b1 = b1
      <4>1. nb + 1 \in Nat
        BY <1>6
      <4>2. b1 \in Seq(Cells)
        BY <3>2, <4>1, AListIsASequence
      <4>3. Reverse(a1) = <<>>
        BY <3>3, NoneLeft
      <4> QED BY <4>2, <4>3
    <3> QED BY <3>4, <3>5, <3>6
  <2> QED BY <2>1, <2>2
<1> HIDE DEF a1, b1
<1> QED BY <1>4, <1>5, <1>7, <1>8, QueueStutters

\* The wish that is scheduled is the oldest one on its way.
LEMMA ScheduleIsHandOver ==
  ASSUME IInv, Schedule PROVE Queue!HandOver
<1>0. Control
  BY DEF IInv
<1>1. PICK w, nw, s, ns, a, na, b, nb : Shape(w, nw, s, ns, a, na, b, nb)
  BY DEF IInv
<1>2. Shape(w, nw, s, ns, a, na, b, nb)'
  BY <1>0, <1>1, ScheduleStep
<1>3. Wishes' = Wishes
  BY <1>1, <1>2, Names, NamesNext
<1>4. /\ pc = "schedule" /\ tasks' = Append(tasks, iter) /\ iter' = next[iter]
      /\ pc' = IF next[iter] = NULL THEN "splice" ELSE "schedule"
  BY DEF Schedule, Goto, ThisWish
<1>5. PICK k \in 1..nb : iter = b[k]
  BY <1>1, <1>4 DEF Shape, Scheduled
<1>6. nb \in Nat /\ b \in [1..nb -> Cells]
  BY <1>1, Lists
<1>7. next[iter] = IF k = nb THEN NULL ELSE b[k + 1]
  <2>1. Path(next, first_wish, b, nb)
    BY <1>1, <1>4 DEF Shape, ListBehind, Listed, Giving
  <2> QED BY <1>5, <2>1 DEF Path
<1> DEFINE t == From(k, b, nb)
           m == nb - k + 1
<1>8. OnTheirWay = t
  BY <1>1, <1>4, <1>5, Transit
<1>9. m \in Nat \ {0} /\ \A i \in 1..m : i + k - 1 \in 1..nb /\ t[i] = b[i + k - 1]
  BY <1>6 DEF From
<1>10. t \in [1..m -> Cells]
  BY <1>6, <1>9 DEF From
<1>11. t[1] = iter /\ 1 \in 1..m
  BY <1>5, <1>6, <1>9
<1> HIDE DEF t
<1>12. t \in Seq(Cells) /\ Len(t) = m /\ t # <<>> /\ Head(t) = iter
  BY <1>9, <1>10, <1>11
<1>13. /\ Tail(t) \in Seq(Cells) /\ Len(Tail(t)) = m - 1
       /\ \A i \in 1..(m - 1) : Tail(t)[i] = t[i + 1]
  BY <1>12
<1>14. OnTheirWay' = Tail(t)
  <2>1. CASE k = nb
    <3>1. pc' = "splice"
      BY <1>4, <1>7, <2>1
    <3>2. OnTheirWay' = <<>>
      BY <1>2, <3>1, TransitNext
    <3>3. m = 1
      BY <1>6, <2>1
    <3> QED BY <1>13, <3>2, <3>3
  <2>2. CASE k # nb
    <3>1. k + 1 \in 1..nb /\ b[k + 1] \in Cells
      BY <1>6, <2>2
    <3>2. pc' = "schedule" /\ iter' = b[k + 1]
      BY <1>4, <1>7, <2>2, <3>1, CellsAssumption
    <3> DEFINE y == From(k + 1, b, nb)
    <3>3. OnTheirWay' = y
      BY <1>2, <3>1, <3>2, TransitNext
    <3>4. m - 1 \in Nat /\ nb - (k + 1) + 1 = m - 1
          /\ \A i \in 1..(m - 1) : i + (k + 1) - 1 \in 1..nb /\ i + 1 \in 1..m
                                   /\ (i + 1) + k - 1 = i + (k + 1) - 1
      BY <1>6, <1>9
    <3>5. y = [i \in 1..(m - 1) |-> b[i + (k + 1) - 1]]
      BY <3>4 DEF From
    <3> HIDE DEF y, m
    <3>6. y \in [1..(m - 1) -> Cells]
      BY <1>6, <3>4, <3>5
    <3>7. y \in Seq(Cells) /\ Len(y) = m - 1
      BY <3>4, <3>6, AListIsASequence
    <3>8. \A i \in 1..(m - 1) : y[i] = Tail(t)[i]
      BY <1>9, <1>13, <3>4, <3>5
    <3>9. y = Tail(t)
      BY <1>13, <3>7, <3>8, SameSequence
    <3> QED BY <3>3, <3>9
  <2> QED BY <2>1, <2>2
<1> QED BY <1>3, <1>4, <1>8, <1>12, <1>14 DEF Queue!HandOver, Wishes

\* A job that runs leaves the queue ...
LEMMA RunIsLeave ==
  ASSUME IInv, NEW i \in 1..Len(tasks), Run(i) PROVE Queue!Leave(i)
<1>0. Control
  BY DEF IInv
<1>1. PICK w, nw, s, ns, a, na, b, nb : Shape(w, nw, s, ns, a, na, b, nb)
  BY DEF IInv
<1>2. PICK k \in 1..ns : Shape(w, nw, Without(k, s, ns), ns - 1, a, na, b, nb)'
  BY <1>0, <1>1, RunStep
<1>3. Wishes' = Wishes
  BY <1>1, <1>2, Names, NamesNext
<1>4. pc = "loop" /\ pc' = "frame" /\ tasks' = RemoveAt(tasks, i)
  BY DEF Run, Goto
<1>5. OnTheirWay = <<>> /\ OnTheirWay' = <<>>
  BY <1>1, <1>2, <1>4, Transit, TransitNext
<1> QED BY <1>3, <1>4, <1>5 DEF Queue!Leave, Queue!RemoveAt, RemoveAt, Wishes

\* ... and so does one that is cancelled.
LEMMA UnscheduleIsLeave ==
  ASSUME IInv, Unschedule PROVE \E i \in 1..Len(tasks) : Queue!Leave(i)
<1>0. Control
  BY DEF IInv
<1>1. PICK w, nw, s, ns, a, na, b, nb : Shape(w, nw, s, ns, a, na, b, nb)
  BY DEF IInv
<1>2. Shape(w, nw, s, ns, Rest(a, na), na - 1, b, nb)'
  BY <1>0, <1>1, UnscheduleStep
<1>3. Wishes' = Wishes
  BY <1>1, <1>2, Names, NamesNext
<1>4. PICK i \in 1..Len(tasks) : tasks' = RemoveAt(tasks, i)
  BY <1>0, <1>1, UnscheduleStep
<1>5. pc = "unschedule" /\ pc' \in {"clear", "unschedule"}
  BY DEF Unschedule, FreeOne, Goto
<1>6. OnTheirWay = <<>> /\ OnTheirWay' = <<>>
  BY <1>1, <1>2, <1>5, Transit, TransitNext
<1> QED BY <1>3, <1>4, <1>6 DEF Queue!Leave, Queue!RemoveAt, RemoveAt, Wishes

\* Clearing the wishlist drops the wishes, all at once.
LEMMA ClearIsDrop ==
  ASSUME IInv, BeginClearWishes PROVE Queue!DropWishes
<1>0. Control
  BY DEF IInv
<1>1. PICK w, nw, s, ns, a, na, b, nb : Shape(w, nw, s, ns, a, na, b, nb)
  BY DEF IInv
<1>2. pc = "clear" /\ pc' \in {"clear", "clear_wishes"} /\ tasks' = tasks
  BY DEF BeginClearWishes, Goto
<1>3. na = 0
  BY <1>1, <1>2, Hands DEF Taking
<1>4. wishlist = NULL => nw = 0
  BY <1>1, Hands
<1>5. CASE wishlist = NULL
  <2>1. Shape(w, nw, s, ns, a, na, b, nb)'
    BY <1>0, <1>1, <1>5, BeginClearWishesStep
  <2>2. Wishes' = w /\ w \in [1..0 -> Cells]
    BY <1>1, <1>4, <1>5, <2>1, NamesNext, Lists
  <2>3. Reverse(Wishes') = <<>>
    BY <2>2, NoneLeft
  <2>4. OnTheirWay = <<>> /\ OnTheirWay' = <<>>
    BY <1>1, <1>2, <2>1, Transit, TransitNext
  <2> QED BY <1>2, <2>3, <2>4 DEF Queue!DropWishes, Wishes
<1>6. CASE wishlist # NULL
  <2>1. Shape(a, na, s, ns, w, nw, b, nb)'
    BY <1>0, <1>1, <1>6, BeginClearWishesStep
  <2>2. Wishes' = a /\ a \in [1..0 -> Cells]
    BY <1>1, <1>3, <2>1, NamesNext, Lists
  <2>3. Reverse(Wishes') = <<>>
    BY <2>2, NoneLeft
  <2>4. OnTheirWay = <<>> /\ OnTheirWay' = <<>>
    BY <1>1, <1>2, <2>1, Transit, TransitNext
  <2> QED BY <1>2, <2>3, <2>4 DEF Queue!DropWishes, Wishes
<1> QED BY <1>5, <1>6

\* The steps of the lists the queue does not show
LEMMA RestIsUnseen ==
  ASSUME IInv, \/ Splice \/ ClearWish \/ BeginUnschedule
               \/ JobReturns \/ OtherCode \/ BeginClear \/ Cleared
  PROVE  UNCHANGED Queue!vars
<1>0. Control
  BY DEF IInv
<1>1. PICK w, nw, s, ns, a, na, b, nb : Shape(w, nw, s, ns, a, na, b, nb)
  BY DEF IInv
<1>2. \E s1, ns1, a1, na1, b1, nb1 : Shape(w, nw, s1, ns1, a1, na1, b1, nb1)'
  <2>1. CASE Splice
    BY <1>0, <1>1, <2>1, SpliceStep
  <2>2. CASE ClearWish
    BY <1>0, <1>1, <2>2, ClearWishStep
  <2>3. CASE BeginUnschedule
    BY <1>0, <1>1, <2>3, BeginUnscheduleStep
  <2>4. CASE JobReturns \/ OtherCode \/ BeginClear \/ Cleared
    BY <1>0, <1>1, <2>4, QuietStep
  <2> QED BY <2>1, <2>2, <2>3, <2>4
<1>3. Wishes' = Wishes
  BY <1>1, <1>2, Names, NamesNext
<1>4. /\ tasks' = tasks
      /\ pc \notin {"reverse", "schedule"} /\ pc' \notin {"reverse", "schedule"}
  <2>1. CASE Splice
    BY <2>1 DEF Splice, Back
  <2>2. CASE ClearWish \/ BeginUnschedule
    BY <2>2 DEF ClearWish, FreeOne, BeginUnschedule, Goto
  <2>3. CASE JobReturns \/ OtherCode \/ BeginClear \/ Cleared
    BY <2>3 DEF JobReturns, OtherCode, BeginClear, Cleared, Goto, InFrame, Back
  <2> QED BY <2>1, <2>2, <2>3
<1>5. OnTheirWay = <<>> /\ OnTheirWay' = <<>>
  BY <1>1, <1>2, <1>4, Transit, TransitNext
<1> QED BY <1>3, <1>4, <1>5, QueueStutters

\* The queue begins empty.
LEMMA QueueInit == Init => Queue!Init
<1> SUFFICES ASSUME Init PROVE Queue!Init
  OBVIOUS
<1>1. PICK w, nw, s, ns, a, na, b, nb : Shape(w, nw, s, ns, a, na, b, nb)
  BY InitInv DEF IInv
<1>2. nw = 0 /\ OnTheirWay = <<>> /\ Wishes = w /\ w \in [1..nw -> Cells]
  BY <1>1, Hands, Transit, Names, Lists DEF Init
<1>3. Reverse(Wishes) = <<>>
  BY <1>2, NoneLeft
<1> QED BY <1>2, <1>3 DEF Init, Queue!Init, Wishes

\* Every step of the lists is a step of the queue, or is not seen.
LEMMA QueueNext == IInv /\ [Next]_vars => [Queue!Next]_(Queue!vars)
<1> SUFFICES ASSUME IInv, [Next]_vars PROVE [Queue!Next]_(Queue!vars)
  OBVIOUS
<1>1. ASSUME NEW c \in Cells, PushWish(c) PROVE Queue!Next
  BY <1>1, WishIsWish DEF Queue!Next
<1>2. ASSUME NEW c \in Cells, PushSelf(c) PROVE Queue!Next
  BY <1>2, SelfIsSelf DEF Queue!Next
<1>3. CASE TakeWishes
  BY <1>3, TakeIsTake DEF Queue!Next
<1>4. CASE TurnAround
  BY <1>4, TurningIsUnseen
<1>5. CASE Schedule
  BY <1>5, ScheduleIsHandOver DEF Queue!Next
<1>6. ASSUME NEW i \in 1..Len(tasks), Run(i) PROVE Queue!Next
  BY <1>6, RunIsLeave DEF Queue!Next
<1>7. CASE Unschedule
  BY <1>7, UnscheduleIsLeave DEF Queue!Next
<1>8. CASE BeginClearWishes
  BY <1>8, ClearIsDrop DEF Queue!Next
<1>9. CASE \/ Splice \/ ClearWish \/ BeginUnschedule
           \/ JobReturns \/ OtherCode \/ BeginClear \/ Cleared
  BY <1>9, RestIsUnseen
<1>10. CASE UNCHANGED vars
  BY <1>10 DEF vars, cells, heads, locals, Queue!vars, OnTheirWay, Chain
<1> QED BY <1>1, <1>2, <1>3, <1>4, <1>5, <1>6, <1>7, <1>8, <1>9, <1>10 DEF Next

\* However the pointers move, the two lists together are a queue: jobs wished by other
\* threads reach the scheduler once each and in the order of the wishes, and only the
\* clearing of the lists drops any.
THEOREM ListsAreAQueue == Spec => ImplementsQueue
<1>1. Init => Queue!Init
  BY QueueInit
<1>2. IInv /\ [Next]_vars => [Queue!Next]_(Queue!vars)
  BY QueueNext
<1> QED BY <1>1, <1>2, Invariant, PTL DEF Spec, Queue!Spec, ImplementsQueue
=============================================================================
