----------------------------- MODULE PairingProofs -----------------------------
(***************************************************************************)
(* What TLC checks of Pairing for two TVs and three users, proved for any: *)
(* no user is stored twice, a TV is always told the same credentials, and  *)
(* the loaded entry knows those it was told.  A crash loses only users     *)
(* that are still being saved.                                             *)
(***************************************************************************)
EXTENDS Pairing, TLAPS, WellFoundedInduction

Users == Devicetypes \X (1..MaxUsers)

\* Where a handler may be, and the devicetype or the user it then has.
Request ==
    [at : {"none"}, user : {<<>>}]
        \cup [at : {"body"}, user : {<<t>> : t \in Devicetypes}]
        \cup [at : {"saving"}, user : Users]

TypeInv ==
    /\ phase \in {"none", "pairing", "closing", "created", "loaded"}
    /\ users \in Seq(Users) /\ disk \in Seq(Users) /\ initial \in Seq(Users)
    /\ link \in BOOLEAN
    /\ request \in [Requests -> Request]
    /\ given \subseteq [user : Users, saved : BOOLEAN]
    /\ made \in 0..MaxUsers

\* The users of a store are in the order in which they were made.
Ordered(s) == \A i, j \in DOMAIN s : i < j => s[i][2] < s[j][2]

\* None was made after the last one.
MadeBefore(s) == \A u \in ToSet(s) : u[2] <= made

\* s begins with p.
Begins(p, s) == Len(p) <= Len(s) /\ \A i \in 1..Len(p) : p[i] = s[i]

StoresAreOrdered ==
    /\ Ordered(users) /\ Ordered(disk) /\ Ordered(initial)
    /\ MadeBefore(users) /\ MadeBefore(disk) /\ MadeBefore(initial)

\* Every user of U is in the set V, or was made after all users in V.
KnownOrLater(U, V) == \A u \in U : u \in V \/ \A v \in V : v[2] < u[2]

\* The temporary server's users are younger than those in a file left behind, and the
\* entry's data are imported whole.
ImportsAreYounger ==
    /\ phase \in {"none", "pairing", "closing"} => initial = <<>>
    /\ phase \in {"pairing", "closing"} =>
         \A u \in ToSet(users), v \in ToSet(disk) : v[2] < u[2]
    /\ KnownOrLater(ToSet(initial), ToSet(disk))
    /\ phase = "loaded" => Begins(disk, users) /\ ToSet(initial) \subseteq ToSet(disk)

\* The youngest user of its devicetype.
Latest(u, S) == u \in S /\ \A v \in S : v[1] = u[1] => v[2] <= u[2]

\* What the file lacks is being saved, and a request saves the youngest of its devicetype.
SavesAreUnderWay ==
    /\ phase \in {"none", "created"} => NoneUnderWay
    /\ \A r \in Requests :
         request[r].at = "saving" => phase = "loaded" /\ Latest(request[r].user, ToSet(users))
    /\ phase = "loaded" =>
         \A u \in ToSet(users) : \/ u \in ToSet(disk)
                                    \/ \E r \in Requests : request[r] = [at |-> "saving", user |-> u]

\* The users there are, or will be once the entry is set up.
Known == IF phase = "created" THEN ToSet(disk) \cup ToSet(initial) ELSE ToSet(users)

\* A TV was told the youngest user of its devicetype, and a crash spares the saved ones.
GivenAreLatest ==
    /\ phase = "none" => given = {}
    /\ \A g \in given : Latest(g.user, Known)
    /\ phase = "loaded" => \A g \in given : g.saved => g.user \in ToSet(disk)

Inv ==
    /\ TypeInv
    /\ StoresAreOrdered
    /\ ImportsAreYounger
    /\ SavesAreUnderWay
    /\ GivenAreLatest

-----------------------------------------------------------------------------
(* Sequences, and the loop of Import.  The library's induction is over an  *)
(* operator; here it is over a set, by its least number.                   *)

\* A set of natural numbers has a least element.
LEMMA LeastNumber ==
    ASSUME NEW T, T \subseteq Nat, T # {}
    PROVE  \E x \in T : \A y \in T : x <= y
<1> DEFINE R == {ss \in Nat \X Nat : ss[1] < ss[2]}
<1>1. IsWellFoundedOn(R, Nat)
  BY NatLessThanWellFounded DEF OpToRel
<1>2. PICK x \in T : \A y \in T : ~ (<<y, x>> \in R)
  BY <1>1, WFMin, Zenon
<1>3. ASSUME NEW y \in T PROVE x <= y
  <2>1. x \in Nat /\ y \in Nat OBVIOUS
  <2>2. ~ (y < x)
    BY <1>2, <2>1
  <2> QED
    BY <2>1, <2>2
<1> QED
  BY <1>3

\* A set of indices has a greatest element.
LEMMA GreatestIndex ==
    ASSUME NEW n \in Nat, NEW T, T \subseteq 1..n, T # {}
    PROVE  \E x \in T : \A y \in T : x >= y
<1> DEFINE U == {n - i : i \in T}
<1>1. U \subseteq Nat
  OBVIOUS
<1>2. U # {}
  OBVIOUS
<1>3. PICK u \in U : \A y \in U : u <= y
  <2> HIDE DEF U
  <2> QED
    BY <1>1, <1>2, LeastNumber
<1>4. PICK x \in T : u = n - x
  OBVIOUS
<1>5. ASSUME NEW y \in T PROVE x >= y
  <2>1. u <= n - y
    BY <1>3
  <2>2. x \in 1..n /\ y \in 1..n
    OBVIOUS
  <2> QED
    BY <1>4, <2>1, <2>2
<1> QED
  BY <1>5

\* One round of the loop.
Round(s, u) == IF u \in ToSet(s) THEN s ELSE Append(s, u)

\* f has the stores after the first n rounds.
Rounds(stored, f, n) ==
    [k \in 0..n |-> IF k = 0 THEN stored ELSE Round(f[k - 1], initial[k])]

\* The loop ends, whatever it starts from.
LEMMA RoundsExist ==
    ASSUME NEW stored, NEW n \in Nat
    PROVE  \E f : f = Rounds(stored, f, n)
<1> DEFINE T == {k \in Nat : ~ \E f : f = Rounds(stored, f, k)}
<1>1. SUFFICES ASSUME T # {} PROVE FALSE
  OBVIOUS
<1>2. T \subseteq Nat
  OBVIOUS
<1>3. PICK m \in T : \A k \in T : m <= k
  <2> HIDE DEF T
  <2> QED
    BY <1>1, <1>2, LeastNumber
<1>4. m # 0
  <2> DEFINE f == [k \in 0..0 |-> stored]
  <2>1. f = Rounds(stored, f, 0)
    BY DEF Rounds
  <2> QED
    BY <2>1
<1>5. m \in Nat /\ m - 1 \in Nat
  BY <1>4
<1>6. m - 1 \notin T
  BY <1>3, <1>5
<1>7. PICK f : f = Rounds(stored, f, m - 1)
  BY <1>5, <1>6
<1> DEFINE g == [k \in 0..m |-> IF k = m THEN Round(f[m - 1], initial[m]) ELSE f[k]]
<1>8. g = Rounds(stored, g, m)
  <2>1. ASSUME NEW k \in 0..m
        PROVE  g[k] = IF k = 0 THEN stored ELSE Round(g[k - 1], initial[k])
    <3>1. CASE k = m
      BY <1>4, <1>5, <3>1
    <3>2. CASE k # m
      <4>1. g[k] = f[k] /\ k \in 0..(m - 1)
        BY <1>5, <3>2
      <4>2. f[k] = IF k = 0 THEN stored ELSE Round(f[k - 1], initial[k])
        BY <1>7, <4>1 DEF Rounds
      <4>3. k # 0 => g[k - 1] = f[k - 1]
        BY <1>5, <4>1
      <4> QED
        BY <4>1, <4>2, <4>3
    <3> QED
      BY <3>1, <3>2
  <2> HIDE DEF g
  <2>2. DOMAIN g = 0..m /\ g = [k \in 0..m |-> g[k]]
    BY DEF g
  <2> QED
    BY <2>1, <2>2 DEF Rounds
<1> QED
  BY <1>8

\* Import has some such f, at its end.
LEMMA ImportIsRounds ==
    ASSUME NEW stored, Len(initial) \in Nat
    PROVE  \E f : f = Rounds(stored, f, Len(initial)) /\ Import(stored) = f[Len(initial)]
<1>1. Import(stored) =
        (CHOOSE f : f = Rounds(stored, f, Len(initial)))[Len(initial)]
  BY DEF Import, Rounds, Round
<1>2. \E f : f = Rounds(stored, f, Len(initial))
  BY RoundsExist
<1> QED
  BY <1>1, <1>2

\* What a store is after n rounds: it has kept what it had and its order, and knows the
\* first n users of the entry's data as well.
Imported(s, stored, n) ==
    /\ s \in Seq(Users)
    /\ Begins(stored, s)
    /\ ToSet(s) = ToSet(stored) \cup {initial[i] : i \in 1..n}
    /\ Ordered(stored) /\ Ordered(initial) /\ KnownOrLater(ToSet(initial), ToSet(stored))
         => Ordered(s)

\* A user younger than all in a store is appended.
LEMMA AppendYounger ==
    ASSUME NEW s \in Seq(Users), NEW u \in Users
    PROVE  /\ Append(s, u) \in Seq(Users)
           /\ ToSet(Append(s, u)) = ToSet(s) \cup {u}
           /\ \A p \in Seq(Users) : Begins(p, s) => Begins(p, Append(s, u))
           /\ Ordered(s) /\ (\A v \in ToSet(s) : v[2] < u[2]) => Ordered(Append(s, u))
<1> DEFINE a == Append(s, u)
<1>1. a \in Seq(Users) /\ Len(a) = Len(s) + 1
  OBVIOUS
<1>2. \A i \in 1..Len(s) : a[i] = s[i]
  OBVIOUS
<1>3. a[Len(s) + 1] = u
  OBVIOUS
<1>4. DOMAIN s = 1..Len(s) /\ DOMAIN a = 1..(Len(s) + 1) /\ Len(s) \in Nat
  BY <1>1
<1> HIDE DEF a
<1>5. ToSet(a) = ToSet(s) \cup {u}
  <2>1. \A i \in DOMAIN a : a[i] \in ToSet(s) \cup {u}
    BY <1>2, <1>3, <1>4 DEF ToSet
  <2>2. \A i \in DOMAIN s : s[i] \in ToSet(a)
    BY <1>2, <1>4 DEF ToSet
  <2>3. u \in ToSet(a)
    BY <1>3, <1>4 DEF ToSet
  <2> QED
    BY <2>1, <2>2, <2>3 DEF ToSet
<1>6. ASSUME NEW p \in Seq(Users), Begins(p, s) PROVE Begins(p, a)
  BY <1>1, <1>2, <1>6 DEF Begins
<1>7. ASSUME Ordered(s), \A v \in ToSet(s) : v[2] < u[2] PROVE Ordered(a)
  <2>1. \A i \in 1..Len(s) : s[i][2] < u[2]
    BY <1>4, <1>7 DEF ToSet
  <2> QED
    BY <1>2, <1>3, <1>4, <1>7, <2>1 DEF Ordered
<1> QED
  BY <1>1, <1>5, <1>6, <1>7 DEF a

\* What is saved is a store as it was a while ago.
LEMMA Snapshot ==
    ASSUME NEW s \in Seq(Users), NEW n \in DOMAIN s
    PROVE  /\ SubSeq(s, 1, n) \in Seq(Users)
           /\ Begins(SubSeq(s, 1, n), s)
           /\ ToSet(SubSeq(s, 1, n)) \subseteq ToSet(s)
           /\ Ordered(s) => Ordered(SubSeq(s, 1, n))
           /\ \A p \in Seq(Users) :
                Begins(p, s) /\ n >= Len(p) => ToSet(p) \subseteq ToSet(SubSeq(s, 1, n))
<1> DEFINE a == SubSeq(s, 1, n)
<1>1. n \in 1..Len(s) /\ DOMAIN s = 1..Len(s)
  OBVIOUS
<1>2. a \in Seq(Users) /\ Len(a) = n
  BY <1>1
<1>3. \A i \in 1..n : a[i] = s[i]
  BY <1>1
<1>4. DOMAIN a = 1..n
  BY <1>2
<1> HIDE DEF a
<1>5. Begins(a, s)
  BY <1>1, <1>2, <1>3 DEF Begins
<1>6. ToSet(a) \subseteq ToSet(s)
  BY <1>1, <1>3, <1>4 DEF ToSet
<1>7. Ordered(s) => Ordered(a)
  BY <1>1, <1>3, <1>4 DEF Ordered
<1>8. ASSUME NEW p \in Seq(Users), Begins(p, s), n >= Len(p) PROVE ToSet(p) \subseteq ToSet(a)
  <2>1. \A i \in DOMAIN p : i \in 1..n /\ p[i] = a[i]
    BY <1>1, <1>3, <1>8 DEF Begins
  <2> QED
    BY <1>4, <2>1 DEF ToSet
<1> QED
  BY <1>2, <1>5, <1>6, <1>7, <1>8 DEF a

\* One round more.
LEMMA RoundImports ==
    ASSUME NEW stored \in Seq(Users), initial \in Seq(Users),
           NEW n \in 1..Len(initial), NEW s, Imported(s, stored, n - 1)
    PROVE  Imported(Round(s, initial[n]), stored, n)
<1> DEFINE u == initial[n]
<1>1. u \in Users /\ u \in ToSet(initial)
  BY DEF ToSet
<1>2. s \in Seq(Users) /\ Begins(stored, s)
  BY DEF Imported
<1>3. ToSet(s) = ToSet(stored) \cup {initial[i] : i \in 1..(n - 1)}
  BY DEF Imported
<1>4. {initial[i] : i \in 1..n} = {initial[i] : i \in 1..(n - 1)} \cup {u}
  <2>1. 1..n = 1..(n - 1) \cup {n}
    OBVIOUS
  <2> QED
    BY <2>1
<1>5. CASE u \in ToSet(s)
  <2>1. Round(s, u) = s
    BY <1>5 DEF Round
  <2>2. ToSet(s) = ToSet(stored) \cup {initial[i] : i \in 1..n}
    BY <1>3, <1>4, <1>5
  <2> QED
    BY <2>1, <2>2 DEF Imported
<1>6. CASE u \notin ToSet(s)
  <2>1. Round(s, u) = Append(s, u)
    BY <1>6 DEF Round
  <2>2. Append(s, u) \in Seq(Users)
    BY <1>1, <1>2, AppendYounger
  <2>5. Begins(stored, Append(s, u))
    BY <1>1, <1>2, AppendYounger
  <2>6. ToSet(Append(s, u)) = ToSet(s) \cup {u}
    BY <1>1, <1>2, AppendYounger
  <2>7. ASSUME Ordered(stored), Ordered(initial), KnownOrLater(ToSet(initial), ToSet(stored))
        PROVE  Ordered(Append(s, u))
    <3>1. Ordered(s)
      BY <2>7 DEF Imported
    <3>2. ASSUME NEW v \in ToSet(s) PROVE v[2] < u[2]
      <4>1. CASE v \in ToSet(stored)
        BY <1>1, <1>3, <1>6, <2>7, <4>1 DEF KnownOrLater
      <4>2. CASE v \in {initial[i] : i \in 1..(n - 1)}
        BY <2>7, <4>2 DEF Ordered
      <4> QED
        BY <1>3, <3>2, <4>1, <4>2
    <3> QED
      BY <1>1, <1>2, <3>1, <3>2, AppendYounger
  <2> QED
    BY <1>3, <1>4, <2>1, <2>2, <2>5, <2>6, <2>7 DEF Imported
<1> QED
  BY <1>5, <1>6

\* UserStore.async_load and the import: what the store had comes first, it has every user
\* of both, and each has been added once, in the order of the users' making.
LEMMA ImportAdds ==
    ASSUME NEW stored \in Seq(Users), initial \in Seq(Users)
    PROVE  /\ Imported(Import(stored), stored, Len(initial))
           /\ ToSet(Import(stored)) = ToSet(stored) \cup ToSet(initial)
           /\ initial = <<>> => Import(stored) = stored
<1> DEFINE n == Len(initial)
<1>1. n \in Nat
  OBVIOUS
<1>2. PICK f : f = Rounds(stored, f, n) /\ Import(stored) = f[n]
  BY <1>1, ImportIsRounds
<1>3. f[0] = stored
  BY <1>1, <1>2 DEF Rounds
<1>4. \A k \in 1..n : f[k] = Round(f[k - 1], initial[k])
  BY <1>1, <1>2 DEF Rounds
<1>5. Imported(f[0], stored, 0)
  <2>1. Begins(stored, stored)
    BY DEF Begins
  <2>2. {initial[i] : i \in 1..0} = {}
    OBVIOUS
  <2> QED
    BY <1>3, <2>1, <2>2 DEF Imported
<1>6. \A k \in 0..n : Imported(f[k], stored, k)
  <2> DEFINE T == {k \in 0..n : ~ Imported(f[k], stored, k)}
  <2>1. SUFFICES ASSUME T # {} PROVE FALSE
    OBVIOUS
  <2>2. T \subseteq Nat
    BY <1>1
  <2>3. PICK m \in T : \A k \in T : m <= k
    <3> HIDE DEF T
    <3> QED
      BY <2>1, <2>2, LeastNumber
  <2>4. m \in 1..n
    BY <1>1, <1>5, <2>3
  <2>5. m - 1 \in 0..n /\ m - 1 \notin T
    BY <1>1, <2>3, <2>4
  <2>6. Imported(f[m - 1], stored, m - 1)
    BY <2>5
  <2>7. Imported(Round(f[m - 1], initial[m]), stored, m)
    BY <2>4, <2>6, RoundImports
  <2>8. Imported(f[m], stored, m)
    BY <1>4, <2>4, <2>7
  <2> QED
    BY <2>3, <2>8
<1>7. Imported(Import(stored), stored, n)
  <2>1. n \in 0..n
    BY <1>1
  <2> QED
    BY <1>2, <1>6, <2>1
<1>8. {initial[i] : i \in 1..n} = ToSet(initial)
  BY DEF ToSet
<1>9. initial = <<>> => Import(stored) = stored
  <2>1. initial = <<>> => n = 0
    OBVIOUS
  <2> QED
    BY <1>2, <1>3, <2>1
<1> HIDE DEF n
<1>10. Imported(Import(stored), stored, n) /\ n = Len(initial)
  BY <1>7 DEF n
<1> QED
  BY <1>8, <1>9, <1>10 DEF Imported

-----------------------------------------------------------------------------
(* The stores *)

\* get_by_devicetype finds the youngest user of the devicetype, if there is one.
LEMMA ExistingIsLatest ==
    ASSUME users \in Seq(Users), Ordered(users), NEW t
    PROVE  /\ Existing(t) = {} => \A u \in ToSet(users) : u[1] # t
           /\ \A u \in Existing(t) : u[1] = t /\ Latest(u, ToSet(users))
<1> DEFINE I == {i \in 1..Len(users) : users[i][1] = t}
           last == IF I # {} THEN Max(I) ELSE 0
<1>1. Existing(t) = {users[i] : i \in {last} \ {0}}
  BY DEF Existing, SelectLastInSeq
<1>2. Len(users) \in Nat /\ I \subseteq 1..Len(users)
  OBVIOUS
<1>3. I # {} => last \in I /\ \A i \in I : last >= i
  <2> HIDE DEF I
  <2> QED
    BY <1>2, GreatestIndex DEF Max
<1>4. I = {} => last = 0
  OBVIOUS
<1> HIDE DEF last
<1>5. ASSUME Existing(t) = {}, NEW u \in ToSet(users) PROVE u[1] # t
  <2>1. I = {}
    <3>1. last = 0
      BY <1>1, <1>5
    <3>2. 0 \notin I
      OBVIOUS
    <3> HIDE DEF I
    <3> QED
      BY <1>3, <3>1, <3>2
  <2> QED
    BY <2>1 DEF ToSet
<1>6. ASSUME NEW u \in Existing(t) PROVE u[1] = t /\ Latest(u, ToSet(users))
  <2>1. u = users[last] /\ last # 0
    BY <1>1
  <2>2. last \in I /\ \A i \in I : last >= i
    BY <1>3, <1>4, <2>1
  <2>3. u[1] = t /\ last \in DOMAIN users
    BY <2>1, <2>2
  <2>4. ASSUME NEW i \in DOMAIN users, users[i][1] = t PROVE users[i][2] <= u[2]
    <3>1. i \in I
      BY <2>4
    <3>2. i \in 1..Len(users) /\ last \in 1..Len(users) /\ i <= last
      BY <2>2, <2>3, <3>1
    <3>3. users[i] \in Users /\ users[last] \in Users
      BY <3>2
    <3>4. users[i][2] \in Nat /\ users[last][2] \in Nat
      BY <3>3, MaxUsersAssumption DEF Users
    <3>5. CASE i = last
      BY <2>1, <3>4, <3>5
    <3>6. CASE i < last
      BY <2>1, <2>3, <3>2, <3>4, <3>6 DEF Ordered
    <3> QED
      BY <3>2, <3>5, <3>6
  <2> QED
    BY <2>1, <2>3, <2>4 DEF Latest, ToSet
<1> QED
  BY <1>5, <1>6

\* No two users of a store have a number in common.
LEMMA OrderedIsInjective ==
    ASSUME NEW s \in Seq(Users), Ordered(s)
    PROVE  IsInjective(s)
<1>1. SUFFICES ASSUME NEW i \in DOMAIN s, NEW j \in DOMAIN s, s[i] = s[j] PROVE i = j
  BY DEF IsInjective
<1>2. i \in Nat /\ j \in Nat /\ s[i] \in Users /\ s[j] \in Users
  OBVIOUS
<1>3. s[i][2] \in Nat
  BY <1>2, MaxUsersAssumption DEF Users
<1>4. ~ (i < j) /\ ~ (j < i)
  BY <1>1, <1>3 DEF Ordered
<1> QED
  BY <1>2, <1>4

\* A TV that was told two users of one devicetype was told one.
LEMMA LatestIsOne ==
    ASSUME NEW S, S \subseteq Users, NEW u, NEW v,
           Latest(u, S), Latest(v, S), u[1] = v[1]
    PROVE  u = v
<1>1. u \in Users /\ v \in Users
  BY DEF Latest
<1>2. u[2] \in Nat /\ v[2] \in Nat /\ u = <<u[1], u[2]>> /\ v = <<v[1], v[2]>>
  BY <1>1, MaxUsersAssumption DEF Users
<1>3. u[2] <= v[2] /\ v[2] <= u[2]
  BY DEF Latest
<1> QED
  BY <1>2, <1>3

\* A user that is made is younger than all.
LEMMA NewUserIsYounger ==
    ASSUME TypeInv, NEW s \in Seq(Users), MadeBefore(s)
    PROVE  \A v \in ToSet(s) : v[2] < made + 1
<1>1. ASSUME NEW v \in ToSet(s) PROVE v[2] < made + 1
  <2>1. v \in Users
    BY DEF ToSet
  <2>2. v[2] \in Nat /\ made \in Nat
    BY <2>1, MaxUsersAssumption DEF Users, TypeInv
  <2>3. v[2] <= made
    BY DEF MadeBefore
  <2> QED
    BY <2>2, <2>3
<1> QED
  BY <1>1

\* The user that create_user adds, the first and youngest of its devicetype.
NewUser(r) == <<request[r].user[1], made + 1>>

\* What create_user makes is younger than all others, and the only user of its devicetype.
LEMMA CreateUserAdds ==
    ASSUME Inv, NEW r \in Requests, CreateUser(r)
    PROVE  /\ NewUser(r) \in Users /\ made + 1 \in 1..MaxUsers
           /\ users' = Append(users, NewUser(r)) /\ users' \in Seq(Users)
           /\ ToSet(users') = ToSet(users) \cup {NewUser(r)}
           /\ \A v \in ToSet(users) : v[1] # NewUser(r)[1]
           /\ \A v \in ToSet(users) \cup ToSet(disk) : v[2] < NewUser(r)[2]
<1> DEFINE u == NewUser(r)
<1>1. request[r] \in Request /\ request[r].at = "body"
  BY DEF CreateUser, TypeInv, Inv
<1>2. request[r].user[1] \in Devicetypes
  BY <1>1 DEF Request
<1>3. made + 1 \in 1..MaxUsers
  BY MaxUsersAssumption DEF CreateUser, TypeInv, Inv
<1>4. u \in Users /\ u[1] = request[r].user[1] /\ u[2] = made + 1
  BY <1>2, <1>3 DEF Users, NewUser
<1>5. users' = Append(users, u) /\ Existing(u[1]) = {}
  BY <1>4 DEF CreateUser, NewUser
<1> HIDE DEF u
<1>6. \A v \in ToSet(users) : v[1] # u[1]
  BY <1>5, ExistingIsLatest DEF TypeInv, StoresAreOrdered, Inv
<1>7. \A v \in ToSet(users) \cup ToSet(disk) : v[2] < u[2]
  BY <1>4, NewUserIsYounger DEF TypeInv, StoresAreOrdered, Inv
<1>8. users' \in Seq(Users) /\ ToSet(users') = ToSet(users) \cup {u}
  BY <1>4, <1>5, AppendYounger DEF TypeInv, Inv
<1> QED
  BY <1>3, <1>4, <1>5, <1>6, <1>7, <1>8 DEF u

-----------------------------------------------------------------------------
(* The types, step by step *)

\* The initial states satisfy the invariant.
LEMMA InitHolds == Init => Inv
<1> SUFFICES ASSUME Init PROVE Inv
  OBVIOUS
<1>1. <<>> \in Seq(Users) /\ ToSet(<<>>) = {} /\ DOMAIN <<>> = {}
  BY DEF ToSet
<1>2. TypeInv
  <2>1. NoRequest \in Request
    BY DEF NoRequest, Request
  <2>2. request \in [Requests -> Request]
    BY <2>1 DEF Init
  <2>3. made \in 0..MaxUsers
    BY MaxUsersAssumption DEF Init
  <2> QED
    BY <1>1, <2>2, <2>3 DEF Init, TypeInv
<1>3. StoresAreOrdered
  BY <1>1 DEF Init, StoresAreOrdered, Ordered, MadeBefore
<1>4. ImportsAreYounger
  BY <1>1 DEF Init, ImportsAreYounger, KnownOrLater
<1>5. SavesAreUnderWay
  BY <1>1 DEF Init, SavesAreUnderWay, NoneUnderWay, NoRequest
<1>6. GivenAreLatest
  BY DEF Init, GivenAreLatest
<1> QED
  BY <1>2, <1>3, <1>4, <1>5, <1>6 DEF Inv

\* What an answer gives is a user.
LEMMA AnswerTypes ==
    ASSUME TypeInv, NEW r \in Requests, NEW u \in Users, NEW b \in BOOLEAN, Answer(r, u, b)
    PROVE  /\ request' \in [Requests -> Request]
           /\ given' \subseteq [user : Users, saved : BOOLEAN]
  BY DEF Answer, TypeInv, Request, NoRequest

\* Every step keeps the types.
LEMMA NextKeepsTypes ==
    ASSUME Inv, [Next]_vars PROVE TypeInv'
<1> USE DEF Inv
<1>1. ASSUME NEW r \in Requests, NEW t \in Devicetypes, RequestArrives(r, t) PROVE TypeInv'
  BY <1>1 DEF RequestArrives, TypeInv, Request
<1>2. ASSUME NEW r \in Requests, Refused(r) PROVE TypeInv'
  BY <1>2 DEF Refused, TypeInv, Request, NoRequest
<1>3. ASSUME NEW r \in Requests, AnswerExisting(r) PROVE TypeInv'
  <2>1. PICK u \in Existing(request[r].user[1]) : Answer(r, u, FALSE)
    BY <1>3 DEF AnswerExisting
  <2>2. u \in ToSet(users)
    BY <2>1, ExistingIsLatest DEF Latest, TypeInv, StoresAreOrdered
  <2>3. u \in Users
    BY <2>2 DEF TypeInv, ToSet
  <2>4. request' \in [Requests -> Request] /\ given' \subseteq [user : Users, saved : BOOLEAN]
    BY <2>1, <2>3, AnswerTypes
  <2> QED
    BY <1>3, <2>4 DEF AnswerExisting, TypeInv
<1>4. ASSUME NEW r \in Requests, CreateUser(r) PROVE TypeInv'
  <2>1. NewUser(r) \in Users /\ users' \in Seq(Users) /\ made' \in 0..MaxUsers
    <3>1. made' = made + 1
      BY <1>4 DEF CreateUser
    <3>2. made + 1 \in 1..MaxUsers
      BY <1>4, CreateUserAdds
    <3> QED
      BY <1>4, <3>1, <3>2, CreateUserAdds
  <2>2. request' \in [Requests -> Request] /\ given' \subseteq [user : Users, saved : BOOLEAN]
    <3>1. CASE phase = "loaded"
      <4>1. /\ request' = [request EXCEPT ![r] = [at |-> "saving", user |-> NewUser(r)]]
            /\ given' = given
        BY <1>4, <3>1 DEF CreateUser, NewUser
      <4> QED
        BY <2>1, <4>1 DEF TypeInv, Request
    <3>2. CASE phase # "loaded"
      <4>1. Answer(r, NewUser(r), FALSE)
        BY <1>4, <3>2 DEF CreateUser, NewUser
      <4> QED
        BY <2>1, <4>1, AnswerTypes
    <3> QED
      BY <3>1, <3>2
  <2>3. UNCHANGED <<phase, disk, initial, link>>
    BY <1>4 DEF CreateUser
  <2> QED
    BY <2>1, <2>2, <2>3 DEF TypeInv
<1>5. ASSUME NEW r \in Requests, Saved(r) PROVE TypeInv'
  <2>1. PICK n \in DOMAIN users : disk' = SubSeq(users, 1, n)
    BY <1>5 DEF Saved
  <2>2. disk' \in Seq(Users)
    BY <2>1 DEF TypeInv
  <2>3. request[r] \in Request /\ request[r].at = "saving"
    BY <1>5 DEF Saved, TypeInv
  <2>4. request[r].user \in Users
    BY <2>3 DEF Request
  <2>5. request' \in [Requests -> Request] /\ given' \subseteq [user : Users, saved : BOOLEAN]
    BY <1>5, <2>4, AnswerTypes DEF Saved
  <2> QED
    BY <1>5, <2>2, <2>5 DEF Saved, TypeInv
<1>6. ASSUME LinkExpires \/ WindowEnds \/ PressLink \/ Reload PROVE TypeInv'
  BY <1>6 DEF LinkExpires, WindowEnds, PressLink, Reload, TypeInv
<1>7. ASSUME OpenWindow \/ CreateEntry \/ RemoveEntry PROVE TypeInv'
  <2>1. <<>> \in Seq(Users)
    OBVIOUS
  <2>2. CASE OpenWindow
    BY <2>1, <2>2 DEF OpenWindow, TypeInv
  <2>3. CASE CreateEntry
    BY <2>3 DEF CreateEntry, TypeInv
  <2>4. CASE RemoveEntry
    BY <2>1, <2>4 DEF RemoveEntry, TypeInv
  <2> QED
    BY <1>7, <2>2, <2>3, <2>4
<1>8. ASSUME SetUp PROVE TypeInv'
  <2>1. Import(disk) \in Seq(Users)
    BY ImportAdds DEF Imported, TypeInv
  <2>2. users' \in Seq(Users) /\ disk' \in Seq(Users)
    BY <1>8, <2>1 DEF SetUp, TypeInv
  <2>3. given' \subseteq [user : Users, saved : BOOLEAN]
    BY <1>8 DEF SetUp, TypeInv
  <2> QED
    BY <1>8, <2>2, <2>3 DEF SetUp, TypeInv
<1>9. ASSUME Crash PROVE TypeInv'
  BY <1>9 DEF Crash, TypeInv, Request, NoRequest
<1>10. CASE UNCHANGED vars
  BY <1>10 DEF vars, TypeInv
<1> QED
  BY <1>1, <1>2, <1>3, <1>4, <1>5, <1>6, <1>7, <1>8, <1>9, <1>10 DEF Next

-----------------------------------------------------------------------------
(* The order of the stores, step by step *)

\* The steps that leave the stores alone.
SameStores == UNCHANGED <<users, disk, initial, made>>

\* A step that leaves the stores alone keeps them in order.
LEMMA SameStoresKeepOrder == StoresAreOrdered /\ SameStores => StoresAreOrdered'
  BY DEF SameStores, StoresAreOrdered, Ordered, MadeBefore

\* So does every other.
LEMMA NextKeepsOrder ==
    ASSUME Inv, [Next]_vars PROVE StoresAreOrdered'
<1> USE DEF Inv
<1>1. ASSUME NEW r \in Requests, NEW t \in Devicetypes, RequestArrives(r, t) PROVE SameStores
  BY <1>1 DEF RequestArrives, SameStores
<1>2. ASSUME NEW r \in Requests, Refused(r) \/ AnswerExisting(r) PROVE SameStores
  BY <1>2 DEF Refused, AnswerExisting, SameStores
<1>3. ASSUME NEW r \in Requests, CreateUser(r) PROVE StoresAreOrdered'
  <2> DEFINE u == NewUser(r)
  <2>1. made' = made + 1 /\ disk' = disk /\ initial' = initial
    BY <1>3 DEF CreateUser
  <2>2. u \in Users /\ users' = Append(users, u) /\ ToSet(users') = ToSet(users) \cup {u}
    BY <1>3, CreateUserAdds
  <2>3. Ordered(users')
    <3>1. \A v \in ToSet(users) : v[2] < u[2]
      BY <1>3, CreateUserAdds
    <3> QED
      BY <2>2, <3>1, AppendYounger DEF StoresAreOrdered, TypeInv
  <2>4. \A s \in {users, disk, initial} : \A v \in ToSet(s) : v[2] <= made'
    <3>1. ASSUME NEW s \in Seq(Users), MadeBefore(s), NEW v \in ToSet(s) PROVE v[2] <= made'
      <4>1. v[2] < made + 1
        BY <3>1, NewUserIsYounger
      <4>2. v \in Users
        BY <3>1 DEF ToSet
      <4>3. v[2] \in Nat /\ made \in Nat
        BY <4>2, MaxUsersAssumption DEF Users, TypeInv
      <4> QED
        BY <2>1, <4>1, <4>3
    <3> QED
      BY <3>1 DEF TypeInv, StoresAreOrdered
  <2>5. u[2] <= made'
    BY <2>1 DEF TypeInv, NewUser
  <2> HIDE DEF u
  <2>6. \A v \in ToSet(users') : v[2] <= made'
    BY <2>2, <2>4, <2>5
  <2> QED
    BY <2>1, <2>3, <2>4, <2>6 DEF StoresAreOrdered, Ordered, MadeBefore
<1>4. ASSUME NEW r \in Requests, Saved(r) PROVE StoresAreOrdered'
  <2>1. PICK n \in DOMAIN users : disk' = SubSeq(users, 1, n)
    BY <1>4 DEF Saved
  <2>2. Ordered(disk') /\ ToSet(disk') \subseteq ToSet(users)
    BY <2>1, Snapshot DEF TypeInv, StoresAreOrdered
  <2>3. UNCHANGED <<users, initial, made>>
    BY <1>4 DEF Saved
  <2> QED
    BY <2>2, <2>3 DEF StoresAreOrdered, Ordered, MadeBefore
<1>5. ASSUME LinkExpires \/ WindowEnds \/ PressLink \/ Reload \/ Crash PROVE SameStores
  BY <1>5 DEF LinkExpires, WindowEnds, PressLink, Reload, Crash, SameStores
<1>6. ASSUME OpenWindow \/ RemoveEntry PROVE StoresAreOrdered'
  <2>1. Ordered(<<>>) /\ ToSet(<<>>) = {}
    BY DEF Ordered, ToSet
  <2>2. CASE OpenWindow
    BY <2>1, <2>2 DEF OpenWindow, StoresAreOrdered, Ordered, MadeBefore
  <2>3. CASE RemoveEntry
    BY <2>1, <2>3 DEF RemoveEntry, StoresAreOrdered, Ordered, MadeBefore
  <2> QED
    BY <1>6, <2>2, <2>3
<1>7. ASSUME CreateEntry PROVE StoresAreOrdered'
  BY <1>7 DEF CreateEntry, StoresAreOrdered, Ordered, MadeBefore
<1>8. ASSUME SetUp PROVE StoresAreOrdered'
  <2>1. Imported(Import(disk), disk, Len(initial))
    BY ImportAdds DEF TypeInv
  <2>2. Ordered(Import(disk))
    BY <2>1 DEF Imported, StoresAreOrdered, ImportsAreYounger
  <2>3. ToSet(Import(disk)) = ToSet(disk) \cup ToSet(initial)
    BY ImportAdds DEF TypeInv
  <2>4. users' = Import(disk) /\ disk' \in {disk, users'} /\ UNCHANGED <<initial, made>>
    BY <1>8 DEF SetUp
  <2>5. Ordered(users') /\ Ordered(disk')
    BY <2>2, <2>4 DEF StoresAreOrdered
  <2>6. MadeBefore(users') /\ MadeBefore(disk')
    BY <2>3, <2>4 DEF StoresAreOrdered, MadeBefore
  <2> QED
    BY <2>4, <2>5, <2>6 DEF StoresAreOrdered, Ordered, MadeBefore
<1>9. CASE UNCHANGED vars
  BY <1>9, SameStoresKeepOrder DEF vars, SameStores
<1> QED
  BY <1>1, <1>2, <1>3, <1>4, <1>5, <1>6, <1>7, <1>8, <1>9, SameStoresKeepOrder DEF Next

-----------------------------------------------------------------------------
(* What is imported, step by step *)

\* A handler's step that neither adds nor saves a user.
LEMMA SameStoresKeepImports ==
    ASSUME ImportsAreYounger, SameStores, UNCHANGED phase PROVE ImportsAreYounger'
  BY DEF SameStores, ImportsAreYounger, KnownOrLater, Begins

\* What is imported stays younger than what was there, and is imported whole.
LEMMA NextKeepsImports ==
    ASSUME Inv, [Next]_vars PROVE ImportsAreYounger'
<1> USE DEF Inv
<1> DEFINE Quiet == SameStores /\ UNCHANGED phase
<1>1. ASSUME NEW r \in Requests, NEW t \in Devicetypes, RequestArrives(r, t) PROVE Quiet
  BY <1>1 DEF RequestArrives, SameStores
<1>2. ASSUME NEW r \in Requests, Refused(r) \/ AnswerExisting(r) PROVE Quiet
  BY <1>2 DEF Refused, AnswerExisting, SameStores
<1>3. ASSUME LinkExpires \/ PressLink PROVE Quiet
  BY <1>3 DEF LinkExpires, PressLink, SameStores
<1>4. CASE UNCHANGED vars
  BY <1>4, SameStoresKeepImports DEF vars, SameStores
<1>5. ASSUME NEW r \in Requests, CreateUser(r) PROVE ImportsAreYounger'
  <2> DEFINE u == NewUser(r)
  <2>1. /\ u \in Users /\ users' = Append(users, u) /\ ToSet(users') = ToSet(users) \cup {u}
        /\ \A v \in ToSet(disk) : v[2] < u[2]
    BY <1>5, CreateUserAdds
  <2> HIDE DEF u
  <2>2. UNCHANGED <<phase, disk, initial>>
    BY <1>5 DEF CreateUser
  <2>3. phase = "loaded" => Begins(disk, users')
    BY <2>1, AppendYounger DEF ImportsAreYounger, TypeInv
  <2>4. phase \in {"pairing", "closing"} =>
          \A x \in ToSet(users'), v \in ToSet(disk) : v[2] < x[2]
    BY <2>1 DEF ImportsAreYounger
  <2> QED
    BY <2>2, <2>3, <2>4 DEF ImportsAreYounger, KnownOrLater, Begins
<1>6. ASSUME NEW r \in Requests, Saved(r) PROVE ImportsAreYounger'
  <2>1. PICK n \in DOMAIN users : n >= Len(disk) /\ disk' = SubSeq(users, 1, n)
    BY <1>6 DEF Saved
  <2>2. UNCHANGED <<phase, users, initial>>
    BY <1>6 DEF Saved
  <2>3. phase = "loaded"
    BY <1>6 DEF Saved, SavesAreUnderWay
  <2>4. Begins(disk', users)
    BY <2>1, Snapshot DEF TypeInv
  <2>5. ToSet(disk) \subseteq ToSet(disk')
    BY <2>1, <2>3, Snapshot DEF TypeInv, ImportsAreYounger
  <2>6. ToSet(initial) \subseteq ToSet(disk')
    BY <2>3, <2>5 DEF ImportsAreYounger
  <2> QED
    BY <2>2, <2>3, <2>4, <2>6 DEF ImportsAreYounger, KnownOrLater, Begins
<1>7. ASSUME OpenWindow PROVE ImportsAreYounger'
  <2>1. ToSet(<<>>) = {}
    BY DEF ToSet
  <2> QED
    BY <1>7, <2>1 DEF OpenWindow, ImportsAreYounger, KnownOrLater
<1>8. ASSUME WindowEnds PROVE ImportsAreYounger'
  BY <1>8 DEF WindowEnds, ImportsAreYounger, KnownOrLater
<1>9. ASSUME CreateEntry PROVE ImportsAreYounger'
  BY <1>9 DEF CreateEntry, ImportsAreYounger, KnownOrLater
<1>10. ASSUME Reload \/ Crash PROVE ImportsAreYounger'
  BY <1>10 DEF Reload, Crash, ImportsAreYounger, KnownOrLater
<1>11. ASSUME RemoveEntry PROVE ImportsAreYounger'
  <2>1. ToSet(<<>>) = {}
    BY DEF ToSet
  <2> QED
    BY <1>11, <2>1 DEF RemoveEntry, ImportsAreYounger, KnownOrLater
<1>12. ASSUME SetUp PROVE ImportsAreYounger'
  <2>1. /\ Begins(disk, users')
        /\ ToSet(users') = ToSet(disk) \cup ToSet(initial)
    BY <1>12, ImportAdds DEF SetUp, Imported, TypeInv
  <2>2. initial' = initial /\ phase' = "loaded"
    BY <1>12 DEF SetUp
  <2>3. Begins(disk', users') /\ ToSet(initial) \subseteq ToSet(disk')
    <3>1. CASE initial = <<>>
      <4>1. disk' = disk
        BY <1>12, <3>1 DEF SetUp
      <4> QED
        BY <2>1, <3>1, <4>1 DEF ToSet
    <3>2. CASE initial # <<>>
      <4>1. disk' = users'
        BY <1>12, <3>2 DEF SetUp
      <4> QED
        BY <2>1, <4>1 DEF Begins
    <3> QED
      BY <3>1, <3>2
  <2> QED
    BY <2>2, <2>3 DEF ImportsAreYounger, KnownOrLater, Begins
<1> QED
  BY <1>1, <1>2, <1>3, <1>4, <1>5, <1>6, <1>7, <1>8, <1>9, <1>10, <1>11, <1>12,
     SameStoresKeepImports DEF Next

-----------------------------------------------------------------------------
(* The saves under way, step by step *)

\* A handler moves, which saved nothing and saves nothing.
LEMMA OtherMovesKeepSaves ==
    ASSUME TypeInv, SavesAreUnderWay, NEW r \in Requests, request[r].at # "saving",
           NEW x, x.at # "saving", request' = [request EXCEPT ![r] = x],
           phase \notin {"none", "created"} \/ x.at = "none",
           UNCHANGED <<phase, users, disk>>
    PROVE  SavesAreUnderWay'
<1>1. \A q \in Requests : request'[q] = IF q = r THEN x ELSE request[q]
  BY DEF TypeInv
<1>2. (phase \in {"none", "created"} => NoneUnderWay)'
  BY <1>1 DEF SavesAreUnderWay, NoneUnderWay
<1>3. ASSUME NEW q \in Requests, request'[q].at = "saving"
      PROVE  phase' = "loaded" /\ Latest(request'[q].user, ToSet(users'))
  <2>1. request'[q] = request[q]
    BY <1>1, <1>3
  <2> QED
    BY <1>3, <2>1 DEF SavesAreUnderWay
<1>4. ASSUME phase' = "loaded", NEW u \in ToSet(users')
      PROVE  u \in ToSet(disk') \/ \E q \in Requests : request'[q] = [at |-> "saving", user |-> u]
  <2>1. CASE u \in ToSet(disk)
    BY <2>1
  <2>2. CASE \E q \in Requests : request[q] = [at |-> "saving", user |-> u]
    <3>1. PICK q \in Requests : request[q] = [at |-> "saving", user |-> u]
      BY <2>2
    <3>2. q # r
      BY <3>1
    <3> QED
      BY <1>1, <3>1, <3>2
  <2> QED
    BY <1>4, <2>1, <2>2 DEF SavesAreUnderWay
<1> QED
  BY <1>2, <1>3, <1>4 DEF SavesAreUnderWay

\* A handler that has a body is under way, and the servers with it.
LEMMA HandlerHasServer ==
    ASSUME SavesAreUnderWay, NEW r \in Requests, request[r].at # "none"
    PROVE  phase \notin {"none", "created"}
  BY DEF SavesAreUnderWay, NoneUnderWay

\* No handler saves.
Idle == \A r \in Requests : request[r].at # "saving"

\* With no save under way, nothing is waited for.
LEMMA IdleKeepsSaves ==
    ASSUME SavesAreUnderWay, Idle, request' = request,
           phase' # "loaded", phase' \in {"none", "created"} => NoneUnderWay
    PROVE  SavesAreUnderWay'
  BY DEF SavesAreUnderWay, Idle, NoneUnderWay

\* No request is no save.
LEMMA NoneIsIdle == ASSUME NoneUnderWay PROVE Idle
  BY DEF NoneUnderWay, Idle

\* What the file lacks is being saved.
LEMMA NextKeepsSaves ==
    ASSUME Inv, [Next]_vars PROVE SavesAreUnderWay'
<1> USE DEF Inv
<1>1. ASSUME NEW r \in Requests, NEW t \in Devicetypes, RequestArrives(r, t)
      PROVE  SavesAreUnderWay'
  BY <1>1, OtherMovesKeepSaves DEF RequestArrives
<1>2. ASSUME NEW r \in Requests, Refused(r) PROVE SavesAreUnderWay'
  BY <1>2, OtherMovesKeepSaves DEF Refused, NoRequest
<1>3. ASSUME NEW r \in Requests, AnswerExisting(r) PROVE SavesAreUnderWay'
  BY <1>3, OtherMovesKeepSaves DEF AnswerExisting, Answer, NoRequest
<1>4. ASSUME NEW r \in Requests, CreateUser(r) PROVE SavesAreUnderWay'
  <2> DEFINE u == NewUser(r)
  <2>1. /\ ToSet(users') = ToSet(users) \cup {u}
        /\ \A v \in ToSet(users) : v[1] # u[1]
        /\ u \in Users
    BY <1>4, CreateUserAdds
  <2>2. phase' = phase /\ disk' = disk /\ request[r].at = "body"
    BY <1>4 DEF CreateUser
  <2>3. phase \notin {"none", "created"}
    BY <2>2, HandlerHasServer
  <2>4. CASE phase = "loaded"
    <3>1. request' = [request EXCEPT ![r] = [at |-> "saving", user |-> u]]
      BY <1>4, <2>4 DEF CreateUser, NewUser
    <3>2. \A q \in Requests :
            request'[q] = IF q = r THEN [at |-> "saving", user |-> u] ELSE request[q]
      BY <3>1 DEF TypeInv
    <3>3. u[2] \in Nat
      BY <2>1, MaxUsersAssumption DEF Users
    <3> HIDE DEF u
    <3>4. ASSUME NEW q \in Requests, request'[q].at = "saving"
          PROVE  Latest(request'[q].user, ToSet(users'))
      <4>1. CASE q = r
        <5>1. request'[q].user = u
          BY <3>2, <4>1
        <5>2. Latest(u, ToSet(users'))
          BY <2>1, <3>3 DEF Latest
        <5> QED
          BY <5>1, <5>2
      <4>2. CASE q # r
        <5>1. request'[q] = request[q] /\ Latest(request[q].user, ToSet(users))
          BY <3>2, <3>4, <4>2 DEF SavesAreUnderWay
        <5> QED
          BY <2>1, <5>1 DEF Latest
      <4> QED
        BY <4>1, <4>2
    <3>5. ASSUME NEW v \in ToSet(users')
          PROVE  \/ v \in ToSet(disk')
                 \/ \E q \in Requests : request'[q] = [at |-> "saving", user |-> v]
      <4>1. CASE v = u
        BY <3>2, <4>1
      <4>2. CASE v \in ToSet(disk)
        BY <2>2, <4>2
      <4>3. CASE \E q \in Requests : request[q] = [at |-> "saving", user |-> v]
        <5>1. PICK q \in Requests : request[q] = [at |-> "saving", user |-> v]
          BY <4>3
        <5>2. q # r
          BY <2>2, <5>1
        <5> QED
          BY <3>2, <5>1, <5>2
      <4> QED
        BY <2>1, <2>4, <4>1, <4>2, <4>3 DEF SavesAreUnderWay
    <3> QED
      BY <2>2, <2>4, <3>4, <3>5 DEF SavesAreUnderWay
  <2>5. CASE phase # "loaded"
    <3>1. request' = [request EXCEPT ![r] = NoRequest]
      BY <1>4, <2>5 DEF CreateUser, Answer
    <3>2. \A q \in Requests : request'[q] = IF q = r THEN NoRequest ELSE request[q]
      BY <3>1 DEF TypeInv
    <3> QED
      BY <2>2, <2>3, <2>5, <3>2 DEF SavesAreUnderWay, NoRequest
  <2> QED
    BY <2>4, <2>5
<1>5. ASSUME NEW r \in Requests, Saved(r) PROVE SavesAreUnderWay'
  <2>1. PICK n \in DOMAIN users : /\ n >= Len(disk) /\ disk' = SubSeq(users, 1, n)
                                  /\ request[r].user \in ToSet(SubSeq(users, 1, n))
    BY <1>5 DEF Saved
  <2>2. UNCHANGED <<phase, users>> /\ request[r].at = "saving"
    BY <1>5 DEF Saved
  <2>3. request' = [request EXCEPT ![r] = NoRequest]
    BY <1>5 DEF Saved, Answer
  <2>4. \A q \in Requests : request'[q] = IF q = r THEN NoRequest ELSE request[q]
    BY <2>3 DEF TypeInv
  <2>5. phase = "loaded"
    BY <2>2 DEF SavesAreUnderWay
  <2>6. ToSet(disk) \subseteq ToSet(disk')
    BY <2>1, <2>5, Snapshot DEF TypeInv, ImportsAreYounger
  <2>7. ASSUME NEW v \in ToSet(users')
        PROVE  \/ v \in ToSet(disk')
               \/ \E q \in Requests : request'[q] = [at |-> "saving", user |-> v]
    <3>1. CASE v \in ToSet(disk)
      BY <2>6, <3>1
    <3>2. CASE \E q \in Requests : request[q] = [at |-> "saving", user |-> v]
      <4>1. PICK q \in Requests : request[q] = [at |-> "saving", user |-> v]
        BY <3>2
      <4>2. CASE q = r
        BY <2>1, <4>1, <4>2
      <4>3. CASE q # r
        BY <2>4, <4>1, <4>3
      <4> QED
        BY <4>2, <4>3
    <3> QED
      BY <2>2, <2>5, <3>1, <3>2 DEF SavesAreUnderWay
  <2> QED
    BY <2>2, <2>4, <2>5, <2>7 DEF SavesAreUnderWay, NoRequest
<1>6. ASSUME LinkExpires \/ PressLink PROVE SavesAreUnderWay'
  <2>1. UNCHANGED <<phase, users, disk, request>>
    BY <1>6 DEF LinkExpires, PressLink
  <2> QED
    BY <2>1 DEF SavesAreUnderWay, NoneUnderWay
<1>7. ASSUME OpenWindow \/ WindowEnds PROVE SavesAreUnderWay'
  <2>1. phase # "loaded" /\ phase' \notin {"none", "created", "loaded"} /\ request' = request
    BY <1>7 DEF OpenWindow, WindowEnds
  <2>2. Idle
    BY <2>1 DEF SavesAreUnderWay, Idle
  <2> QED
    BY <2>1, <2>2, IdleKeepsSaves
<1>8. ASSUME CreateEntry \/ Reload \/ RemoveEntry PROVE SavesAreUnderWay'
  <2>1. NoneUnderWay /\ phase' \in {"none", "created"} /\ request' = request
    BY <1>8 DEF CreateEntry, Reload, RemoveEntry
  <2> QED
    BY <2>1, NoneIsIdle, IdleKeepsSaves
<1>9. ASSUME SetUp PROVE SavesAreUnderWay'
  <2>1. phase' = "loaded" /\ request' = request /\ NoneUnderWay
    BY <1>9 DEF SetUp, SavesAreUnderWay
  <2>2. ToSet(users') \subseteq ToSet(disk')
    <3>1. CASE initial = <<>>
      BY <1>9, <3>1, ImportAdds DEF SetUp, TypeInv
    <3>2. CASE initial # <<>>
      BY <1>9, <3>2 DEF SetUp
    <3> QED
      BY <3>1, <3>2
  <2> QED
    BY <2>1, <2>2 DEF SavesAreUnderWay, NoneUnderWay
<1>10. ASSUME Crash PROVE SavesAreUnderWay'
  <2>1. phase' = "created" /\ \A r \in Requests : request'[r] = NoRequest
    BY <1>10 DEF Crash
  <2> QED
    BY <2>1 DEF SavesAreUnderWay, NoneUnderWay, NoRequest
<1>11. CASE UNCHANGED vars
  BY <1>11 DEF vars, SavesAreUnderWay, NoneUnderWay
<1> QED
  BY <1>1, <1>2, <1>3, <1>4, <1>5, <1>6, <1>7, <1>8, <1>9, <1>10, <1>11 DEF Next

-----------------------------------------------------------------------------
(* What the TVs were told, step by step *)

\* Nothing was told, and the users that count are the same.
LEMMA SameUsersKeepGiven ==
    ASSUME GivenAreLatest, UNCHANGED <<phase, users, disk, initial, given>>
    PROVE  GivenAreLatest'
  BY DEF GivenAreLatest, Known

\* A TV is told the youngest user of its devicetype; what is on disk stays there.
LEMMA AnswerKeepsGiven ==
    ASSUME GivenAreLatest, NEW r \in Requests, NEW u, NEW b \in BOOLEAN, Answer(r, u, b),
           phase' = phase, phase \notin {"none", "created"},
           Latest(u, ToSet(users')),
           \A g \in given : Latest(g.user, ToSet(users')),
           ToSet(disk) \subseteq ToSet(disk'),
           b => u \in ToSet(disk')
    PROVE  GivenAreLatest'
<1>1. given' = given \cup {[user |-> u, saved |-> b]}
  BY DEF Answer
<1>2. Known' = ToSet(users')
  BY DEF Known
<1>3. \A g \in given' : Latest(g.user, Known')
  BY <1>1, <1>2
<1>4. phase = "loaded" => \A g \in given' : g.saved => g.user \in ToSet(disk')
  BY <1>1 DEF GivenAreLatest
<1> QED
  BY <1>3, <1>4 DEF GivenAreLatest

\* A new user leaves the ones of other devicetypes the youngest of theirs.
LEMMA NewUserKeepsGiven ==
    ASSUME Inv, NEW r \in Requests, CreateUser(r)
    PROVE  /\ Latest(NewUser(r), ToSet(users'))
           /\ \A g \in given : Latest(g.user, ToSet(users'))
<1> DEFINE u == NewUser(r)
<1>1. /\ ToSet(users') = ToSet(users) \cup {u}
      /\ \A v \in ToSet(users) : v[1] # u[1]
      /\ u \in Users
  BY CreateUserAdds
<1>2. phase \notin {"none", "created"}
  BY HandlerHasServer DEF CreateUser, Inv
<1>3. \A g \in given : Latest(g.user, ToSet(users))
  BY <1>2 DEF GivenAreLatest, Known, Inv
<1>4. u[2] \in Nat
  BY <1>1, MaxUsersAssumption DEF Users
<1> HIDE DEF u
<1>5. Latest(u, ToSet(users'))
  BY <1>1, <1>4 DEF Latest
<1>6. \A g \in given : Latest(g.user, ToSet(users'))
  BY <1>1, <1>3 DEF Latest
<1> QED
  BY <1>5, <1>6 DEF u

\* What a TV was told stays the youngest of its devicetype, and on disk if it was saved.
LEMMA NextKeepsGiven ==
    ASSUME Inv, [Next]_vars PROVE GivenAreLatest'
<1> USE DEF Inv
<1>1. ASSUME NEW r \in Requests, NEW t \in Devicetypes, RequestArrives(r, t)
      PROVE  GivenAreLatest'
  BY <1>1, SameUsersKeepGiven DEF RequestArrives
<1>2. ASSUME NEW r \in Requests, Refused(r) PROVE GivenAreLatest'
  BY <1>2, SameUsersKeepGiven DEF Refused
<1>3. ASSUME NEW r \in Requests, AnswerExisting(r) PROVE GivenAreLatest'
  <2>1. PICK u \in Existing(request[r].user[1]) : Answer(r, u, FALSE)
    BY <1>3 DEF AnswerExisting
  <2>2. Latest(u, ToSet(users))
    BY <2>1, ExistingIsLatest DEF TypeInv, StoresAreOrdered
  <2>3. UNCHANGED <<phase, users, disk>> /\ phase \notin {"none", "created"}
    BY <1>3, HandlerHasServer DEF AnswerExisting
  <2>4. \A g \in given : Latest(g.user, ToSet(users'))
    BY <2>3 DEF GivenAreLatest, Known
  <2> QED
    BY <2>1, <2>2, <2>3, <2>4, AnswerKeepsGiven
<1>4. ASSUME NEW r \in Requests, CreateUser(r) PROVE GivenAreLatest'
  <2>1. /\ Latest(NewUser(r), ToSet(users'))
        /\ \A g \in given : Latest(g.user, ToSet(users'))
    BY <1>4, NewUserKeepsGiven
  <2>2. phase' = phase /\ disk' = disk /\ phase \notin {"none", "created"}
    BY <1>4, HandlerHasServer DEF CreateUser
  <2>3. CASE phase = "loaded"
    <3>1. given' = given
      BY <1>4, <2>3 DEF CreateUser
    <3> QED
      BY <2>1, <2>2, <3>1 DEF GivenAreLatest, Known
  <2>4. CASE phase # "loaded"
    <3>1. Answer(r, NewUser(r), FALSE)
      BY <1>4, <2>4 DEF CreateUser, NewUser
    <3> QED
      BY <2>1, <2>2, <3>1, AnswerKeepsGiven
  <2> QED
    BY <2>3, <2>4
<1>5. ASSUME NEW r \in Requests, Saved(r) PROVE GivenAreLatest'
  <2>1. PICK n \in DOMAIN users : /\ n >= Len(disk) /\ disk' = SubSeq(users, 1, n)
                                  /\ request[r].user \in ToSet(SubSeq(users, 1, n))
    BY <1>5 DEF Saved
  <2>2. UNCHANGED <<phase, users>> /\ Answer(r, request[r].user, TRUE)
    BY <1>5 DEF Saved
  <2>3. phase = "loaded" /\ Latest(request[r].user, ToSet(users'))
    BY <1>5 DEF Saved, SavesAreUnderWay
  <2>4. ToSet(disk) \subseteq ToSet(disk') /\ request[r].user \in ToSet(disk')
    BY <2>1, <2>3, Snapshot DEF TypeInv, ImportsAreYounger
  <2>5. \A g \in given : Latest(g.user, ToSet(users'))
    BY <2>2, <2>3 DEF GivenAreLatest, Known
  <2> QED
    BY <2>2, <2>3, <2>4, <2>5, AnswerKeepsGiven
<1>6. ASSUME LinkExpires \/ PressLink PROVE GivenAreLatest'
  BY <1>6, SameUsersKeepGiven DEF LinkExpires, PressLink
<1>7. ASSUME OpenWindow \/ RemoveEntry PROVE GivenAreLatest'
  BY <1>7 DEF OpenWindow, RemoveEntry, GivenAreLatest
<1>8. ASSUME WindowEnds PROVE GivenAreLatest'
  BY <1>8 DEF WindowEnds, GivenAreLatest, Known
<1>9. ASSUME CreateEntry PROVE GivenAreLatest'
  <2>1. /\ Known = ToSet(users) /\ Known' = ToSet(disk) \cup ToSet(users)
        /\ given' = given /\ phase' = "created"
    BY <1>9 DEF CreateEntry, Known
  <2>2. \A u \in ToSet(users), v \in ToSet(disk) : v[2] < u[2]
    BY <1>9 DEF CreateEntry, ImportsAreYounger
  <2>3. \A u \in ToSet(users) \cup ToSet(disk) : u[2] \in Nat
    BY MaxUsersAssumption DEF TypeInv, ToSet, Users
  <2>4. ASSUME NEW g \in given PROVE Latest(g.user, Known')
    <3>1. Latest(g.user, ToSet(users))
      BY <2>1 DEF GivenAreLatest
    <3> QED
      BY <2>1, <2>2, <2>3, <3>1 DEF Latest
  <2> QED
    BY <2>1, <2>4 DEF GivenAreLatest
<1>10. ASSUME Reload \/ Crash PROVE GivenAreLatest'
  <2>1. phase = "loaded" /\ phase' = "created" /\ UNCHANGED <<users, disk, initial>>
    BY <1>10 DEF Reload, Crash
  <2>2. Known' = ToSet(disk)
    BY <2>1 DEF Known, ImportsAreYounger
  <2>3. ToSet(disk) \subseteq ToSet(users)
    BY <2>1 DEF ImportsAreYounger, Begins, TypeInv, ToSet
  <2>4. given' \subseteq given /\ \A g \in given' : g.user \in ToSet(disk)
    <3>1. CASE Reload
      <4>1. NoneUnderWay /\ given' = given
        BY <3>1 DEF Reload
      <4>2. ASSUME NEW u \in ToSet(users) PROVE u \in ToSet(disk)
        <5>1. ASSUME NEW r \in Requests PROVE request[r] # [at |-> "saving", user |-> u]
          BY <4>1 DEF NoneUnderWay
        <5> QED
          BY <2>1, <5>1 DEF SavesAreUnderWay
      <4>3. \A g \in given : g.user \in ToSet(users)
        BY <2>1 DEF GivenAreLatest, Known, Latest
      <4> QED
        BY <4>1, <4>2, <4>3
    <3>2. CASE Crash
      <4>1. given' = {g \in given : g.saved \/ \E i \in DOMAIN disk : disk[i] = g.user}
        BY <3>2 DEF Crash
      <4> QED
        BY <2>1, <4>1 DEF GivenAreLatest, ToSet
    <3> QED
      BY <1>10, <3>1, <3>2
  <2>5. ASSUME NEW g \in given' PROVE Latest(g.user, ToSet(disk))
    <3>1. Latest(g.user, ToSet(users))
      BY <2>1, <2>4 DEF GivenAreLatest, Known
    <3> QED
      BY <2>3, <2>4, <3>1 DEF Latest
  <2> QED
    BY <2>1, <2>2, <2>5 DEF GivenAreLatest
<1>11. ASSUME SetUp PROVE GivenAreLatest'
  <2>1. ToSet(users') = ToSet(disk) \cup ToSet(initial)
    BY <1>11, ImportAdds DEF SetUp, TypeInv
  <2>2. Known = ToSet(users') /\ Known' = ToSet(users') /\ phase' = "loaded"
    BY <1>11, <2>1 DEF SetUp, Known
  <2>3. ToSet(users') \subseteq ToSet(disk')
    <3>1. CASE initial = <<>>
      BY <1>11, <3>1, ImportAdds DEF SetUp, TypeInv
    <3>2. CASE initial # <<>>
      BY <1>11, <3>2 DEF SetUp
    <3> QED
      BY <3>1, <3>2
  <2>4. ASSUME NEW g \in given' PROVE Latest(g.user, ToSet(users'))
    <3>1. PICK h \in given : g = [h EXCEPT !.saved = TRUE]
      BY <1>11 DEF SetUp
    <3>2. g.user = h.user
      BY <3>1 DEF TypeInv
    <3> QED
      BY <2>2, <3>2 DEF GivenAreLatest
  <2>5. \A g \in given' : g.user \in ToSet(disk')
    BY <2>3, <2>4 DEF Latest
  <2> QED
    BY <2>2, <2>4, <2>5 DEF GivenAreLatest
<1>12. CASE UNCHANGED vars
  BY <1>12, SameUsersKeepGiven DEF vars
<1> QED
  BY <1>1, <1>2, <1>3, <1>4, <1>5, <1>6, <1>7, <1>8, <1>9, <1>10, <1>11, <1>12 DEF Next

-----------------------------------------------------------------------------
(* The theorems *)

\* The invariant the properties follow from.
THEOREM PairingInvariant == Spec => []Inv
<1>1. Inv /\ [Next]_vars => Inv'
  BY NextKeepsTypes, NextKeepsOrder, NextKeepsImports, NextKeepsSaves, NextKeepsGiven DEF Inv
<1> QED
  BY <1>1, InitHolds, PTL DEF Spec

\* The types, and that neither UserStore nor its file nor the entry's data hold a user
\* twice, whatever is imported after which reload or crash.
THEOREM TypesAreRight == Spec => []TypeOK
<1>1. Inv => TypeOK
  <2> SUFFICES ASSUME Inv PROVE TypeOK
    OBVIOUS
  <2>1. \A s \in {users, disk, initial} : s \in Seq(Users) /\ Ordered(s)
    BY DEF Inv, TypeInv, StoresAreOrdered
  <2>2. \A s \in {users, disk, initial} : IsInjective(s) /\ \A i \in DOMAIN s : IsUser(s[i])
    BY <2>1, OrderedIsInjective DEF IsUser, Users
  <2>3. \A r \in Requests : request[r].at \in {"none", "body", "saving"}
    BY DEF Inv, TypeInv, Request
  <2>4. \A g \in given : IsUser(g.user) /\ g.saved \in BOOLEAN
    BY DEF Inv, TypeInv, IsUser, Users
  <2> QED
    BY <2>2, <2>3, <2>4 DEF TypeOK, Inv, TypeInv
<1> QED
  BY <1>1, PairingInvariant, PTL

\* create_user tells the TVs of one devicetype the same credentials, in any burst of any
\* length, through the import, reloads and crashes, and with any file left behind.
THEOREM BurstsAreConsistent == Spec => []BurstIsConsistent
<1>1. Inv => BurstIsConsistent
  <2> SUFFICES ASSUME Inv, NEW g \in given, NEW h \in given, g.user[1] = h.user[1]
               PROVE  g.user = h.user
    BY DEF BurstIsConsistent
  <2>1. Latest(g.user, Known) /\ Latest(h.user, Known)
    BY DEF Inv, GivenAreLatest
  <2>2. Known \subseteq Users
    BY DEF Inv, TypeInv, Known, ToSet
  <2> QED
    BY <2>1, <2>2, LatestIsOne
<1> QED
  BY <1>1, PairingInvariant, PTL

\* The loaded entry's UserStore knows every user a TV was told to use, but for those that
\* a crash lost before they were saved.
THEOREM AnsweredAreKnown == Spec => []AnsweredIsKnown
<1>1. Inv => AnsweredIsKnown
  BY DEF Inv, GivenAreLatest, Known, Latest, AnsweredIsKnown
<1> QED
  BY <1>1, PairingInvariant, PTL

\* A crash of the loaded entry loses only users that a request is still saving, and none
\* that a TV was told after its save.
LossIsLimited ==
    phase = "loaded" =>
        /\ \A u \in ToSet(users) \ ToSet(disk) :
             \E r \in Requests : request[r] = [at |-> "saving", user |-> u]
        /\ \A g \in given : g.saved => g.user \in ToSet(disk)

\* create_user answers only after the save it awaits: whatever the order in which
\* concurrent saves end, the file lacks nothing that a saved answer tells.
THEOREM SavedSurviveCrashes == Spec => []LossIsLimited
<1>1. Inv => LossIsLimited
  BY DEF Inv, SavesAreUnderWay, GivenAreLatest, LossIsLimited
<1> QED
  BY <1>1, PairingInvariant, PTL
=============================================================================
