-------------------------- MODULE LocationsProofs --------------------------
(***************************************************************************)
(* The generated configuration for every set of routes that validation     *)
(* lets come about, and every path.                                        *)
(***************************************************************************)
EXTENDS Locations, TLAPS, SequenceTheorems, FiniteSetTheorems

Path == Seq(Segments) \ {<<>>}

\* What POST requires of a path prefix.
Plain(p) == /\ p \in Path
            /\ \A i \in 1..Len(p) : p[i] # Nothing
            /\ p[1] # "_proxy"

Good(routes) == \A i \in DOMAIN routes : Plain(routes[i].path_prefix)

-----------------------------------------------------------------------------
(* Paths *)

\* A bounded, non-empty set of numbers has a largest one: of the intervals
\* from its members up to the bound, one is minimal.
LEMMA LargestExists ==
  ASSUME NEW n \in Nat, NEW T \in SUBSET (0..n), T # {}
  PROVE  \E x \in T : \A y \in T : y <= x
<1> DEFINE F == {(y + 1)..n : y \in T}
<1>1. IsFiniteSet(1..n)
  BY FS_Interval
<1>2. IsWellFoundedOn(StrictSubsetOrdering(1..n), SUBSET (1..n))
  BY <1>1, FS_StrictSubsetOrderingWellFounded, FS_FiniteSubsetsOfFinite
<1>3. F \subseteq SUBSET (1..n) /\ F # {}
  <2>1. \A y \in T : (y + 1)..n \subseteq 1..n
    OBVIOUS
  <2>2. F # {}
    BY Zenon
  <2> QED  BY <2>1, <2>2, Zenon
<1> HIDE DEF F
<1>4. PICK d \in F : \A e \in F : ~(<<e, d>> \in StrictSubsetOrdering(1..n))
  BY <1>2, <1>3, WFMin
<1>5. PICK x \in T : d = (x + 1)..n
  BY DEF F
<1>6. ASSUME NEW y \in T, ~(y <= x)
      PROVE  FALSE
  <2>1. (y + 1)..n \in F
    BY DEF F
  <2>2. (y + 1)..n \subseteq d /\ (y + 1)..n # d
    <3>1. (x + 1) \in d /\ (x + 1) \notin (y + 1)..n
      BY <1>5, <1>6
    <3> QED  BY <1>5, <1>6, <3>1
  <2>3. <<(y + 1)..n, d>> \in StrictSubsetOrdering(1..n)
    BY <1>3, <2>1, <2>2 DEF StrictSubsetOrdering
  <2> QED  BY <1>4, <2>1, <2>3
<1> QED  BY <1>6

\* A path has a first segment.
LEMMA PathLen ==
  ASSUME NEW p \in Path
  PROVE  p \in Seq(Segments) /\ Len(p) \in Nat /\ Len(p) >= 1 /\ p # <<>>
<1>1. p \in Seq(Segments) /\ p # <<>>
  BY DEF Path
<1> QED  BY <1>1, EmptySeq, LenProperties

\* A prefix with a slash after it.
LEMMA Appended ==
  ASSUME NEW p \in Path
  PROVE  /\ Append(p, Nothing) \in Path /\ Len(Append(p, Nothing)) = Len(p) + 1
         /\ Append(p, Nothing)[Len(p) + 1] = Nothing
         /\ Append(p, Nothing)[1] = p[1]
         /\ SubSeq(Append(p, Nothing), 1, Len(p)) = p
<1>1. p \in Seq(Segments) /\ Len(p) \in Nat /\ Len(p) >= 1
  BY PathLen
<1>2. Nothing \in Segments
  BY PathAssumption
<1>3. /\ Append(p, Nothing) \in Seq(Segments) /\ Len(Append(p, Nothing)) = Len(p) + 1
      /\ \A i \in 1..Len(p) : Append(p, Nothing)[i] = p[i]
      /\ Append(p, Nothing)[Len(p) + 1] = Nothing
      /\ Append(p, Nothing) # <<>>
  BY <1>1, <1>2, AppendProperties
<1>4. SubSeq(Append(p, Nothing), 1, Len(p)) = p
  <2> DEFINE q == Append(p, Nothing)
             r == SubSeq(q, 1, Len(p))
  <2>1. \A i \in 1..Len(p) : q[i] \in Segments
    BY <1>1, <1>3, LenProperties
  <2>2. /\ r \in Seq(Segments) /\ Len(r) = Len(p)
        /\ \A i \in 1..Len(p) : r[i] = q[i]
    BY <1>1, <2>1, SubSeqProperties
  <2> QED  BY <1>1, <1>3, <2>2, SeqEqual
<1>5. Append(p, Nothing)[1] = p[1]
  BY <1>1, <1>3
<1> QED  BY <1>3, <1>4, <1>5 DEF Path

\* Slashed adds the slash to what POST lets in.
LEMMA SlashedPlain ==
  ASSUME NEW p, Plain(p)
  PROVE  Slashed(p) = Append(p, Nothing)
<1>1. p \in Path
  BY DEF Plain
<1>2. Len(p) \in 1..Len(p)
  BY <1>1, PathLen
<1> QED  BY <1>2 DEF Slashed, Plain

\* The admin prefix and its slash.
LEMMA SlashedAdmin ==
  /\ Admin \in Path /\ Len(Admin) = 1 /\ Admin[1] = "_proxy"
  /\ Slashed(Admin) = Append(Admin, Nothing)
<1>1. "_proxy" # Nothing
  BY Zenon DEF Nothing
<1>2. "_proxy" \in Segments
  BY PathAssumption
<1> QED  BY <1>1, <1>2 DEF Slashed, Admin, Path

\* A path that a prefix stands at the beginning of begins with its segment.
LEMMA UnderFirst ==
  ASSUME NEW p \in Path, NEW u \in Path, Under(p, u)
  PROVE  p[1] = u[1]
<1>1. /\ p \in Seq(Segments) /\ Len(p) \in Nat /\ Len(p) >= 1
      /\ u \in Seq(Segments) /\ Len(u) \in Nat
  BY PathLen
<1>2. Len(p) <= Len(u) /\ SubSeq(u, 1, Len(p)) = p
  BY DEF Under
<1>3. \A i \in 1..Len(p) : u[i] \in Segments
  BY <1>1, <1>2, LenProperties
<1>4. \A i \in 1..Len(p) : SubSeq(u, 1, Len(p))[i] = u[i]
  BY <1>1, <1>3, SubSeqProperties
<1> QED  BY <1>1, <1>2, <1>4

\* A path stands at its own beginning, and nothing else that long does.
LEMMA UnderItself ==
  ASSUME NEW u \in Path
  PROVE  /\ Under(u, u)
         /\ \A p \in Path : Under(p, u) /\ Len(p) = Len(u) => p = u
<1>1. u \in Seq(Segments) /\ Len(u) \in Nat
  BY PathLen
<1>2. \A i \in 1..Len(u) : u[i] \in Segments
  BY <1>1, LenProperties
<1>3. /\ SubSeq(u, 1, Len(u)) \in Seq(Segments)
      /\ Len(SubSeq(u, 1, Len(u))) = Len(u)
      /\ \A i \in 1..Len(u) : SubSeq(u, 1, Len(u))[i] = u[i]
  BY <1>1, <1>2, SubSeqProperties
<1>4. SubSeq(u, 1, Len(u)) = u
  BY <1>1, <1>3, SeqEqual
<1> QED  BY <1>1, <1>4 DEF Under

\* The admin area is the paths that begin with its segment.
LEMMA UnderAdmin ==
  ASSUME NEW u \in Path
  PROVE  Under(Admin, u) <=> u[1] = "_proxy"
<1>1. u \in Seq(Segments) /\ Len(u) \in Nat /\ Len(u) >= 1
  BY PathLen
<1>2. Under(Admin, u) => u[1] = "_proxy"
  BY SlashedAdmin, UnderFirst
<1>3. \A i \in 1..1 : u[i] \in Segments
  BY <1>1, LenProperties
<1>4. /\ SubSeq(u, 1, 1) \in Seq(Segments) /\ Len(SubSeq(u, 1, 1)) = 1
      /\ SubSeq(u, 1, 1)[1] = u[1]
  BY <1>1, <1>3, SubSeqProperties
<1>5. ASSUME u[1] = "_proxy"
      PROVE  SubSeq(u, 1, 1) = Admin
  <2>1. \A i \in 1..1 : SubSeq(u, 1, 1)[i] = Admin[i]
    BY <1>4, <1>5, SlashedAdmin
  <2> QED  BY <1>4, <2>1, SlashedAdmin, PathLen, SeqEqual
<1> QED  BY <1>1, <1>2, <1>5, SlashedAdmin DEF Under

-----------------------------------------------------------------------------
(* The configuration, location by location *)

Healthz    == Location(0, "exact", <<"healthz">>, [do |-> "health"])
AdminBare  == Location(0, "exact", Admin, Redirect(Slashed(Admin)))
AdminBelow == Location(0, "prefix", Slashed(Admin), Proxy(AdminApi, TRUE))
RootFiles  == Location(0, "prefix", Root, [do |-> "files"])

Bare(i, row)  == Location(i, "exact", row.path_prefix,
                          Redirect(Append(row.path_prefix, Nothing)))
Below(i, row) == Location(i, "prefix", Append(row.path_prefix, Nothing),
                          Proxy(Target(row), row.strip_prefix))

\* What the locations are, which is all the rest needs of them.
LEMMA StaticFields ==
  /\ Healthz.owner = 0 /\ AdminBare.owner = 0
  /\ AdminBelow.owner = 0 /\ RootFiles.owner = 0
  /\ Healthz.match = "exact" /\ Healthz.path = <<"healthz">>
  /\ AdminBare.match = "exact" /\ AdminBare.path = Admin
  /\ AdminBare.act = Redirect(Slashed(Admin))
  /\ AdminBelow.match = "prefix" /\ AdminBelow.path = Append(Admin, Nothing)
  /\ AdminBelow.act = Proxy(AdminApi, TRUE)
  /\ RootFiles.match = "prefix" /\ RootFiles.path = Root
  /\ RootFiles.act.do = "files"
BY SlashedAdmin DEF Healthz, AdminBare, AdminBelow, RootFiles, Location

\* The same for a route's two locations.
LEMMA RouteFields ==
  ASSUME NEW i, NEW row
  PROVE  /\ Bare(i, row).owner = i /\ Below(i, row).owner = i
         /\ Bare(i, row).match = "exact"
         /\ Bare(i, row).path = row.path_prefix
         /\ Bare(i, row).act = Redirect(Append(row.path_prefix, Nothing))
         /\ Below(i, row).match = "prefix"
         /\ Below(i, row).path = Append(row.path_prefix, Nothing)
         /\ Below(i, row).act = Proxy(Target(row), row.strip_prefix)
BY DEF Bare, Below, Location

\* The configuration is the static locations and two per enabled route.
LEMMA ConfIs ==
  ASSUME NEW routes, Good(routes)
  PROVE  Conf(routes) =
           {Healthz, AdminBare, AdminBelow, RootFiles} \union
           {Bare(i, routes[i]) : i \in DOMAIN routes} \union
           {Below(i, routes[i]) : i \in DOMAIN routes}
<1>1. Static = {Healthz, AdminBare, AdminBelow, RootFiles}
  BY DEF Static, Healthz, AdminBare, AdminBelow, RootFiles
<1>2. \A i \in DOMAIN routes :
        Block(i, routes[i]) = {Bare(i, routes[i]), Below(i, routes[i])}
  <2>1. TAKE i \in DOMAIN routes
  <2>2. Slashed(routes[i].path_prefix) = Append(routes[i].path_prefix, Nothing)
    BY SlashedPlain DEF Good
  <2> QED  BY <2>2 DEF Block, Bare, Below
<1>3. render(routes) = {Bare(i, routes[i]) : i \in DOMAIN routes} \union
                      {Below(i, routes[i]) : i \in DOMAIN routes}
  <2> DEFINE E == DOMAIN routes
             B(i) == Block(i, routes[i])
             X(i) == Bare(i, routes[i])
             Y(i) == Below(i, routes[i])
  <2>1. \A i \in E : B(i) = {X(i), Y(i)}
    BY <1>2
  <2> HIDE DEF E, B, X, Y
  <2>2. UNION {B(i) : i \in E} = {X(i) : i \in E} \union {Y(i) : i \in E}
    BY <2>1
  <2> QED  BY <2>2 DEF render, E, B, X, Y
<1> QED  BY <1>1, <1>3 DEF Conf

\* The paths of the static locations.
LEMMA RootPath ==
  /\ Root \in Path /\ Len(Root) = 1 /\ Root[1] = Nothing
  /\ SubSeq(Root, 1, Len(Root) - 1) = <<>>
  /\ Nothing # "_proxy"
<1>1. Nothing # "_proxy"
  BY Zenon DEF Nothing
<1>2. Nothing \in Segments
  BY PathAssumption
<1>3. Root \in Path /\ Len(Root) = 1 /\ Root[1] = Nothing
  BY <1>2 DEF Root, Path
<1> QED  BY <1>1, <1>3, SubSeqEmpty

\* The stem of a location is the prefix it stands for.
LEMMA AppendStem ==
  ASSUME NEW p \in Path
  PROVE  SubSeq(Append(p, Nothing), 1, Len(Append(p, Nothing)) - 1) = p
<1>1. Len(Append(p, Nothing)) - 1 = Len(p)
  BY Appended, PathLen
<1> QED  BY <1>1, Appended

\* The stems of the static prefix locations.
LEMMA StaticStems ==
  Stem(AdminBelow) = Admin /\ Stem(RootFiles) = <<>>
<1>1. Stem(AdminBelow) = Admin
  BY AppendStem, StaticFields, SlashedAdmin DEF Stem
<1>2. Stem(RootFiles) = <<>>
  BY StaticFields, RootPath DEF Stem
<1> QED  BY <1>1, <1>2

\* The stem of a route's prefix location is the route's prefix.
LEMMA RouteStem ==
  ASSUME NEW i, NEW row, row.path_prefix \in Path
  PROVE  Stem(Below(i, row)) = row.path_prefix
<1>1. Below(i, row).path = Append(row.path_prefix, Nothing)
  BY RouteFields
<1> QED  BY <1>1, AppendStem DEF Stem

\* Everything is below the root.
LEMMA UnderRoot ==
  ASSUME NEW u \in Path
  PROVE  Under(<<>>, u)
<1>1. SubSeq(u, 1, 0) = <<>>
  BY SubSeqEmpty
<1>2. Len(<<>>) = 0 /\ Len(u) \in Nat
  BY EmptySeq, PathLen
<1> QED  BY <1>1, <1>2 DEF Under

\* The exact locations of a path that is a route's or nobody's.
LEMMA ExactIs ==
  ASSUME NEW routes, Good(routes), NEW u \in Path,
         u # <<"healthz">>, u # Admin
  PROVE  Exact(Conf(routes), u) =
           {Bare(i, routes[i]) :
              i \in {j \in DOMAIN routes : routes[j].path_prefix = u}}
<1> DEFINE E == DOMAIN routes
           X(i) == Bare(i, routes[i])
           Y(i) == Below(i, routes[i])
           C == Conf(routes)
<1>1. C = {Healthz, AdminBare, AdminBelow, RootFiles} \union
          {X(i) : i \in E} \union {Y(i) : i \in E}
  BY ConfIs
<1>2. \A i \in E : /\ X(i).match = "exact" /\ X(i).path = routes[i].path_prefix
                   /\ Y(i).match = "prefix"
  BY RouteFields
<1>4. /\ Healthz.path # u /\ AdminBare.path # u
      /\ AdminBelow.match # "exact" /\ RootFiles.match # "exact"
  BY StaticFields
<1> HIDE DEF C, E, X, Y
<1>3. {l \in C : l.match = "exact" /\ l.path = u}
        = {X(i) : i \in {j \in E : routes[j].path_prefix = u}}
  <2>1. ASSUME NEW l \in C, l.match = "exact", l.path = u
        PROVE  \E i \in E : routes[i].path_prefix = u /\ l = X(i)
    <3>1. \/ l \in {Healthz, AdminBare, AdminBelow, RootFiles}
          \/ \E i \in E : l = X(i)
          \/ \E i \in E : l = Y(i)
      BY <1>1
    <3>2. "exact" # "prefix"
      OBVIOUS
    <3> QED  BY <1>2, <1>4, <2>1, <3>1, <3>2, Zenon
  <2>2. ASSUME NEW i \in E, routes[i].path_prefix = u
        PROVE  X(i) \in C /\ X(i).match = "exact" /\ X(i).path = u
    BY <1>1, <1>2, <2>2
  <2> QED  BY <2>1, <2>2
<1> QED  BY <1>3 DEF Exact, C, E, X

\* The prefix locations of a path outside the admin area: the files', and
\* those of the routes it is below.
LEMMA PrefixIs ==
  ASSUME NEW routes, Good(routes), NEW u \in Path, u[1] # "_proxy"
  PROVE  Prefix(Conf(routes), u) =
           {RootFiles} \union
           {Below(i, routes[i]) :
              i \in {j \in Owners(routes, u) :
                       Len(routes[j].path_prefix) < Len(u)}}
<1> DEFINE E == DOMAIN routes
           X(i) == Bare(i, routes[i])
           Y(i) == Below(i, routes[i])
           C == Conf(routes)
           In(l) == Len(l.path) <= Len(u) /\ Under(Stem(l), u)
           N == {j \in Owners(routes, u) : Len(routes[j].path_prefix) < Len(u)}
<1>1. C = {Healthz, AdminBare, AdminBelow, RootFiles} \union
          {X(i) : i \in E} \union {Y(i) : i \in E}
  BY ConfIs
<1>2. Len(u) \in Nat /\ Len(u) >= 1
  BY PathLen
<1>3. \A i \in E : /\ X(i).match = "exact" /\ Y(i).match = "prefix"
                   /\ In(Y(i)) <=> i \in N
  <2>1. TAKE i \in E
  <2> DEFINE p == routes[i].path_prefix
  <2>2. p \in Path
    BY DEF Good, Plain
  <2>3. Stem(Y(i)) = p /\ Y(i).path = Append(p, Nothing)
    BY <2>2, RouteStem, RouteFields
  <2>4. Len(Y(i).path) = Len(p) + 1 /\ Len(p) \in Nat
    BY <2>2, <2>3, Appended, PathLen
  <2>5. In(Y(i)) <=> i \in N
    <3>1. i \in N <=> Under(p, u) /\ Len(p) < Len(u)
      BY DEF Owners
    <3> HIDE DEF N, p, Y
    <3> QED  BY <1>2, <2>3, <2>4, <3>1
  <2> QED  BY <2>5, RouteFields
<1>4. ~In(AdminBelow)
  <2>1. ~Under(Admin, u)
    BY UnderAdmin
  <2> QED  BY <2>1, StaticStems
<1>5. In(RootFiles)
  BY <1>2, UnderRoot, RootPath, StaticFields, StaticStems
<1>6. N \subseteq E
  BY DEF Owners
<1> HIDE DEF C, E, X, Y, In, N
<1>7. {l \in C : l.match = "prefix" /\ In(l)}
        = {RootFiles} \union {Y(i) : i \in N}
  BY <1>1, <1>3, <1>4, <1>5, <1>6, StaticFields
<1> QED  BY <1>7 DEF Prefix, C, Y, In, N

-----------------------------------------------------------------------------
(* nginx's choice *)

\* What each location answers.
LEMMA Performs ==
  ASSUME NEW i, NEW row, NEW u
  PROVE  /\ AdminBare.act.do # "files" /\ AdminBelow.act.do # "files"
         /\ Bare(i, row).act.do # "files" /\ Below(i, row).act.do # "files"
         /\ Perform(AdminBare, u) = Moved(Slashed(Admin))
         /\ Perform(AdminBelow, u) = Sent(AdminApi, Drop(u, Len(Stem(AdminBelow))))
         /\ Perform(RootFiles, u) = File(u)
         /\ Perform(Bare(i, row), u) = Moved(Append(row.path_prefix, Nothing))
         /\ Perform(Below(i, row), u) =
              Sent(Target(row),
                   IF row.strip_prefix THEN Drop(u, Len(Stem(Below(i, row))))
                   ELSE u)
<1>1. Perform(AdminBare, u) = Moved(Slashed(Admin)) /\ AdminBare.act.do # "files"
  BY StaticFields DEF Redirect, Perform
<1>2. /\ Perform(AdminBelow, u) = Sent(AdminApi, Drop(u, Len(Stem(AdminBelow))))
      /\ AdminBelow.act.do # "files"
  BY StaticFields DEF Proxy, Perform
<1>3. Perform(RootFiles, u) = File(u)
  BY StaticFields DEF Perform
<1>4. /\ Perform(Bare(i, row), u) = Moved(Append(row.path_prefix, Nothing))
      /\ Bare(i, row).act.do # "files"
  <2>1. Bare(i, row).act = Redirect(Append(row.path_prefix, Nothing))
    BY RouteFields
  <2>2. /\ Bare(i, row).act.do = "redirect"
        /\ Bare(i, row).act.to = Append(row.path_prefix, Nothing)
    BY <2>1 DEF Redirect
  <2> QED  BY <2>2 DEF Perform
<1>5. /\ Perform(Below(i, row), u) =
           Sent(Target(row),
                IF row.strip_prefix THEN Drop(u, Len(Stem(Below(i, row)))) ELSE u)
      /\ Below(i, row).act.do # "files"
  <2>1. Below(i, row).act = Proxy(Target(row), row.strip_prefix)
    BY RouteFields
  <2>2. /\ Below(i, row).act.do = "proxy"
        /\ Below(i, row).act.target = Target(row)
        /\ Below(i, row).act.strips = row.strip_prefix
    BY <2>1 DEF Proxy
  <2> QED  BY <2>2 DEF Perform
<1> QED  BY <1>1, <1>2, <1>3, <1>4, <1>5

\* An exact location is taken, if there is one only.
LEMMA PickExact ==
  ASSUME NEW conf, NEW u, NEW l, Exact(conf, u) = {l}
  PROVE  Pick(conf, u) = l
BY DEF Pick

\* The longest prefix is taken otherwise.
LEMMA PickLongest ==
  ASSUME NEW conf, NEW u, Exact(conf, u) = {},
         NEW l \in Prefix(conf, u),
         \A m \in Prefix(conf, u) :
           Len(m.path) \in Nat /\ (m # l => Len(m.path) < Len(l.path))
  PROVE  Pick(conf, u) = l
<1> DEFINE P(k) == /\ k \in Prefix(conf, u)
                   /\ \A m \in Prefix(conf, u) : Len(m.path) <= Len(k.path)
<1>1. P(l)
  OBVIOUS
<1>2. \A k : P(k) => k = l
  OBVIOUS
<1>3. (CHOOSE k : P(k)) = l
  BY <1>1, <1>2
<1> QED  BY <1>3 DEF Pick

\* The admin area's requests go to the API.
LEMMA AdminAnswer ==
  ASSUME NEW routes, Good(routes), NEW u \in Path, u[1] = "_proxy"
  PROVE  Answer(Conf(routes), u) = IF u = Admin THEN Moved(Slashed(Admin))
                                  ELSE Sent(AdminApi, Drop(u, 1))
<1> DEFINE E == DOMAIN routes
           X(i) == Bare(i, routes[i])
           Y(i) == Below(i, routes[i])
           C == Conf(routes)
<1>1. C = {Healthz, AdminBare, AdminBelow, RootFiles} \union
          {X(i) : i \in E} \union {Y(i) : i \in E}
  BY ConfIs
<1>2. \A i \in E : /\ routes[i].path_prefix \in Path
                   /\ routes[i].path_prefix[1] # u[1]
  BY DEF Good, Plain
<1>3. \A i \in E : /\ X(i).match = "exact" /\ X(i).path # u
                   /\ Y(i).match = "prefix" /\ ~Under(Stem(Y(i)), u)
  BY <1>2, RouteFields, RouteStem, UnderFirst
<1>4. Healthz.path # u /\ Healthz.match = "exact"
  <2>1. <<"healthz">>[1] # "_proxy"
    OBVIOUS
  <2> QED  BY <2>1, StaticFields
<1>5. CASE u = Admin
  <2> HIDE DEF C, E, X, Y
  <2>1. {l \in C : l.match = "exact" /\ l.path = u} = {AdminBare}
    BY <1>1, <1>3, <1>4, <1>5, StaticFields
  <2>2. Pick(C, u) = AdminBare
    BY <2>1, PickExact DEF Exact
  <2> QED  BY <1>5, <2>2, Performs DEF Answer, C
<1>6. CASE u # Admin
  <2>1. Len(u) \in Nat /\ Len(u) >= 2 /\ Under(Admin, u)
    BY <1>6, UnderAdmin, UnderItself, SlashedAdmin, PathLen
  <2>2. /\ AdminBelow.path = Append(Admin, Nothing)
        /\ Len(AdminBelow.path) = 2 /\ Len(RootFiles.path) = 1
    <3>1. Len(Append(Admin, Nothing)) = 2
      <4>1. Len(Append(Admin, Nothing)) = Len(Admin) + 1
        BY SlashedAdmin, Appended
      <4> QED  BY <4>1, SlashedAdmin
    <3> QED  BY <3>1, StaticFields, RootPath
  <2>7. /\ Len(AdminBelow.path) <= Len(u) /\ Under(Stem(AdminBelow), u)
        /\ Len(RootFiles.path) <= Len(u) /\ Under(Stem(RootFiles), u)
    BY <2>1, <2>2, StaticStems, UnderRoot
  <2>8. /\ AdminBare.path # u /\ AdminBare.match = "exact"
        /\ AdminBelow.match = "prefix" /\ RootFiles.match = "prefix"
    BY <1>6, StaticFields
  <2> HIDE DEF C, E, X, Y
  <2>3. {l \in C : l.match = "exact" /\ l.path = u} = {}
    BY <1>1, <1>3, <1>4, <2>8
  <2>4. {l \in C : /\ l.match = "prefix"
                   /\ Len(l.path) <= Len(u) /\ Under(Stem(l), u)}
          = {RootFiles, AdminBelow}
    BY <1>1, <1>3, <1>4, <2>7, <2>8
  <2>5. Pick(C, u) = AdminBelow
    <3>1. Exact(C, u) = {}
      BY <2>3 DEF Exact
    <3>2. Prefix(C, u) = {RootFiles, AdminBelow}
      BY <2>4 DEF Prefix
    <3>3. /\ AdminBelow \in Prefix(C, u)
          /\ \A m \in Prefix(C, u) :
               Len(m.path) \in Nat
               /\ (m # AdminBelow => Len(m.path) < Len(AdminBelow.path))
      <4>1. /\ Len(RootFiles.path) \in Nat /\ Len(AdminBelow.path) \in Nat
            /\ Len(RootFiles.path) < Len(AdminBelow.path)
        BY <2>2
      <4> QED  BY <3>2, <4>1, Zenon
    <3> QED  BY <3>1, <3>3, PickLongest
  <2>6. Len(Stem(AdminBelow)) = 1
    BY StaticStems, SlashedAdmin
  <2> QED  BY <1>6, <2>5, <2>6, Performs DEF Answer, C
<1> QED  BY <1>5, <1>6

\* Prefixes are the routes' own.
Distinct(routes) ==
  \A i, j \in DOMAIN routes :
    routes[i].path_prefix = routes[j].path_prefix => i = j

\* Of the routes a path belongs to one has the longest prefix: two as long as
\* each other would be the same beginning of the path.
LEMMA LongestOwner ==
  ASSUME NEW routes, Good(routes), Distinct(routes), NEW u \in Path,
         Owners(routes, u) # {}
  PROVE  \E j \in Owners(routes, u) :
           /\ \A k \in Owners(routes, u) :
                k # j => Len(routes[k].path_prefix) < Len(routes[j].path_prefix)
           /\ j = CHOOSE i \in Owners(routes, u) :
                    \A k \in Owners(routes, u) :
                      Len(routes[k].path_prefix) <= Len(routes[i].path_prefix)
<1> DEFINE O == Owners(routes, u)
           p(i) == routes[i].path_prefix
           T == {Len(p(i)) : i \in O}
<1>1. Len(u) \in Nat
  BY PathLen
<1>2. \A i \in O : /\ p(i) \in Path /\ Len(p(i)) \in Nat /\ Len(p(i)) <= Len(u)
                   /\ p(i) = SubSeq(u, 1, Len(p(i)))
  BY PathLen DEF Owners, Under, Good, Plain
<1>3. \A i, k \in O : p(i) = p(k) => i = k
  BY DEF Owners, Distinct
<1> HIDE DEF O, p
<1>4. T \in SUBSET (0..Len(u)) /\ T # {}
  <2>1. \A i \in O : Len(p(i)) \in 0..Len(u)
    BY <1>1, <1>2
  <2>2. O # {}
    BY DEF O
  <2> QED  BY <2>1, <2>2
<1>5. PICK x \in T : \A y \in T : y <= x
  BY <1>1, <1>4, LargestExists
<1>6. PICK j \in O : x = Len(p(j))
  BY <1>5
<1>7. \A k \in O : Len(p(k)) <= Len(p(j))
  BY <1>5, <1>6
<1>8. \A k \in O : Len(p(k)) = Len(p(j)) => k = j
  BY <1>2, <1>3
<1>9. \A k \in O : k # j => Len(p(k)) < Len(p(j))
  BY <1>2, <1>7, <1>8
<1> DEFINE L(i) == i \in O /\ \A k \in O : Len(p(k)) <= Len(p(i))
<1>10. L(j)
  BY <1>7
<1>11. \A i : L(i) => i = j
  BY <1>2, <1>7, <1>8
<1> HIDE DEF L
<1>12. (CHOOSE i : L(i)) = j
  BY <1>10, <1>11
<1> QED  BY <1>9, <1>12 DEF L, O, p

\* Outside the admin area nginx does what the routes ask for.
LEMMA RouteAnswer ==
  ASSUME NEW routes, Good(routes), Distinct(routes), NEW u \in Path,
         u # <<"healthz">>, u[1] # "_proxy"
  PROVE  LET l == Pick(Conf(routes), u)
             r == routes[CHOOSE i \in Owners(routes, u) :
                          \A j \in Owners(routes, u) :
                            Len(routes[j].path_prefix) <= Len(routes[i].path_prefix)]
         IN  /\ IF Owners(routes, u) = {} THEN l = RootFiles
                ELSE l.act.do # "files"
             /\ Perform(l, u) =
                  IF Owners(routes, u) = {} THEN File(u)
                  ELSE IF u = r.path_prefix THEN Moved(Append(u, Nothing))
                  ELSE Sent(Target(r),
                            IF r.strip_prefix THEN Drop(u, Len(r.path_prefix))
                            ELSE u)
<1> DEFINE O == Owners(routes, u)
           C == Conf(routes)
           c == CHOOSE i \in O :
                  \A j \in O :
                    Len(routes[j].path_prefix) <= Len(routes[i].path_prefix)
           r == routes[c]
           N == {j \in O : Len(routes[j].path_prefix) < Len(u)}
<1>1. Exact(C, u) = {Bare(i, routes[i]) :
                      i \in {j \in DOMAIN routes : routes[j].path_prefix = u}}
  <2>1. Admin[1] = "_proxy"
    BY SlashedAdmin
  <2> QED  BY <2>1, ExactIs
<1>2. Prefix(C, u) = {RootFiles} \union {Below(i, routes[i]) : i \in N}
  BY PrefixIs
<1>3. Len(u) \in Nat /\ Len(u) >= 1
  BY PathLen
<1>4. \A i \in O : /\ routes[i].path_prefix \in Path
                   /\ Len(routes[i].path_prefix) \in Nat
                   /\ Len(routes[i].path_prefix) >= 1
                   /\ Len(routes[i].path_prefix) <= Len(u)
                   /\ Under(routes[i].path_prefix, u)
                   /\ i \in DOMAIN routes
  BY PathLen DEF Owners, Under, Good, Plain
<1>5. CASE O = {}
  <2>1. Exact(C, u) = {}
    BY <1>1, <1>5, UnderItself DEF Owners
  <2>2. Prefix(C, u) = {RootFiles}
    BY <1>2, <1>5
  <2>3. Pick(C, u) = RootFiles
    BY <2>1, <2>2, PickLongest, StaticFields, RootPath
  <2> QED  BY <1>5, <2>3, Performs
<1>6. CASE O # {}
  <2>1. /\ c \in O
        /\ \A k \in O : k # c => Len(routes[k].path_prefix) < Len(r.path_prefix)
    <3>1. PICK j \in O :
            /\ \A k \in O :
                 k # j => Len(routes[k].path_prefix) < Len(routes[j].path_prefix)
            /\ j = c
      BY <1>6, LongestOwner
    <3> QED  BY <3>1
  <2>2. CASE u = r.path_prefix
    <3>1. \A j \in DOMAIN routes : routes[j].path_prefix = u <=> j = c
      BY <1>4, <2>1, <2>2 DEF Distinct
    <3>2. Exact(C, u) = {Bare(c, r)}
      BY <1>1, <1>4, <2>1, <3>1
    <3>3. Pick(C, u) = Bare(c, r)
      BY <3>2, PickExact
    <3> QED  BY <1>6, <2>2, <3>3, Performs
  <2>3. CASE u # r.path_prefix
    <3>1. Len(r.path_prefix) < Len(u)
      BY <1>3, <1>4, <2>1, <2>3, UnderItself
    <3>2. \A j \in DOMAIN routes : routes[j].path_prefix # u
      <4>1. SUFFICES ASSUME NEW j \in DOMAIN routes, routes[j].path_prefix = u
                     PROVE  FALSE
        OBVIOUS
      <4>2. j \in O
        BY <4>1, UnderItself DEF Owners
      <4> QED  BY <1>3, <1>4, <2>1, <2>3, <3>1, <4>1, <4>2
    <3>3. Exact(C, u) = {}
      BY <1>1, <3>2
    <3>4. \A i \in O : /\ Len(Below(i, routes[i]).path) = Len(routes[i].path_prefix) + 1
                       /\ Len(routes[i].path_prefix) \in Nat
      BY <1>4, RouteFields, Appended
    <3>5. Len(RootFiles.path) = 1 /\ Len(r.path_prefix) >= 1 /\ c \in N
      BY <1>4, <2>1, <3>1, StaticFields, RootPath
    <3>6. \A m \in Prefix(C, u) :
            Len(m.path) \in Nat
            /\ (m # Below(c, r) => Len(m.path) < Len(Below(c, r).path))
      <4>1. /\ Len(Below(c, r).path) = Len(r.path_prefix) + 1
            /\ Len(r.path_prefix) \in Nat
        BY <2>1, <3>4
      <4>2. N \subseteq O
        OBVIOUS
      <4> DEFINE len(i) == Len(routes[i].path_prefix)
                 b(i) == Len(Below(i, routes[i]).path)
                 top == Len(Below(c, r).path)
      <4>3. \A i \in O : i # c => len(i) < Len(r.path_prefix)
        BY <2>1
      <4>4. \A i \in O : b(i) = len(i) + 1 /\ len(i) \in Nat
        BY <3>4
      <4> HIDE DEF C, N, r, c, len, b, top
      <4>5. top = Len(r.path_prefix) + 1 /\ Len(r.path_prefix) \in Nat
        BY <4>1 DEF top
      <4>6. Len(RootFiles.path) \in Nat /\ Len(RootFiles.path) < top
        BY <3>5, <4>5
      <4>7. \A i \in N : b(i) \in Nat /\ (i # c => b(i) < top)
        BY <4>2, <4>3, <4>4, <4>5
      <4>8. c \in N /\ Below(c, r) = Below(c, routes[c])
        BY <3>5 DEF r
      <4> QED  BY <1>2, <4>6, <4>7, <4>8, Zenon DEF b, top
    <3>7. Below(c, r) \in Prefix(C, u)
      BY <1>2, <3>5
    <3>8. Pick(C, u) = Below(c, r)
      BY <3>3, <3>6, <3>7, PickLongest
    <3>9. Stem(Below(c, r)) = r.path_prefix
      BY <1>4, <2>1, RouteStem
    <3>10. Below(c, r).act.do # "files"
      BY Performs
    <3>11. Perform(Below(c, r), u) =
             Sent(Target(r), IF r.strip_prefix THEN Drop(u, Len(r.path_prefix))
                             ELSE u)
      BY <3>9, Performs
    <3> QED  BY <1>6, <2>3, <3>8, <3>10, <3>11
  <2> QED  BY <2>2, <2>3
<1> QED  BY <1>5, <1>6

\* The root is answered like its index file.
LEMMA AnswerIntended ==
  ASSUME NEW routes, Good(routes), Distinct(routes), NEW u \in Path,
         u # <<"healthz">>, ~Under(Admin, u)
  PROVE  Answer(Conf(routes), u) = Intended(routes, u)
<1>1. u[1] # "_proxy"
  BY UnderAdmin
<1>2. CASE u = Root
  <2>1. Root # <<"healthz">> /\ Root # Index
    <3>1. Nothing # "healthz" /\ Nothing # "index.html"
      BY Zenon DEF Nothing
    <3>2. <<"healthz">>[1] = "healthz" /\ Index[1] = "index.html"
      BY DEF Index
    <3> QED  BY <3>1, <3>2, RootPath
  <2>2. Index \in Path /\ Index[1] # "_proxy" /\ Index # <<"healthz">>
    <3>1. "index.html" \in Segments
      BY PathAssumption
    <3>2. <<"healthz">>[1] = "healthz" /\ Index[1] = "index.html"
      BY DEF Index
    <3> QED  BY <3>1, <3>2 DEF Index, Path
  <2>3. Owners(routes, Root) = {}
    <3>1. SUFFICES ASSUME NEW i \in Owners(routes, Root)
                   PROVE  FALSE
      OBVIOUS
    <3>2. /\ routes[i].path_prefix \in Path
          /\ routes[i].path_prefix[1] # Nothing
          /\ Under(routes[i].path_prefix, Root)
      <4>1. Plain(routes[i].path_prefix) /\ Under(routes[i].path_prefix, Root)
        BY DEF Owners, Good
      <4> QED  BY <4>1, PathLen DEF Plain
    <3> QED  BY <3>2, RootPath, UnderFirst
  <2>4. Pick(Conf(routes), Root) = RootFiles
    BY <1>1, <1>2, <2>1, <2>3, RootPath, RouteAnswer
  <2>5. Answer(Conf(routes), u) = Perform(Pick(Conf(routes), Index), Index)
    BY <1>2, <2>4, StaticFields DEF Answer
  <2> QED  BY <1>2, <2>2, <2>5, RouteAnswer DEF Intended
<1>3. CASE u # Root
  <2>1. Answer(Conf(routes), u) = Perform(Pick(Conf(routes), u), u)
    BY <1>3 DEF Answer
  <2> QED  BY <1>1, <1>3, <2>1, RouteAnswer DEF Intended
<1> QED  BY <1>2, <1>3

\* Every redirect adds a slash ...
LEMMA RedirectsToSlash ==
  ASSUME NEW routes, Good(routes), Distinct(routes), NEW u \in Path,
         Answer(Conf(routes), u).is = "redirect"
  PROVE  \E q \in Path : Answer(Conf(routes), u).to = Append(q, Nothing)
<1> DEFINE A == Answer(Conf(routes), u)
<1>1. CASE u[1] = "_proxy"
  <2>1. A = IF u = Admin THEN Moved(Slashed(Admin)) ELSE Sent(AdminApi, Drop(u, 1))
    BY <1>1, AdminAnswer
  <2>2. A = Moved(Slashed(Admin))
    BY <2>1 DEF Sent
  <2> QED  BY <2>2, SlashedAdmin DEF Moved
<1>2. CASE u = <<"healthz">>
  <2> DEFINE E == DOMAIN routes
             C == Conf(routes)
             l == Pick(C, u)
  <2>1. C = {Healthz, AdminBare, AdminBelow, RootFiles} \union
            {Bare(i, routes[i]) : i \in E} \union {Below(i, routes[i]) : i \in E}
    BY ConfIs
  <2>2. Healthz \in Exact(C, u)
    BY <1>2, <2>1, StaticFields DEF Exact
  <2>3. l \in C /\ l.match = "exact" /\ l.path = u
    <3>1. l \in Exact(C, u)
      BY <2>2 DEF Pick
    <3> QED  BY <3>1 DEF Exact
  <2>4. Healthz.act.do = "health"
    BY DEF Healthz, Location
  <2>5. u # Root
    <3>1. Nothing # "healthz"
      BY Zenon DEF Nothing
    <3> QED  BY <1>2, <3>1, RootPath
  <2>6. A = Perform(l, u)
    BY <2>5 DEF Answer
  <2>7. l # Healthz
    <3>1. Perform(Healthz, u) = Health
      BY <2>4 DEF Perform
    <3> QED  BY <2>6, <3>1 DEF Health
  <2>8. l # AdminBare
    BY <1>2, <2>3, StaticFields, SlashedAdmin
  <2>9. PICK i \in E : l = Bare(i, routes[i])
    <3>1. l # AdminBelow /\ l # RootFiles
      BY <2>3, StaticFields
    <3>2. \A i \in E : l # Below(i, routes[i])
      BY <2>3, RouteFields
    <3> QED  BY <2>1, <2>3, <2>7, <2>8, <3>1, <3>2
  <2>10. A = Moved(Append(routes[i].path_prefix, Nothing))
    BY <2>6, <2>9, Performs
  <2> QED  BY <2>10 DEF Moved, Good, Plain
<1>3. CASE u[1] # "_proxy" /\ u # <<"healthz">>
  <2>1. A = Intended(routes, u) /\ A.is = "redirect"
    BY <1>3, UnderAdmin, AnswerIntended
  <2> DEFINE v == IF u = Root THEN Index ELSE u
  <2>2. v \in Path
    BY PathAssumption DEF Index, Path
  <2>3. A = Moved(Append(v, Nothing))
    <3>1. File(v).is # "redirect"
      BY DEF File
    <3>2. \A t, q : Sent(t, q).is # "redirect"
      BY DEF Sent
    <3> QED  BY <2>1, <3>1, <3>2 DEF Intended
  <2> QED  BY <2>2, <2>3 DEF Moved
<1> QED  BY <1>1, <1>2, <1>3

\* ... and what has one is not redirected.
LEMMA SlashStays ==
  ASSUME NEW routes, Good(routes), Distinct(routes), NEW q \in Path
  PROVE  Answer(Conf(routes), Append(q, Nothing)).is # "redirect"
<1> DEFINE u == Append(q, Nothing)
           A == Answer(Conf(routes), u)
<1>1. /\ u \in Path /\ Len(u) \in Nat /\ Len(u) >= 2 /\ u[Len(u)] = Nothing
      /\ Len(u) = Len(q) + 1
  BY Appended, PathLen
<1>2. u # Admin /\ u # Root /\ u # <<"healthz">>
  BY <1>1, SlashedAdmin, RootPath
<1> HIDE DEF u
<1>3. CASE u[1] = "_proxy"
  <2>1. A = Sent(AdminApi, Drop(u, 1))
    BY <1>1, <1>2, <1>3, AdminAnswer
  <2> QED  BY <2>1 DEF Sent, u
<1>4. CASE u[1] # "_proxy"
  <2>1. A = Intended(routes, u)
    BY <1>1, <1>2, <1>4, UnderAdmin, AnswerIntended
  <2>2. File(u).is # "redirect"
    BY DEF File
  <2>3. \A t, p : Sent(t, p).is # "redirect"
    BY DEF Sent
  <2>4. \A i \in Owners(routes, u) : u # routes[i].path_prefix
    BY <1>1 DEF Owners, Good, Plain
  <2>5. Owners(routes, u) # {} =>
          (CHOOSE i \in Owners(routes, u) :
             \A j \in Owners(routes, u) :
               Len(routes[j].path_prefix) <= Len(routes[i].path_prefix))
            \in Owners(routes, u)
    BY <1>1, LongestOwner
  <2> QED  BY <1>2, <2>1, <2>2, <2>3, <2>4, <2>5 DEF Intended, u
<1> QED  BY <1>3, <1>4 DEF u

\* Two locations of the configuration collide only at a static exact one.
LEMMA Collisions ==
  ASSUME NEW routes, Good(routes), Distinct(routes), 0 \notin DOMAIN routes
  PROVE  Loadable(Conf(routes)) <=>
           \A i \in DOMAIN routes :
             ~\E l \in Static : l.match = "exact" /\ l.path = routes[i].path_prefix
<1> DEFINE E == DOMAIN routes
           X(i) == Bare(i, routes[i])
           Y(i) == Below(i, routes[i])
           C == Conf(routes)
           p(i) == routes[i].path_prefix
           S == {Healthz, AdminBare, AdminBelow, RootFiles}
<1>1. C = S \union {X(i) : i \in E} \union {Y(i) : i \in E} /\ S = Static
  BY ConfIs DEF Static, Healthz, AdminBare, AdminBelow, RootFiles
<1>2. \A i \in E : /\ i # 0 /\ p(i) \in Path /\ p(i)[1] # "_proxy"
                   /\ Len(p(i)) \in Nat /\ Len(p(i)) >= 1
  <2>1. TAKE i \in E
  <2>2. Plain(p(i)) /\ i # 0
    BY DEF Good
  <2> QED  BY <2>2, PathLen DEF Plain
<1>3. \A i, j \in E : p(i) = p(j) => i = j
  BY DEF Distinct
<1>4. \A i, j \in E : Append(p(i), Nothing) = Append(p(j), Nothing) => i = j
  <2>1. ASSUME NEW i \in E, NEW j \in E,
               Append(p(i), Nothing) = Append(p(j), Nothing)
        PROVE  p(i) = p(j)
    <3> HIDE DEF p
    <3> QED  BY <1>2, <2>1, AppendStem
  <2> QED  BY <1>3, <2>1
<1>5. \A i \in E : /\ X(i).owner = i /\ X(i).match = "exact" /\ X(i).path = p(i)
                   /\ Y(i).match = "prefix" /\ Y(i).path = Append(p(i), Nothing)
                   /\ Y(i).path # Root /\ Y(i).path # AdminBelow.path
  <2>1. TAKE i \in E
  <2>2. Y(i).path = Append(p(i), Nothing)
    BY RouteFields
  <2>3. Len(Append(p(i), Nothing)) >= 2 /\ Append(p(i), Nothing)[1] # "_proxy"
    BY <1>2, Appended
  <2>4. AdminBelow.path[1] = "_proxy" /\ Len(Root) = 1
    BY StaticFields, SlashedAdmin, Appended, RootPath
  <2> QED  BY <2>2, <2>3, <2>4, RouteFields
<1>6. /\ Healthz.path # AdminBare.path /\ AdminBelow.path # RootFiles.path
      /\ \A l \in S : l.owner = 0
  <2>1. <<"healthz">>[1] # "_proxy" /\ Admin[1] = "_proxy"
    BY SlashedAdmin
  <2>2. AdminBelow.path[1] = "_proxy" /\ RootFiles.path[1] # "_proxy"
    BY StaticFields, SlashedAdmin, Appended, RootPath
  <2> QED  BY <2>1, <2>2, StaticFields
<1>7. \A l \in S : \/ l.match = "exact" /\ l \in {Healthz, AdminBare}
                   \/ l.match = "prefix" /\ l \in {AdminBelow, RootFiles}
  BY StaticFields
<1>8. ASSUME NEW i \in E, NEW l \in S, l.match = "exact", l.path = p(i)
      PROVE  ~Loadable(C)
  <2>1. l \in C /\ X(i) \in C /\ l # X(i)
    BY <1>1, <1>2, <1>5, <1>6
  <2> QED  BY <1>5, <1>8, <2>1 DEF Loadable
<1>9. ASSUME \A i \in E : \A l \in S : l.match = "exact" => l.path # p(i)
      PROVE  Loadable(C)
  <2> SUFFICES ASSUME NEW l \in C, NEW m \in C,
                      l.match = m.match, l.path = m.path
               PROVE  l = m
    BY DEF Loadable
  <2> HIDE DEF C, E, X, Y, p, S
  <2>1. CASE l \in S /\ m \in S
    BY <1>6, <1>7, <2>1 DEF S
  <2>2. ASSUME NEW i \in E, l = X(i) \/ m = X(i)
        PROVE  l = m
    BY <1>1, <1>3, <1>5, <1>9, <2>2
  <2>3. ASSUME NEW i \in E, l = Y(i) \/ m = Y(i)
        PROVE  l = m
    <3>1. ASSUME NEW k \in C, k \in S, k.match = "prefix"
          PROVE  k.path # Y(i).path
      BY <1>5, <1>7, <3>1, StaticFields
    <3>2. ASSUME NEW k \in E, Y(k).path = Y(i).path
          PROVE  k = i
      BY <1>4, <1>5, <3>2
    <3>3. l.match = "prefix" /\ m.match = "prefix" /\ "exact" # "prefix"
      BY <1>5, <2>3
    <3>4. \A k \in C : k.match = "prefix" => k \in S \/ \E j \in E : k = Y(j)
      BY <1>1, <1>5
    <3> QED  BY <1>1, <2>3, <3>1, <3>2, <3>3, <3>4
  <2> QED  BY <1>1, <2>1, <2>2, <2>3
<1> QED  BY <1>1, <1>8, <1>9

=============================================================================
