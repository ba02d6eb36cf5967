----------------------------- MODULE Locations -----------------------------
(***************************************************************************)
(* Which request reaches which container: the configuration that           *)
(* ConfigGenerator::render makes of the enabled routes, the static         *)
(* locations of kp-locations.conf it is included beside, and nginx's       *)
(* choice among them.                                                      *)
(*                                                                         *)
(* A path is the sequence of what stands between its slashes, so that      *)
(* "/a/b" is <<"a", "b">>, "/a/" is <<"a", "">> and "/" is <<"">>.  Paths  *)
(* of requests are those nginx has normalised.                             *)
(***************************************************************************)
EXTENDS Naturals, Sequences

CONSTANTS Segments,  \* what may stand between two slashes
          Requests,  \* the paths clients ask for
          Files      \* the dashboard's files

\* What follows the last slash of "/a/".
Nothing == ""

ASSUME PathAssumption == /\ {Nothing, "_proxy", "healthz", "index.html"}
                              \subseteq Segments
                         /\ Requests \subseteq Seq(Segments) \ {<<>>}

Root  == <<Nothing>>
Index == <<"index.html">>
Admin == <<"_proxy">>

-----------------------------------------------------------------------------
(* What POST lets in *)

\* Mutant of is_valid_path_prefix: a trailing slash is allowed.
is_valid_path_prefix_Trailing(p) == \A i \in 1..(Len(p) - 1) : p[i] # Nothing

\* ^/[...]+(/[...]+)*$: no segment is empty.
is_valid_path_prefix(p) == \A i \in 1..Len(p) : p[i] # Nothing

\* Mutant of is_reserved_path_prefix: only the prefix itself is reserved.
is_reserved_path_prefix_Exact(p) == p = Admin

\* value == "/_proxy" || value.starts_with("/_proxy/").
is_reserved_path_prefix(p) == p[1] = "_proxy"

-----------------------------------------------------------------------------
(* The configuration *)

\* owner is the route's id, or 0 for kp-locations.conf.
Location(owner, match, path, act) ==
  [owner |-> owner, match |-> match, path |-> path, act |-> act]

Redirect(to)          == [do |-> "redirect", to |-> to]
Proxy(target, strips) == [do |-> "proxy", target |-> target, strips |-> strips]

Slashed(p) == IF p[Len(p)] = Nothing THEN p ELSE Append(p, Nothing)

AdminApi == <<"kingdom-proxy-api", 9000>>

Static ==
  {Location(0, "exact", <<"healthz">>, [do |-> "health"]),
   Location(0, "exact", Admin, Redirect(Slashed(Admin))),
   Location(0, "prefix", Slashed(Admin), Proxy(AdminApi, TRUE)),
   Location(0, "prefix", Root, [do |-> "files"])}

Target(row) == <<row.container_name, row.container_port>>

\* Mutant of Block: no redirect for the bare prefix, which then is not the
\* route's.
Block_NoRedirect(id, row) ==
  {Location(id, "prefix", Slashed(row.path_prefix),
            Proxy(Target(row), row.strip_prefix))}

\* The two locations of a route.
Block(id, row) ==
  {Location(id, "exact", row.path_prefix, Redirect(Slashed(row.path_prefix))),
   Location(id, "prefix", Slashed(row.path_prefix),
            Proxy(Target(row), row.strip_prefix))}

render(routes) == UNION {Block(i, routes[i]) : i \in DOMAIN routes}

Conf(routes) == Static \union render(routes)

\* `nginx -t`: a location may be defined once.
Loadable(conf) ==
  \A l, m \in conf : l.match = m.match /\ l.path = m.path => l = m

-----------------------------------------------------------------------------
(* nginx's choice *)

Under(p, u) == Len(p) <= Len(u) /\ SubSeq(u, 1, Len(p)) = p

Drop(u, n) == SubSeq(u, n + 1, Len(u))

\* The path of a prefix location without its last slash.
Stem(l) == SubSeq(l.path, 1, Len(l.path) - 1)

Exact(conf, u)  == {l \in conf : l.match = "exact" /\ l.path = u}
Prefix(conf, u) == {l \in conf : /\ l.match = "prefix"
                                 /\ Len(l.path) <= Len(u) /\ Under(Stem(l), u)}

\* An exact location wins; otherwise the longest prefix does, and "^~" or
\* the absence of regular expressions leaves it at that.
Pick(conf, u) ==
  IF Exact(conf, u) # {} THEN CHOOSE l \in Exact(conf, u) : TRUE
  ELSE CHOOSE l \in Prefix(conf, u) :
         \A m \in Prefix(conf, u) : Len(m.path) <= Len(l.path)

Sent(target, path) == [is |-> "proxied", target |-> target, path |-> path]
Moved(to)          == [is |-> "redirect", to |-> to]
File(u)            == IF u \in Files THEN [is |-> "file", name |-> u]
                      ELSE [is |-> "not found"]
Health             == [is |-> "ok"]

\* What a location does with a request: `rewrite ^/p/(.*)$ /$1` drops the
\* prefix and the variable in proxy_pass leaves the rest alone.
Perform(l, u) ==
  CASE l.act.do = "redirect" -> Moved(l.act.to)
    [] l.act.do = "proxy"    -> Sent(l.act.target,
                                     IF l.act.strips THEN Drop(u, Len(Stem(l)))
                                     ELSE u)
    [] l.act.do = "health"   -> Health
    [] l.act.do = "files"    -> File(u)

\* The root is a directory: its index file is looked up as a request of its
\* own.
Answer(conf, u) ==
  LET l == Pick(conf, u)
  IN  IF l.act.do = "files" /\ u = Root
      THEN Perform(Pick(conf, Index), Index)
      ELSE Perform(l, u)

-----------------------------------------------------------------------------
(* What the answers ought to be *)

\* Who ought to get a request, by the routes alone: the one with the longest
\* prefix that the path is at or under.
Owners(routes, u) == {i \in DOMAIN routes : Under(routes[i].path_prefix, u)}

\* The root is another name of the dashboard's index file.
Intended(routes, path) ==
  LET u == IF path = Root THEN Index ELSE path
      r == routes[CHOOSE i \in Owners(routes, u) :
                    \A j \in Owners(routes, u) :
                      Len(routes[j].path_prefix) <= Len(routes[i].path_prefix)]
  IN  IF Owners(routes, u) = {} THEN File(u)
      ELSE IF u = r.path_prefix THEN Moved(Append(u, Nothing))
      ELSE Sent(Target(r),
                IF r.strip_prefix THEN Drop(u, Len(r.path_prefix)) ELSE u)

=============================================================================
