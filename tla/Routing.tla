------------------------------ MODULE Routing ------------------------------
(***************************************************************************)
(* How a request finds its handler: matchRoute of Helpers.h, findRoute,    *)
(* handleOptions and the choice made in handleClient of Server.cpp.  A     *)
(* route is a method and the pattern addRoute stores.                      *)
(***************************************************************************)
EXTENDS KVList

\* A running server takes no more routes.
addRoute(routes, started, method, path) ==
  IF started THEN routes ELSE Append(routes, [method |-> method, path |-> toLower(path)])

IsParameter(part) == Len(part) >= 2 /\ part[1] = "{" /\ Last(part) = "}"
ParameterName(part) == SubSeq(part, 2, Len(part) - 1)

matchRoute(pattern, path) ==
  LET patternParts == splitPath(toLower(pattern))
      pathParts == splitPath(path)
  IN  /\ Len(patternParts) = Len(pathParts)
      /\ \A i \in DOMAIN patternParts :
           IsParameter(patternParts[i]) \/ patternParts[i] = toLower(pathParts[i])

\* A mutant: the path is folded before it is taken apart.
MutRouteParams(pattern, path) ==
  LET patternParts == splitPath(toLower(pattern))
      places == {i \in DOMAIN patternParts : IsParameter(patternParts[i])}
      place(n) == Max({i \in places : ParameterName(patternParts[i]) = n})
  IN  [n \in {ParameterName(patternParts[i]) : i \in places} |-> splitPath(toLower(path))[place(n)]]

\* The params a successful match fills in; of two with one name the last stays.
RouteParams(pattern, path) ==
  LET patternParts == splitPath(toLower(pattern))
      pathParts == splitPath(path)
      places == {i \in DOMAIN patternParts : IsParameter(patternParts[i])}
      place(n) == Max({i \in places : ParameterName(patternParts[i]) = n})
  IN  [n \in {ParameterName(patternParts[i]) : i \in places} |-> pathParts[place(n)]]

\* The first route that fits; 0 is the null pointer.
findRoute(routes, method, path) ==
  LET fits == {i \in DOMAIN routes : routes[i].method = method /\ matchRoute(routes[i].path, path)}
  IN  IF fits = {} THEN 0 ELSE Min(fits)

\* HEAD without a route of its own is served by the GET route.
RouteServing(routes, method, path) ==
  IF method = "HEAD" /\ findRoute(routes, "HEAD", path) = 0 THEN findRoute(routes, "GET", path)
  ELSE findRoute(routes, method, path)

\* A mutant: HEAD is listed only where it has a route of its own.
MutAllow(routes, path) ==
  LET fitting == {routes[i].method : i \in {j \in DOMAIN routes : matchRoute(routes[j].path, path)}}
  IN  fitting \cup (IF fitting # {} THEN {"OPTIONS"} ELSE {})

\* handleOptions: what Allow lists; empty means 404.
Allow(routes, path) ==
  LET fitting == {routes[i].method : i \in {j \in DOMAIN routes : matchRoute(routes[j].path, path)}}
  IN  fitting \cup (IF "GET" \in fitting THEN {"HEAD"} ELSE {})
              \cup (IF fitting # {} THEN {"OPTIONS"} ELSE {})

=============================================================================
