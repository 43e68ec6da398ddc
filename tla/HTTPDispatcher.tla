--------------------------- MODULE HTTPDispatcher --------------------------
(***************************************************************************)
(* HTTPDispatcher (CFHttp): the table of paths and handlers is turned into *)
(* mappers, sorted by their kind; the first one that matches is called.    *)
(***************************************************************************)
EXTENDS StringParser

httpExactMapper == 0
httpWildcardMapper == 1
httpExtensionMapper == 2
httpDefaultMapper == 4

sAllSuffix == <<"/", "*">>
sTypePrefix == <<"*", ".">>
sRootPath == <<"/">>

\* The mapper of a path and a handler.
BuildPathMatcher(mapping) ==
    LET path == mapping.path
        n == Len(path)
        Mapper(type, pattern) == [type |-> type, pattern |-> pattern, func |-> mapping.func]
    IN IF n >= 2 /\ SubSeq(path, n - 1, n) = sAllSuffix
       THEN Mapper(httpWildcardMapper, SubSeq(path, 1, n - 2))
       ELSE IF n >= 2 /\ SubSeq(path, 1, 2) = sTypePrefix
       THEN Mapper(httpExtensionMapper, Tail(path))
       ELSE IF path = sRootPath THEN Mapper(httpDefaultMapper, <<>>)
       ELSE Mapper(httpExactMapper, path)

Match(mapper, path) ==
    CASE mapper.type = httpExactMapper -> Equal(mapper.pattern, path)
      [] mapper.type = httpWildcardMapper -> IsPrefix(mapper.pattern, path)
      [] mapper.type = httpExtensionMapper -> IsSuffix(mapper.pattern, path)
      [] mapper.type = httpDefaultMapper -> TRUE

ComparePriority(a, b) == a.type - b.type

\* The constructor: the table ends at the first entry without path or handler,
\* and qsort() may leave mappers of one kind in any order.
Mappers(table) ==
    LET last == SelectInSeq(table, LAMBDA m : m.path = Null \/ m.func = Null)
        built == [i \in 1..(IF last = 0 THEN Len(table) ELSE last - 1) |-> BuildPathMatcher(table[i])]
        Orders == {o \in [DOMAIN built -> DOMAIN built] : \A i, j \in DOMAIN built : o[i] = o[j] => i = j}
    IN {[i \in DOMAIN built |-> built[o[i]]] : o \in
          {o \in Orders : \A i \in 1..(Len(built) - 1) :
                            ComparePriority(built[o[i]], built[o[i + 1]]) <= 0}}

\* The handler that is called, or the error.
Dispatch(fMappers, requestPath) ==
    LET i == SelectInSeq(fMappers, LAMBDA m : Match(m, requestPath))
    IN IF i = 0 THEN "CF_FileNotFound" ELSE fMappers[i].func
============================================================================
