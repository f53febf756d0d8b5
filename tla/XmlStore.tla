------------------------------- MODULE XmlStore -------------------------------
(***************************************************************************)
(* XMLSupport::Xml: the document store. Xml keeps every element in a      *)
(* vector (tokens, iNames, parameters, items, subs) and refers to elements *)
(* by their 0-based index, -1 for none; every string is a token, interned *)
(* through knownTokens. Operators are pure: a builder takes a store and    *)
(* returns [x |-> the new store, i |-> the new element's index].           *)
(***************************************************************************)
EXTENDS Integers, Sequences, SequencesExt, Functions, TLC

EmptyXml == [tokens |-> <<>>, iNames |-> <<>>, parameters |-> <<>>,
             items |-> <<>>, subs |-> <<>>]

(* Mutant: insert_token without the knownTokens lookup.                   *)
InsertTokenNoLookup(x, s) ==
  [x |-> [x EXCEPT !.tokens = Append(@, s)], i |-> Len(x.tokens)]

(* Xml::insert_token: a known string returns its index, a new one is      *)
(* appended to tokens and recorded in knownTokens.                        *)
InsertToken(x, s) ==
  IF s \in Range(x.tokens)
  THEN [x |-> x, i |-> (CHOOSE k \in DOMAIN x.tokens : x.tokens[k] = s) - 1]
  ELSE [x |-> [x EXCEPT !.tokens = Append(@, s)], i |-> Len(x.tokens)]

(* Xml::insert_iname, insert_parameter, insert_item, insert_sub: append   *)
(* the element and return its index.                                      *)
Insert(x, vec, e) == [x |-> [x EXCEPT ![vec] = Append(@, e)], i |-> Len(x[vec])]

(* Xml::ii: an item named d:n with parameters ps and sub s (-1: none).    *)
Ii(x, d, n, ps, s) ==
  LET td == InsertToken(x, d)
      tn == InsertToken(td.x, n)
      nm == Insert(tn.x, "iNames", [domain |-> td.i, name |-> tn.i])
  IN  Insert(nm.x, "items", [name |-> nm.i, params |-> ps, sub |-> s])

(* Xml::ip: a parameter d:n="v".                                          *)
Ip(x, d, n, v) ==
  LET td == InsertToken(x, d)
      tn == InsertToken(td.x, n)
      tv == InsertToken(tn.x, v)
  IN  Insert(tv.x, "parameters", [domain |-> td.i, name |-> tn.i, value |-> tv.i])

(* Xml::isi and Xml::isv: a sub holding items, or holding one value.      *)
Isi(x, is) == Insert(x, "subs", [sItems |-> is, value |-> -1])
Isv(x, v) == LET t == InsertToken(x, v)
             IN  Insert(t.x, "subs", [sItems |-> <<>>, value |-> t.i])

(* The builders thread one store through a sequence of calls, each using *)
(* the results of the calls before it. Bind(e, op) evaluates e once and   *)
(* passes its value to op, as a C++ call hands its result on.             *)
Bind(e, op(_)) == CHOOSE r \in {op(v) : v \in {e}} : TRUE

(* Steps(op, base, seq): op applied to base and each element of seq in    *)
(* turn, the way a braced list of calls runs left to right.               *)
Steps(op(_, _), base, seq) ==
  LET F[k \in 0..Len(seq)] ==
        IF k = 0 THEN base ELSE Bind(F[k - 1], LAMBDA prev : op(prev, seq[k]))
  IN  F[Len(seq)]

-----------------------------------------------------------------------------
(* Item::print, Sub::print, IName::print and Parameter::print: the tree   *)
(* the document prints, each element its qualified name, its parameters   *)
(* as d:n=v, and either its text or its child elements.                   *)
Qualified(x, d, n) == IF d = -1 THEN x.tokens[n + 1] ELSE x.tokens[d + 1] \o ":" \o x.tokens[n + 1]
QName(x, j) == Qualified(x, x.iNames[j + 1].domain, x.iNames[j + 1].name)
PStr(x, j) == LET p == x.parameters[j + 1]
              IN  Qualified(x, p.domain, p.name) \o "=" \o x.tokens[p.value + 1]

Tree(x, top) ==
  LET T[j \in 0..Len(x.items) - 1] ==
        LET it == x.items[j + 1]
            sb == x.subs[it.sub + 1]
        IN  [name |-> QName(x, it.name),
             params |-> [k \in DOMAIN it.params |-> PStr(x, it.params[k])],
             text |-> IF it.sub # -1 /\ sb.sItems = <<>> THEN x.tokens[sb.value + 1] ELSE "",
             kids |-> IF it.sub = -1 THEN <<>> ELSE [k \in DOMAIN sb.sItems |-> T[sb.sItems[k]]]]
  IN  T[top]

=============================================================================
