------------------------------ MODULE XmlRequest ------------------------------
(***************************************************************************)
(* The OSLC body of a verify request, read by XMLSupport::Xml::fill and    *)
(* queried by the getters of RequestResponse::Request.                     *)
(*                                                                         *)
(* A body is an element tree: an element has a domain ("" for none), a     *)
(* name, parameters [dom, name, value] and a body of kind "closed" (<e/>), *)
(* "text" (possibly empty) or "kids". The parser's character scanning is   *)
(* abstracted to the order in which it tokenises strings and appends      *)
(* iNames, parameters, subs and items, which is what the queries read. A   *)
(* query result is [ok |-> FALSE] where the code throws (assert_xml,       *)
(* out_of_range) or aborts (assert).                                       *)
(***************************************************************************)
EXTENDS XmlStore

CONSTANT Words   \* the strings a request body carries as attribute values

Malformed == [ok |-> FALSE, vals |-> <<>>]

(* read_value: a quoted attribute value is tokenised with its quotes;     *)
(* bbb::dequote strips a leading and a trailing quote.                    *)
Quote(v) == "\"" \o v \o "\""
Dequote(q) == IF \E v \in Words : Quote(v) = q THEN CHOOSE v \in Words : Quote(v) = q ELSE q

-----------------------------------------------------------------------------
(* Xml::read_iname: dom:name, or a bare name with domain -1. The failed   *)
(* first attempt on a bare name tokenises the same name, so it adds no    *)
(* token of its own.                                                      *)
ReadIName(x, d, n) ==
  IF d = ""
  THEN Bind(InsertToken(x, n), LAMBDA tn :
         Insert(tn.x, "iNames", [domain |-> -1, name |-> tn.i]))
  ELSE Bind(InsertToken(x, d), LAMBDA td :
       Bind(InsertToken(td.x, n), LAMBDA tn :
         Insert(tn.x, "iNames", [domain |-> td.i, name |-> tn.i])))

(* Xml::read_param: dom:name="value" or name="value".                     *)
ReadParam(x, p) ==
  Bind(IF p.dom = "" THEN [x |-> x, i |-> -1] ELSE InsertToken(x, p.dom), LAMBDA td :
  Bind(InsertToken(td.x, p.name), LAMBDA tn :
  Bind(InsertToken(tn.x, Quote(p.value)), LAMBDA tv :
    Insert(tv.x, "parameters", [domain |-> td.i, name |-> tn.i, value |-> tv.i]))))

(* Xml::read_params: the consecutive parameters, in order.                *)
ReadParams(x, ps) ==
  Steps(LAMBDA r, p : Bind(ReadParam(r.x, p), LAMBDA t : [x |-> t.x, is |-> Append(r.is, t.i)]),
        [x |-> x, is |-> <<>>], ps)

(* Xml::read_item with read_sub, read_items and read_value_as_item: the   *)
(* opening name, the parameters; <e/> is an item without a sub. Otherwise *)
(* the children (read_items, then a sub of items), or else the text (a    *)
(* sub holding one value), or else, for an empty text, sub -1; then the   *)
(* closing name, which is read as a new iName and never compared with the *)
(* opening one, and last the item itself.                                 *)
RECURSIVE ReadItem(_, _)
ReadItem(x, e) ==
  Bind(ReadIName(x, e.dom, e.name), LAMBDA o :
  Bind(ReadParams(o.x, e.params), LAMBDA ps :
    IF e.kind = "closed"
    THEN Insert(ps.x, "items", [name |-> o.i, params |-> ps.is, sub |-> -1])
    ELSE Bind(CASE e.kind = "kids" ->
                     Bind(Steps(LAMBDA r, k : Bind(ReadItem(r.x, k), LAMBDA t :
                                   [x |-> t.x, is |-> Append(r.is, t.i)]),
                                [x |-> ps.x, is |-> <<>>], e.kids), LAMBDA ks :
                       Isi(ks.x, ks.is))
                [] e.text # "" -> Isv(ps.x, e.text)
                [] OTHER -> [x |-> ps.x, i |-> -1], LAMBDA s :
         Bind(ReadIName(s.x, e.dom, e.name), LAMBDA c :
           Insert(c.x, "items", [name |-> o.i, params |-> ps.is, sub |-> s.i])))))

(* Xml::fill: the document's top item, read into an empty store.          *)
Fill(body) == Bind(ReadItem(EmptyXml, body), LAMBDA r : [x |-> r.x, top |-> r.i])

-----------------------------------------------------------------------------
(* std::string::find over the names of RequestBody: a name contains       *)
(* another when it is that name with affixes around it.                   *)
NameAffixes == {"", "executes"}
NameContains(s, t) == \E a, b \in NameAffixes : a \o t \o b = s

(* Xml::item_name and Xml::parameter_name: the local name, without domain.*)
ItemName(x, i) == x.tokens[x.iNames[x.items[i + 1].name + 1].name + 1]
ParameterName(x, p) == x.tokens[x.parameters[p + 1].name + 1]

(* Xml::find_items and Xml::find_params: the indices whose name contains  *)
(* the string, in order.                                                  *)
FindItems(x, n) == SelectSeq([k \in 1..Len(x.items) |-> k - 1], LAMBDA i : NameContains(ItemName(x, i), n))
FindParams(x, ps, n) == SelectSeq(ps, LAMBDA p : NameContains(ParameterName(x, p), n))

(* Xml::get_param_item: the dequoted values of the matching parameters of *)
(* every matching item, item by item.                                     *)
GetParamItem(x, iName, pName) ==
  LET its == FindItems(x, iName)
      vals(i) == LET ps == FindParams(x, x.items[i + 1].params, pName)
                 IN  [j \in DOMAIN ps |-> Dequote(x.tokens[x.parameters[ps[j] + 1].value + 1])]
  IN  FlattenSeq([k \in DOMAIN its |-> vals(its[k])])

(* Mutant: the value taken from the first item of the pair.               *)
GetValueAfterFirst(x, presub) ==
  LET preitem == Max({-1} \cup {i \in 0..Len(x.items) - 1 : x.items[i + 1].sub = presub})
      subId == Max({-1} \cup {i \in 0..Len(x.subs) - 1 :
                                Len(x.subs[i + 1].sItems) > 1 /\ x.subs[i + 1].sItems[1] = preitem})
      itemId == x.subs[subId + 1].sItems[1]
      id == x.subs[x.items[itemId + 1].sub + 1].value
  IN  IF subId = -1 \/ x.items[itemId + 1].sub = -1 \/ id = -1 THEN Malformed
      ELSE [ok |-> TRUE, vals |-> <<x.tokens[id + 1]>>]

(* Xml::get_value_after: presub holds a label's text. Its item is the     *)
(* last whose sub is presub; the pair is the last sub of two or more      *)
(* items that starts with that item, and the value is the text of the     *)
(* pair's second item. Each missing link throws MalformedXMLException.    *)
GetValueAfter(x, presub) ==
  LET preitem == Max({-1} \cup {i \in 0..Len(x.items) - 1 : x.items[i + 1].sub = presub})
      subId == Max({-1} \cup {i \in 0..Len(x.subs) - 1 :
                                Len(x.subs[i + 1].sItems) > 1 /\ x.subs[i + 1].sItems[1] = preitem})
      itemId == x.subs[subId + 1].sItems[2]
      id == x.subs[x.items[itemId + 1].sub + 1].value
  IN  IF subId = -1 \/ x.items[itemId + 1].sub = -1 \/ id = -1 THEN Malformed
      ELSE [ok |-> TRUE, vals |-> <<x.tokens[id + 1]>>]

(* Xml::get_values_after: nothing when the label is no token; otherwise   *)
(* the value after every text equal to the label, in document order, and  *)
(* MalformedXMLException when the label is a token but no text.           *)
GetValuesAfter(x, label) ==
  IF label \notin Range(x.tokens) THEN [ok |-> TRUE, vals |-> <<>>]
  ELSE LET vn == (CHOOSE k \in DOMAIN x.tokens : x.tokens[k] = label) - 1
           presubs == SelectSeq([k \in 1..Len(x.subs) |-> k - 1], LAMBDA i : x.subs[i + 1].value = vn)
           rs == [k \in DOMAIN presubs |-> GetValueAfter(x, presubs[k])]
       IN  IF presubs = <<>> \/ \E k \in DOMAIN rs : ~rs[k].ok THEN Malformed
           ELSE [ok |-> TRUE, vals |-> [k \in DOMAIN rs |-> rs[k].vals[1]]]

-----------------------------------------------------------------------------
(* The Request getters. get_tool_name throws out_of_range unless exactly  *)
(* one usesExecutionEnvironment resource is found (its URL case, the part *)
(* after the last '/', is not modelled: tool names here are no URLs);     *)
(* get_call_schema and get_auto_plan_name assert exactly one result.      *)
One(vs) == IF Len(vs) = 1 THEN [ok |-> TRUE, vals |-> vs] ELSE Malformed
OneOf(r) == IF r.ok THEN One(r.vals) ELSE Malformed

GetToolName(x) == One(GetParamItem(x, "usesExecutionEnvironment", "resource"))
GetParameters(x) == GetValuesAfter(x, "CallParameters")
GetInputNames(x) == GetValuesAfter(x, "InputFiles")
GetCallSchema(x) == OneOf(GetValuesAfter(x, "CallSchemaSignature"))
GetAutoPlanName(x) == One(GetParamItem(x, "AutomationPlan", "about"))

=============================================================================
