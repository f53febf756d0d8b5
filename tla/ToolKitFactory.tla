---------------------------- MODULE ToolKitFactory ----------------------------
(***************************************************************************)
(* ToolKitXMLFactory::create: the tool registry each worker thread builds  *)
(* from the tool-registry config at onServerStart. The file is read by    *)
(* the Xml constructor (the parser of XmlRequest), every item whose name   *)
(* contains "tool" becomes a Tool, and ToolKit::insert files it under its *)
(* lowercase name and under each of its capability tags.                  *)
(*                                                                         *)
(* A Tool is [name, path, parser, single, caps]; running the executable   *)
(* for its version (Tool::update_version) is not modelled here. A result  *)
(* is [ok |-> FALSE] where the code throws MalformedXMLException.         *)
(***************************************************************************)
EXTENDS XmlRequest

CONSTANT Lower   \* std::tolower applied to each tool name of the model

-----------------------------------------------------------------------------
(* Xml::find_param: the first of the parameters whose name contains pName,*)
(* or -1.                                                                 *)
FindParam(x, ps, n) == LET m == FindParams(x, ps, n) IN IF m = <<>> THEN -1 ELSE m[1]

(* Xml::find_param_value_string: the dequoted value; none found throws.   *)
FindParamValueString(x, ps, n) ==
  LET p == FindParam(x, ps, n)
  IN  IF p = -1 THEN Malformed
      ELSE [ok |-> TRUE, vals |-> <<Dequote(x.tokens[x.parameters[p + 1].value + 1])>>]

(* Xml::find_param_value_bool: "true" or "false"; anything else throws.   *)
FindParamValueBool(x, ps, n) ==
  LET r == FindParamValueString(x, ps, n)
  IN  IF r.ok /\ r.vals[1] \in {"true", "false"}
      THEN [ok |-> TRUE, vals |-> <<r.vals[1] = "true">>] ELSE Malformed

(* Xml::get_subitems: the items of the item's sub; none for sub -1.       *)
GetSubitems(x, i) == IF x.items[i + 1].sub > -1 THEN x.subs[x.items[i + 1].sub + 1].sItems ELSE <<>>

(* createToolFromItem with getToolProperties and getToolCapabilities:     *)
(* name, path, output_parser and single_instance from the item's          *)
(* parameters (the first to throw ends the call), and the name of every   *)
(* direct child item called exactly "category".                           *)
CreateToolFromItem(x, i) ==
  LET ps == x.items[i + 1].params
      props == <<FindParamValueString(x, ps, "name"), FindParamValueString(x, ps, "path"),
                 FindParamValueString(x, ps, "output_parser"), FindParamValueBool(x, ps, "single_instance")>>
      cats == SelectSeq(GetSubitems(x, i), LAMBDA k : ItemName(x, k) = "category")
      capR == [k \in DOMAIN cats |-> FindParamValueString(x, x.items[cats[k] + 1].params, "name")]
  IN  IF \E k \in DOMAIN props : ~props[k].ok THEN [ok |-> FALSE]
      ELSE IF \E k \in DOMAIN capR : ~capR[k].ok THEN [ok |-> FALSE]
      ELSE [ok |-> TRUE, tool |-> [name |-> props[1].vals[1], path |-> props[2].vals[1],
                                   parser |-> props[3].vals[1], single |-> props[4].vals[1],
                                   caps |-> {capR[k].vals[1] : k \in DOMAIN capR}]]

-----------------------------------------------------------------------------
(* ToolKit: toolStore (normalised name -> Tool), toolsByCategoryMap (tag  *)
(* -> the keys filed under it, one per push_back) and capabilities.       *)
EmptyKit == [store |-> <<>>, byCat |-> <<>>, caps |-> {}]

(* ToolKit::normalizeName.                                                *)
NormalizeName(n) == Lower[n]

(* Mutant: insert files the new tool's tags, whether or not it was stored.*)
KitInsertNewCaps(kit, t) ==
  LET key == NormalizeName(t.name)
      store == IF key \in DOMAIN kit.store THEN kit.store ELSE kit.store @@ key :> t
      tags == t.caps
  IN  [store |-> store,
       byCat |-> [c \in DOMAIN kit.byCat \cup tags |->
                    (IF c \in DOMAIN kit.byCat THEN kit.byCat[c] ELSE <<>>)
                    \o (IF c \in tags THEN <<key>> ELSE <<>>)],
       caps |-> kit.caps \cup tags]

(* ToolKit::insert: emplace keeps a tool already stored under the key;    *)
(* then the stored tool's tags are filed, once more if it was there.     *)
KitInsert(kit, t) ==
  LET key == NormalizeName(t.name)
      store == IF key \in DOMAIN kit.store THEN kit.store ELSE kit.store @@ key :> t
      tags == store[key].caps
  IN  [store |-> store,
       byCat |-> [c \in DOMAIN kit.byCat \cup tags |->
                    (IF c \in DOMAIN kit.byCat THEN kit.byCat[c] ELSE <<>>)
                    \o (IF c \in tags THEN <<key>> ELSE <<>>)],
       caps |-> kit.caps \cup tags]

(* ToolKitXMLFactory::create: a Tool for every item whose name contains   *)
(* "tool", in item order; one that throws ends the whole call.            *)
Create(x) ==
  LET its == FindItems(x, "tool")
      made == [k \in DOMAIN its |-> CreateToolFromItem(x, its[k])]
  IN  IF \E k \in DOMAIN made : ~made[k].ok THEN [ok |-> FALSE]
      ELSE [ok |-> TRUE, kit |-> Steps(LAMBDA kit, m : KitInsert(kit, m.tool), EmptyKit, made)]

(* ToolKit::get, and ToolKit::get_tools for a tag that was filed (for    *)
(* any other, toolsByCategoryMap.at throws out_of_range).                 *)
KitGet(kit, n) == NormalizeName(n) \in DOMAIN kit.store
GetTools(kit, c) == Range(kit.byCat[c])

-----------------------------------------------------------------------------
(* The availability query. busy is the set of keys whose Tool::busy is    *)
(* set: a reserved single-instance tool, or one whose version probe       *)
(* failed.                                                                *)

(* ToolKit::category_available: over toolStore, "yes" at the first tool  *)
(* that has the tag and is free; "busy" when some tool has it, else "no". *)
CategoryAvailable(kit, busy, c) ==
  LET capable == {k \in DOMAIN kit.store : c \in kit.store[k].caps}
  IN  IF \E k \in capable : k \notin busy THEN "yes"
      ELSE IF capable # {} THEN "busy" ELSE "no"

(* VerificationService::getAvailabilityString: for each tag of            *)
(* get_capabilities, its category_available line, and under it each tool *)
(* of get_tools with get(tool).is_free(). The text is kept as the         *)
(* function it lists: tag -> [avail, tools: key -> free].                 *)
GetAvailabilityString(kit, busy) ==
  [c \in kit.caps |-> [avail |-> CategoryAvailable(kit, busy, c),
                       tools |-> [t \in GetTools(kit, c) |->
                                    KitGet(kit, t) /\ NormalizeName(t) \notin busy]]]

=============================================================================
