---------------------------- MODULE MCCallSchema ----------------------------
(* Bounded requests for CallSchema: every schema of up to MaxSchemaLen     *)
(* characters over the kind letters, the digits 0 and 1 and the comma,    *)
(* with up to two input files and two parameters.                         *)
EXTENDS CallSchema, ToolKitFactory

MaxSchemaLen == 5

MCSchemas == BoundedSeq({"i", "o", "p", "0", "1", ","}, MaxSchemaLen)

(* spec.md scenario 6: schema "i0,o1,p0", one input file (in.c), one      *)
(* parameter (--fast); the spec expects "<input> o2 --fast".             *)
Scenario6 == {<<"i", "0", ",", "o", "1", ",", "p", "0">>}

MCSizes == 0..2

-----------------------------------------------------------------------------
(* Verify request bodies for XmlRequest, in the shape its getters read:   *)
(* an rdf:RDF root holding an oslc_auto:AutomationRequest with the plan   *)
(* (an AutomationPlan inside executesAutomationPlan), the tool and one    *)
(* inputParameter per input file, per parameter and for the call schema.  *)
(* Each ParameterInstance holds its label (oslc:name) and then its value  *)
(* (rdf:value); in a flipped one the value comes first.                   *)
Tool == "nuXmv"
Plan == "plan"
SchemaWord == "i0"
MCValues == {"0", "1"}

Attr(d, n, v) == [dom |-> d, name |-> n, value |-> v]
El(d, n, ps, kind, text, kids) ==
  [dom |-> d, name |-> n, params |-> ps, kind |-> kind, text |-> text, kids |-> kids]
Leaf(d, n, t) == El(d, n, <<>>, "text", t, <<>>)

Instance(label, value, flipped) ==
  LET name == Leaf("oslc", "name", label)
      val == Leaf("rdf", "value", value)
  IN  El("oslc_auto", "inputParameter", <<>>, "kids", "",
         <<El("oslc_auto", "ParameterInstance", <<>>, "kids", "",
              IF flipped THEN <<val, name>> ELSE <<name, val>>)>>)

RequestBody(insts, flip) ==
  El("rdf", "RDF", <<Attr("xmlns", "rdf", "rdf-ns"), Attr("xmlns", "oslc_auto", "auto-ns"),
                     Attr("xmlns", "oslc", "oslc-ns")>>, "kids", "",
     <<El("oslc_auto", "AutomationRequest", <<Attr("rdf", "about", "req")>>, "kids", "",
          <<El("oslc_auto", "executesAutomationPlan", <<>>, "kids", "",
               <<El("oslc_auto", "AutomationPlan", <<Attr("rdf", "about", Plan)>>, "closed", "", <<>>)>>),
            El("oslc_auto", "usesExecutionEnvironment", <<Attr("rdf", "resource", Tool)>>,
               "closed", "", <<>>)>>
          \o [k \in DOMAIN insts |-> Instance(insts[k].label, insts[k].value, k = flip)])>>)

(* Every order of nIn input files, nPar parameters and one call schema.   *)
Arrangements(n, m) ==
  LET Labelled(lab, vs) == [label : {lab}, value : vs]
      Slots == Labelled("InputFiles", MCValues) \cup Labelled("CallParameters", MCValues)
                 \cup Labelled("CallSchemaSignature", {SchemaWord})
      count(s, lab) == Len(SelectSeq(s, LAMBDA r : r.label = lab))
  IN  {s \in [1..(n + m + 1) -> Slots] :
         count(s, "InputFiles") = n /\ count(s, "CallParameters") = m}

(* What a getter should return for label lab: the values of its           *)
(* instances in body order, and a MalformedXMLException when its instance *)
(* at position flip has the value first.                                  *)
Expected(insts, flip, lab) ==
  IF flip # 0 /\ insts[flip].label = lab THEN Malformed
  ELSE [ok |-> TRUE, vals |-> [k \in DOMAIN SelectSeq(insts, LAMBDA r : r.label = lab) |->
                                 SelectSeq(insts, LAMBDA r : r.label = lab)[k].value]]

BodyRead(insts, flip) ==
  \A x \in {Fill(RequestBody(insts, flip)).x} :
     /\ GetToolName(x) = [ok |-> TRUE, vals |-> <<Tool>>]
     /\ GetAutoPlanName(x) = [ok |-> TRUE, vals |-> <<Plan>>]
     /\ GetInputNames(x) = Expected(insts, flip, "InputFiles")
     /\ GetParameters(x) = Expected(insts, flip, "CallParameters")
     /\ GetCallSchema(x) = Expected(insts, flip, "CallSchemaSignature")

ExtractionTable ==
  [n \in MCSizes, m \in MCSizes |->
     \A insts \in Arrangements(n, m) : \A flip \in 0..Len(insts) : BodyRead(insts, flip)]

(* RequestResponse::Request getters over Xml::fill: for every body with   *)
(* this request's numbers of input files and parameters, in any order,    *)
(* verify reads the tool, the plan, the input file IDs and parameters in  *)
(* body order and the one call schema; an instance whose value comes      *)
(* before its label makes only its own getter throw MalformedXML, never   *)
(* hand on a label as a value.                                            *)
RequestBodyRead == ExtractionTable[nIn, nPar]
-----------------------------------------------------------------------------
(* Tool-registry configs for ToolKitFactory (spec.md 5: a document listing *)
(* tools, each with attributes name, path, output_parser and              *)
(* single_instance and child category elements with a name). Up to two    *)
(* tools, under a root called "registry"; two names differ only in case.  *)
ToolNames == {"nuXmv", "NuXmv", "kind2"}
MCLower == [n \in ToolNames \cup {"nuxmv"} |-> IF n = "kind2" THEN "kind2" ELSE "nuxmv"]
Flags == {"true", "yes"}
Tags == {"ltl", "smv"}

(* Every attribute value of the bodies and configs, for bbb::dequote.     *)
MCWords == {"rdf-ns", "auto-ns", "oslc-ns", "req", Tool, Plan} \cup ToolNames \cup Flags \cup Tags \cup {"p", "o"}

ToolSpecs == [name : ToolNames, single : Flags, caps : {<<>>, <<"ltl">>, <<"ltl", "smv">>}]

(* A <tool> element, its attributes in the documented order or reversed. *)
ToolEl(t, reversed) ==
  LET attrs == <<Attr("", "name", t.name), Attr("", "path", "p"),
                 Attr("", "output_parser", "o"), Attr("", "single_instance", t.single)>>
      cats == [k \in DOMAIN t.caps |-> El("", "category", <<Attr("", "name", t.caps[k])>>, "closed", "", <<>>)]
  IN  El("", "tool", IF reversed THEN Reverse(attrs) ELSE attrs,
         IF cats = <<>> THEN "closed" ELSE "kids", "", cats)

ConfigFile(tools, reversed) ==
  El("", "registry", <<>>, IF tools = <<>> THEN "text" ELSE "kids", "",
     [k \in DOMAIN tools |-> ToolEl(tools[k], reversed)])

(* What the registry should hold: the first tool listed under each        *)
(* lowercase name, and every tag of a stored tool filed under its key.    *)
Keys(tools) == {MCLower[tools[k].name] : k \in DOMAIN tools}
FirstListed(tools, key) == tools[Min({k \in DOMAIN tools : MCLower[tools[k].name] = key})]

KitLoaded(tools, reversed) ==
  \A r \in {Create(Fill(ConfigFile(tools, reversed)).x)} :
    IF \E k \in DOMAIN tools : tools[k].single # "true" THEN ~r.ok
    ELSE /\ r.ok
         /\ DOMAIN r.kit.store = Keys(tools)
         /\ \A key \in Keys(tools) :
              r.kit.store[key] = [name |-> FirstListed(tools, key).name, path |-> "p", parser |-> "o",
                                  single |-> TRUE, caps |-> Range(FirstListed(tools, key).caps)]
         /\ r.kit.caps = UNION {r.kit.store[key].caps : key \in Keys(tools)}
         /\ DOMAIN r.kit.byCat = r.kit.caps
         /\ \A c \in r.kit.caps : GetTools(r.kit, c) = {key \in Keys(tools) : c \in r.kit.store[key].caps}

ToolKitTable ==
  [n \in MCSizes |-> \A tools \in UNION {[1..k -> ToolSpecs] : k \in 0..2}, reversed \in BOOLEAN :
                        KitLoaded(tools, reversed)]

(* ToolKitXMLFactory::create with ToolKit::insert, the registry a request *)
(* is served from: a config with a non-boolean single_instance is         *)
(* rejected; otherwise the registry holds, under each lowercase name, the *)
(* first tool listed with it, attributes in any order, and its inverted   *)
(* index files exactly the stored tools' tags (a later tool of the same   *)
(* name adds none of its own).                                            *)
ToolKitLoaded == ToolKitTable[nIn]

=============================================================================
