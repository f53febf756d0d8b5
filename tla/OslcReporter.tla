---------------------------- MODULE OslcReporter ----------------------------
(***************************************************************************)
(* The monitoring-report assembler: Archive::OSLCReporter over the        *)
(* XMLSupport::Xml store of XmlStore. The reporter builds its template     *)
(* once (build_oslc_perf) and keeps the indices of the thirteen leaf subs  *)
(* (pidNode, ...); each monitor call (getOSLC) points those subs at the    *)
(* tokens of the new values and prints the document.                       *)
(*                                                                         *)
(* Where C++ leaves the order of argument evaluation open the model goes  *)
(* left to right; the order only changes index values, never what is     *)
(* printed. Namespace URLs                                                 *)
(* are shortened; print is modelled by the tree it writes, without the     *)
(* indentation and line breaks.                                            *)
(***************************************************************************)
EXTENDS XmlStore

CONSTANTS
  MonitorInfos,  \* ReportInformation snapshots getMonitoringInformation returns
  LocalAddress,  \* the server's public address
  MaxPolls       \* bound on the monitor calls of one report

(* Xml::perf_item: an rdf:description with its type, title, metric, unit *)
(* and an empty numericValue whose sub index it hands back as value.      *)
PerfItem(x0, addr, title, metric, unit, type) ==
  Bind(Ip(x0, "rdf", "about", addr \o " " \o title), LAMBDA ab :
  Bind(Ip(ab.x, "rdf", "resource", "ems#Measure"), LAMBDA p1 :
  Bind(Ii(p1.x, "rdf", "type", <<p1.i>>, -1), LAMBDA i1 :
  Bind(Isv(i1.x, title), LAMBDA v2 :
  Bind(Ii(v2.x, "dcterms", "title", <<>>, v2.i), LAMBDA i2 :
  Bind(Ip(i2.x, "rdf", "resource", metric), LAMBDA p3 :
  Bind(Ii(p3.x, "ems", "metric", <<p3.i>>, -1), LAMBDA i3 :
  Bind(Ip(i3.x, "rdf", "resource", unit), LAMBDA p4 :
  Bind(Ii(p4.x, "ems", "unitOfMeasure", <<p4.i>>, -1), LAMBDA i4 :
  Bind(Ip(i4.x, "rdf", "datatype", type), LAMBDA p5 :
  Bind(Isv(p5.x, ""), LAMBDA v5 :
  Bind(Ii(v5.x, "ems", "numericValue", <<p5.i>>, v5.i), LAMBDA i5 :
  Bind(Isi(i5.x, <<i1.i, i2.i, i3.i, i4.i, i5.i>>), LAMBDA sb :
  Bind(Ii(sb.x, "rdf", "description", <<ab.i>>, sb.i), LAMBDA d :
    [x |-> d.x, i |-> d.i, value |-> v5.i]))))))))))))))

(* A run of perf_item calls in a braced list: rows are [node, title,      *)
(* metric, unit, type]; the result collects the items and the node map.   *)
PerfItems(x0, rows) ==
  Steps(LAMBDA acc, r :
          Bind(PerfItem(acc.x, LocalAddress, r.title, r.metric, r.unit, r.type), LAMBDA p :
            [x |-> p.x, is |-> Append(acc.is, p.i),
             node |-> acc.node @@ (r.node :> p.value)]),
        [x |-> x0, is |-> <<>>, node |-> <<>>], rows)

Row(n, t, m, u, ty) == [node |-> n, title |-> t, metric |-> m, unit |-> u, type |-> ty]

(* OSLCReporter::build_oslc_perf: the RDF root with its seven namespace   *)
(* bindings, eight perf items, the oslc_auto:AutomationResult holding     *)
(* five more, and the dcterms:creator. Returns the reporter: the store,   *)
(* its top and the thirteen node indices.                                 *)
BuildOslcPerf(plan) ==
  Bind(Steps(LAMBDA acc, p :
               Bind(Ip(acc.x, "xmlns", p, "ns#" \o p), LAMBDA q :
                 [x |-> q.x, is |-> Append(acc.is, q.i)]),
             [x |-> EmptyXml, is |-> <<>>],
             <<"rdf", "rdfs", "owl", "dcterms", "pm", "ems", "oslc_auto">>), LAMBDA ns :
  Bind(PerfItems(ns.x,
         << Row("pidNode", "Process ID", "pm:MemoryMetrics", "unit#Bytes", "xsd#integer"),
            Row("bResultNode", plan, "auto#AutomationResult", "unit#Char", "xsd#String"),
            Row("freeNode", "Free Memory in Absolute Value", "pm:MemoryMetrics", "unit#Bytes", "xsd#integer"),
            Row("percNode", "Free Memory in Percentage", "pm:MemoryMetrics", "unit#Bytes", "xsd#integer"),
            Row("utimeNode", "CPU Usage (user)", "pm:CPUMetrics", "dbp:Percentage", "xsd#float"),
            Row("stimeNode", "CPU Usage (system)", "pm:CPUMetrics", "dbp:Percentage", "xsd#float"),
            Row("vsizeNode", "Consumed Memory Usage (vsize)", "pm:MemoryMetrics", "unit#Bytes", "xsd#integer"),
            Row("rssNode", "Memory Usage (rss)", "pm:MemoryMetrics", "unit#Bytes", "xsd#integer") >>), LAMBDA pm :
  Bind(Ip(pm.x, "rdf", "about", "autoresults/3456"), LAMBDA ap :
  Bind(PerfItems(ap.x,
         << Row("stdOutNode", "Standard Output", "foo", "string", "xsd#string"),
            Row("errOutNode", "Error Output", "foo", "string", "characters"),
            Row("verResultNode", "partVerResult", "foo", "string", "xsd#string"),
            Row("retCodeNode", "retCode", "foo", "string", "xsd#string"),
            Row("parsedOutputNode", "parsedOutput", "foo", "string", "xsd#string") >>), LAMBDA ao :
  Bind(Isi(ao.x, ao.is), LAMBDA as :
  Bind(Ii(as.x, "oslc_auto", "AutomationResult", <<ap.i>>, as.i), LAMBDA ar :
  Bind(Ip(ar.x, "rdf", "resource", "Honeywell International"), LAMBDA cp :
  Bind(Ii(cp.x, "dcterms", "creator", <<cp.i>>, -1), LAMBDA cr :
  Bind(Isi(cr.x, pm.is \o <<ar.i, cr.i>>), LAMBDA rs :
  Bind(Ii(rs.x, "rdf", "RDF", ns.is, rs.i), LAMBDA rt :
    [xml |-> rt.x, top |-> rt.i, node |-> pm.node @@ ao.node]))))))))))

-----------------------------------------------------------------------------
(* std::to_string of an unsigned or int: its decimal digits.              *)
IntStr(n) == IF n < 0 THEN "-" \o ToString(-n) ELSE ToString(n)

(* std::to_string of a double prints "%f": six decimals. A figure is kept *)
(* in millionths, so the conversion is exact.                             *)
DoubleStr(u) ==
  LET f == u % 1000000
      pad == CASE f < 10 -> "00000" [] f < 100 -> "0000" [] f < 1000 -> "000"
               [] f < 10000 -> "00" [] f < 100000 -> "0" [] OTHER -> ""
  IN  IntStr(u \div 1000000) \o "." \o pad \o ToString(f)

(* Mutant: the user and system CPU figures written to each other's node.  *)
SlotValuesSwapped(info) ==
  << <<"pidNode", IntStr(info.pid)>>, <<"bResultNode", info.runningResult>>,
     <<"utimeNode", DoubleStr(info.stime)>>, <<"stimeNode", DoubleStr(info.utime)>>,
     <<"vsizeNode", info.vsize>>, <<"rssNode", info.rss>>,
     <<"freeNode", info.memFree>>, <<"percNode", info.memPerc>>,
     <<"stdOutNode", info.stdOut>>, <<"errOutNode", info.errOut>>,
     <<"verResultNode", info.verResult>>, <<"retCodeNode", IntStr(info.retCode)>>,
     <<"parsedOutputNode", info.parsedOutput>> >>

(* getOSLC, lines 90-102: the string each node is given, in the order the *)
(* code writes them.                                                      *)
SlotValues(info) ==
  << <<"pidNode", IntStr(info.pid)>>, <<"bResultNode", info.runningResult>>,
     <<"utimeNode", DoubleStr(info.utime)>>, <<"stimeNode", DoubleStr(info.stime)>>,
     <<"vsizeNode", info.vsize>>, <<"rssNode", info.rss>>,
     <<"freeNode", info.memFree>>, <<"percNode", info.memPerc>>,
     <<"stdOutNode", info.stdOut>>, <<"errOutNode", info.errOut>>,
     <<"verResultNode", info.verResult>>, <<"retCodeNode", IntStr(info.retCode)>>,
     <<"parsedOutputNode", info.parsedOutput>> >>

(* OSLCReporter::getOSLC: xml.subs[node].value = xml.insert_token(value)  *)
(* for each node; the store is kept for the next call.                    *)
GetOSLC(rep, info) ==
  Steps(LAMBDA r, sv :
          Bind(InsertToken(r.xml, sv[2]), LAMBDA t :
              [r EXCEPT !.xml = [t.x EXCEPT !.subs[r.node[sv[1]] + 1].value = t.i]]),
        rep, SlotValues(info))

(* The reporter of a Report created for plan after the polls of history.  *)
Polled(plan, history) == Steps(GetOSLC, BuildOslcPerf(plan), history)

-----------------------------------------------------------------------------
(* The tree the reporter's document prints.                              *)
Document(rep) == Tree(rep.xml, rep.top)

-----------------------------------------------------------------------------
(* Every sequence of at most MaxPolls monitor calls.                      *)
Histories == UNION {[1..n -> MonitorInfos] : n \in 1..MaxPolls}

(* What a client reads: each rdf:description in the document, its         *)
(* dcterms:title and its ems:numericValue.                                *)
RECURSIVE Descriptions(_)
Descriptions(e) == (IF e.name = "rdf:description" THEN {e} ELSE {})
                     \cup UNION {Descriptions(e.kids[k]) : k \in DOMAIN e.kids}
Children(e, n) == {e.kids[k] : k \in {k \in DOMAIN e.kids : e.kids[k].name = n}}
ValuesTitled(doc, t) ==
  {v.text : v \in UNION {Children(d, "ems:numericValue") :
                           d \in {d \in Descriptions(doc) :
                                    \E c \in Children(d, "dcterms:title") : c.text = t}}}

(* spec.md 4.5 and the monitoring document (spec.md 6): the value each    *)
(* titled perf item carries, taken from the ReportInformation snapshot    *)
(* getMonitoringInformation returns; the automation-result slot is titled *)
(* by the plan.                                                           *)
Reported(plan, info) ==
  ("Process ID" :> IntStr(info.pid)) @@ (plan :> info.runningResult)
  @@ ("Free Memory in Absolute Value" :> info.memFree)
  @@ ("Free Memory in Percentage" :> info.memPerc)
  @@ ("CPU Usage (user)" :> DoubleStr(info.utime))
  @@ ("CPU Usage (system)" :> DoubleStr(info.stime))
  @@ ("Consumed Memory Usage (vsize)" :> info.vsize)
  @@ ("Memory Usage (rss)" :> info.rss)
  @@ ("Standard Output" :> info.stdOut) @@ ("Error Output" :> info.errOut)
  @@ ("partVerResult" :> info.verResult) @@ ("retCode" :> IntStr(info.retCode))
  @@ ("parsedOutput" :> info.parsedOutput)

(* After the polls of h, the document of a reporter built for plan holds, *)
(* under each title, exactly the value of the latest snapshot.            *)
LatestPollShown(plan) ==
  \A h \in Histories :
    \A doc \in {Document(Polled(plan, h))}, exp \in {Reported(plan, h[Len(h)])} :
      \A t \in DOMAIN exp : ValuesTitled(doc, t) = {exp[t]}

(* After the polls of h, the reporter's tokens hold each string once and  *)
(* every string the template and the polls produced.                      *)
StoreInterned(plan) ==
  \A h \in Histories :
    \A x \in {Polled(plan, h).xml} :
        /\ IsInjective(x.tokens)
        /\ Range(x.tokens) = Range(BuildOslcPerf(plan).xml.tokens)
                               \cup UNION {{sv[2] : sv \in Range(SlotValues(h[k]))} : k \in DOMAIN h}

=============================================================================
