------------------------------ MODULE MCInputs ------------------------------
(* The parts that compute and do not wait, side by side in one run: the TLV
   codec, the replay window and the command line.  They share no state: the
   choice of part in Init says which of the three takes the steps. *)
EXTENDS TLVWire, PeerCounter, CommandLine

VARIABLE part

(*-- Codec --*)
\* Fields without a nested type.
F(num, type, wrap, size) ==
  [num |-> num, type |-> type, wrap |-> wrap, size |-> size, sub |-> <<>>, elem |-> <<>>]
Of(f, sub) == [f EXCEPT !.sub = sub]
Slice(num, type, elem) == [F(num, type, "plain", 0) EXCEPT !.elem = elem]

\* Integers at every width, in every wrapper.
Numbers == <<F(1, "int", "opt", 8), F(0, "uint", "ptr", 8)>>
Texts == <<F(0, "utf8", "opt", 0), F(1, "octets", "plain", 0), F(2, "bool", "plain", 0)>>
\* A path (a list), as in AttributePathIB, inside a report whose reader does
\* not know one of the nested fields; the nested tags are those outside.
Path == <<F(0, "uint", "ptr", 1), F(1, "bool", "ptr", 0)>>
PathOld == <<F(1, "bool", "ptr", 0)>>
Report == <<Of(F(0, "liststruct", "plain", 0), Path), Of(F(1, "struct", "opt", 0), PathOld),
            F(2, "rawtlv", "plain", 0)>>
ReportOld == <<Of(F(0, "liststruct", "plain", 0), PathOld), F(2, "rawtlv", "plain", 0)>>
\* Slices: of pointers, of structs as structures and as lists.
Slices == <<Slice(0, "array", F(0, "uint", "ptr", 2)),
            Slice(1, "listarray", Of(F(0, "struct", "plain", 0), PathOld))>>
SlicesOld == <<Slice(1, "listlist", Of(F(0, "struct", "plain", 0), PathOld))>>
Lists == <<Slice(0, "list", F(0, "bool", "plain", 0)),
           Slice(1, "listlist", Of(F(0, "struct", "ptr", 0), PathOld)), F(2, "float32", "ptr", 0)>>
Raw == <<F(0, "rawstruct", "plain", 0), F(1, "rawtlv", "plain", 0), F(2, "float64", "plain", 0)>>

MCRevisions == {<<Numbers, Numbers>>, <<Texts, Texts>>, <<Report, Report>>, <<Report, ReportOld>>,
                <<Slices, Slices>>, <<Slices, SlicesOld>>, <<Lists, Lists>>, <<Raw, Raw>>}
\* With two-bit bytes: both sides of each width's limits.
MCIntValues == {-32768, -129, -128, -9, -8, -3, -2, -1, 0, 1, 2, 7, 8, 127, 128, 32767}
MCUintValues == {0, 3, 4, 15, 16, 255, 256, 65535}
MCLengths == {0, 3, 4, 16}
MCRawElements == {<<PutUnsignedInt(AnonymousTag, 4)>>, <<PutNull(AnonymousTag)>>,
                  Container(AnonymousTag, "struct",
                            <<PutBool(ContextTag(1), TRUE)>> \o Container(ContextTag(2), "array", <<>>))}
\* Elements that no reader knows: a scalar, and a container that holds
\* another one and a field with a tag the reader does know.
MCUnknown ==
  {<<PutUnsignedInt([form |-> "profile2", num |-> 7], 1)>>,
   Container(ContextTag(3), "struct",
             <<PutUnsignedInt(ContextTag(0), 4)>>
               \o Container(ContextTag(1), "list", <<PutBool(ContextTag(2), TRUE)>>)
               \o <<PutSignedInt(ContextTag(1), 2)>>)}

(*-- Command line: two nodes, two clusters, and the lines that people type. --*)
Attr(id, writable, type) == [id |-> id, writable |-> writable, type |-> type]
Field(name, id, type, optional, enums) ==
  [name |-> name, id |-> id, type |-> type, optional |-> optional, enums |-> enums]

MCFabric == (1 :> ((0 :> {"Info"}) @@ (1 :> {"OnOff"}))) @@ (2 :> (1 :> {"OnOff", "Info"}))
MCSpecs ==
  [OnOff |-> [attrs |-> [OnOff |-> Attr(0, FALSE, "bool"), OnTime |-> Attr(1, TRUE, "uint16"),
                         Label |-> Attr(2, TRUE, "string")],
              cmds |-> [Toggle |-> <<>>,
                        Move |-> <<Field("Rate", 0, "uint8", FALSE, <<>>),
                                   Field("Dir", 1, "enum8", TRUE, ("Up" :> "0") @@ ("Down" :> "1")),
                                   Field("Time", 3, "int8", TRUE, <<>>)>>]],
   Info |-> [attrs |-> [Vendor |-> Attr(0, FALSE, "string")], cmds |-> <<>>]]
MCGlobals == [Revision |-> Attr(9, FALSE, "uint16")]
MCAdvertised == [OnOff |-> {"OnOff", "OnTime"}, Info |-> {"Vendor"}]
MCValues == {"1", "on"}

Wd(name) == <<"word", name, TRUE>>
Other(name) == <<"word", name, FALSE>>     \* in another case
At(n, e) == <<"target", n, e>>
Opt1(name, tok) == <<"opt", name, tok>>

MCTypedLines == {
  <<Wd("use"), <<"plain", 2, 1>>>>, <<Wd("use"), <<"plain", 1, Unset>>>>, <<Wd("use"), At(1, 1)>>,
  <<Wd("use"), Opt1("clear", <<"set">>)>>, <<Wd("use"), Opt1("show", <<"set">>)>>,
  <<Wd("use"), Opt1("show", <<"set">>), Opt1("clear", <<"set">>)>>, <<Wd("use"), Wd("OnOff")>>,
  <<Wd("config"), Wd("set"), <<"key", "default-node", 2>>>>,
  <<Wd("config"), Wd("set"), <<"key", "format", 0>>>>,
  <<Wd("interactive")>>, <<At(1, 1), Wd("interactive")>>,
  <<Wd("cluster"), Wd("list")>>, <<Wd("tree")>>, <<<<"badtarget">>, Wd("tree")>>,
  <<Other("OnOff"), Other("Toggle")>>, <<<<"flag">>, <<"arg">>, Wd("OnOff"), Wd("Toggle")>>,
  <<<<"flag">>, <<"arg">>, Other("OnOff"), Wd("Toggle")>>, <<At(0, 1), Wd("OnOff"), Wd("Toggle")>>,
  <<Wd("OnOff"), At(1, 1), Wd("read"), <<"num", 1>>>>, <<At(1, 1), Wd("OnOff"), Wd("read"), <<"num", 7>>>>,
  <<At(1, 1), Wd("OnOff"), Wd("write"), <<"num", 7>>, <<"bare", "1">>>>,
  <<At(1, 1), Wd("OnOff"), Wd("write"), <<"num", 0>>, <<"bare", "1">>>>,
  <<At(1, 1), Wd("OnOff"), Wd("write"), Other("Label"), <<"bare", "on">>>>,
  <<Wd("OnOff"), Wd("read"), Wd("Bogus")>>, <<Wd("OnOff"), Wd("Toggle"), At(2, 1), At(1, 1)>>,
  <<Wd("OnOff"), Wd("Move"), <<"bare", "300">>, <<"bare", "1">>, <<"bare", "-2">>>>,
  <<Wd("OnOff"), Wd("Move"), <<"bare", "1">>, <<"kv", "Rate", TRUE, "300">>, <<"bare", "0">>>>,
  <<Wd("OnOff"), Wd("Move"), <<"F", "Rate", TRUE, "1">>, <<"kv", "Rate", TRUE, "0">>,
    <<"kv", "Time", TRUE, "-2">>>>,
  <<Wd("OnOff"), Wd("Move"), <<"kv", "Rate", FALSE, "1">>>>,
  <<Wd("OnOff"), Wd("Move"), <<"bare", "1">>, <<"kv", "Dir", FALSE, "Up">>>>,
  <<Wd("OnOff"), Wd("Move"), <<"bare", "1">>, <<"kv", "Dir", TRUE, "Up">>, <<"kv", "Dir", FALSE, "Down">>>>,
  <<Wd("OnOff"), Wd("Move"), <<"bare", "1">>, <<"bare", "Up">>, <<"bare", "0">>, <<"bare", "1">>>>,
  <<Wd("OnOff"), Wd("Move"), <<"kv", "Bogus", TRUE, "1">>>>,
  <<Wd("OnOff"), Wd("Move"), <<"bare", "1">>, <<"--">>, At(1, 1)>>,
  <<Wd("cluster"), Wd("read"), Opt1("cluster", <<"num", 6>>)>>,
  <<Wd("cluster"), Wd("read"), Opt1("value", <<"bare", "1">>)>>,
  <<Wd("cluster"), Wd("invoke"), Opt1("cluster", Other("OnOff")), Opt1("command", Wd("Bogus"))>>}

MCReplLines == {
  <<Wd("OnOff"), Wd("Toggle")>>, <<Wd("OnOff"), Wd("Move"), <<"F", "Rate", TRUE, "1">>>>,
  <<Wd("OnOff"), Wd("Move")>>, <<Wd("use")>>, <<At(2, 1), Wd("OnOff"), Wd("Toggle")>>,
  <<Wd("cluster"), Wd("read"), Opt1("cluster", Wd("OnOff")), Opt1("attribute", Wd("OnTime"))>>,
  <<Wd("cluster"), Wd("read"), Opt1("cluster", Wd("OnOff"))>>,
  <<Wd("config"), Wd("set"), <<"key", "default-node", 1>>>>,
  <<Wd("config"), Wd("set"), <<"key", "format", 0>>>>}

MCEnvironments == {<<>>, <<"target", 1, 0>>, <<"badtarget">>}

-----------------------------------------------------------------------------
WireIdle == rev = <<>> /\ sent = <<>> /\ buf = <<>> /\ state = "idle" /\ got = NotRead
CmdIdle == CmdInit /\ env = <<>>

InputsInit ==
  \/ part = "codec" /\ WireInit /\ CounterInit /\ CmdIdle
  \/ part = "window" /\ WireIdle /\ CounterInit /\ CmdIdle
  \/ part = "command" /\ WireIdle /\ CounterInit /\ CmdInit

InputsNext ==
  /\ UNCHANGED part
  /\ \/ part = "codec" /\ WireNext /\ UNCHANGED <<counterVars, cmdVars>>
     \/ part = "window" /\ CounterNext /\ UNCHANGED <<wireVars, cmdVars>>
     \/ part = "command" /\ CmdNext /\ UNCHANGED <<wireVars, counterVars>>
=============================================================================
