------------------------ MODULE MCDeviceSimulation ------------------------
(***************************************************************************)
(* Two instances of two devices, a thread that queries while another calls *)
(* the rest; the drivers, files and settings that tell the paths of the    *)
(* loader apart.                                                           *)
(***************************************************************************)
EXTENDS DeviceSimulation

MCDrivers ==
    {[api |-> api, extensions |-> exts,
      extension_list |-> SetToSeq(exts), queues |-> <<"graphics", "compute">>,
      formats |-> {"rgba", "depth"}, heaps |-> 2] :
        api \in {10, 11, 12}, exts \in {{}, {"multiview"}, {"multiview", "timeline"}, Exts}}

File(id, schema, sets, api, heaps, arrays) ==
    [id |-> id, readable |-> TRUE, schema |-> schema, sets |-> sets, api |-> api,
     heaps |-> heaps, arrays |-> arrays]

Plain(id, schema, sets) == File(id, schema, sets, 0, -1, << >>)
Format(name, features) == [name |-> name, features |-> features]
Restricted ==
    "queues" :> <<"graphics">> @@ "extensions" :> <<"multiview", "timeline">>
    @@ "formats" :> <<Format("rgba", TRUE), Format("depth", FALSE)>>

FileLists ==
    {<< >>,
     <<Plain("a", "1_2_0", Slots), Plain("b", "1_0_0", {"core"})>>,
     <<Plain("a", "1_0_0", {"core"}), Plain("b", "timeline", {"timeline", "core"})>>,
     <<File("a", "1_1_0", {"multiview"}, 11, 1, Restricted), Plain("b", "1_2_0", {"protected"})>>,
     <<Plain("a", "1_1_0", {"protected"}), Plain("b", "unknown", Slots), Plain("c", "1_0_0", {"core"})>>,
     <<Plain("a", Portability, {Portability}), File("b", "1_2_0", {"vulkan12.only"}, 0, -1, Restricted)>>}

MCFiles == UNION {Range(files) : files \in FileLists}

MCEnvironments ==
    {[filename |-> [file |-> << >>, env |-> files],
      emulate |-> emulate, modify_extensions |-> "1", modify_memory |-> "", exit_on_error |-> exits] :
        files \in FileLists, exits \in {"", "1"},
        emulate \in {[file |-> "true", env |-> ""], [file |-> "true", env |-> "0"]}}

Handles == Permutations(Instances)
=============================================================================
