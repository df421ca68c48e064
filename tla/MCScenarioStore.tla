--------------------------- MODULE MCScenarioStore ---------------------------
(***************************************************************************)
(* Documents for ScenarioStore: flat scenarios of one or two steps of every *)
(* type, and scenarios of normal and reactive branches, each with fields    *)
(* left out, empty, out of range or of a wrong type.                        *)
(***************************************************************************)
EXTENDS ScenarioStore

O(id, type) == Field("id", Str(id)) @@ Field("type", Str(type))

Cmd(d, c) == Field("device_id", Str(d)) @@ Field("command_id", Str(c))
CmdP(d, c, p) == Cmd(d, c) @@ Field("params", Obj(p))
Ev(d, e) == Field("device_id", Str(d)) @@ Field("event_id", Str(e))
Flag(f) == Field("flag_name", Str(f)) @@ Field("value", Bool(TRUE))
List(f, q) == Field(f, Arr([i \in DOMAIN q |-> Obj(q[i])]))

Commands ==
  {Cmd("d1", "open"), CmdP("d1", "open", Field("ms", Str("2"))), CmdP("d1", "open", Field("ms", Bool(TRUE))),
   Cmd("system_audio", "play"), CmdP("system_audio", "play", Field("file", Str("f"))),
   CmdP("system_io", "set", Field("channel", Num(1))), CmdP("system_io", "set", Field("channel", Str("2"))),
   Cmd("system_io", "set"), Cmd("system_relay", "toggle"), Cmd("system_mosfet", "all_off"),
   Cmd("d2", "led"), CmdP("d2", "led", Field("strip", Num(1)) @@ Field("effect", Str("fire"))),
   CmdP("d2", "led", Field("strip", Num(2))), CmdP("d2", "led", Field("effect", Str("none"))),
   Cmd("d9", "open"), Cmd("d1", "close"), Cmd("", "open"), Field("device_id", Str("d1")),
   Cmd("d1", "open") @@ Field("params", Num(1)), CmdP("d1", "open", Field(LONG, Num(1)))}

Events ==
  {Ev("d1", "opened"), Ev("d1", "closed"), Ev("system_io", "ch1_high"), Ev("system_io", "ch2_low"),
   Ev("system_audio", "playback_finished"), Ev("d2", "card"), Ev("d2", "card@1"), Ev("d2", "card@2"),
   Ev("d2", "key@1"), Ev("d9", "x"), Ev("", "x")}

Waits == {<<>>, Field("timeout_ms", Num(5)), Field("timeout_ms", Num(UINT32_MAX + 1)),
          Field("timeout_ms", Num(1)) @@ Field("timeout_action", Str("fail_reaction")),
          Field("timeout_message", Str("m"))}

Others ==
  {O("s", "WAIT_TIME") @@ Field("duration_ms", Num(n)) : n \in {0, 1, UINT32_MAX, UINT32_MAX + 1}}
  \cup {O("s", "WAIT_TIME"), O("s", "END_GAME"), O("s", "FINISH_GAME"), O("s", "FAIL_REACTION"),
        O("s", "NOTHING"), O("", "END_GAME"), Field("type", Str("END_GAME")),
        O("s", "MANUAL_GATE") @@ Field("prompt", Str("p")),
        O("s", "OPERATOR_APPROVAL") @@ Field("prompt", Str("p")) @@ Field("approve_label", Str("a")),
        O("s", "OPERATOR_APPROVAL") @@ Field("prompt", Str("")),
        O("s", "SHOW_OPERATOR_MESSAGE") @@ Field("message", Str("m")),
        O("s", "OPERATOR_MESSAGE"), O("s", "SET_FLAG") @@ Flag("g"), O("s", "SET_FLAG") @@ Flag(""),
        O("s", "END_GAME") @@ Field("label", Str("l")) @@ Field("enabled", Bool(FALSE)),
        O("s", "END_GAME") @@ Field("label", Null) @@ Field("allow_operator_skip", Bool(TRUE))
          @@ Field("operator_skip_label", Str("k")),
        O("s", "END_GAME") @@ Field("label", Str(LONG)), O("s", "END_GAME") @@ Field("enabled", Num(1))}

Steps ==
  {O("s", "DEVICE_COMMAND") @@ c : c \in Commands}
  \cup {O("s", "DEVICE_COMMAND_GROUP") @@ List("commands", <<c, CmdP("d1", "open", Field("ms", Num(1)))>>) : c \in Commands}
  \cup {O("s", "WAIT_DEVICE_EVENT") @@ e : e \in Events}
  \cup {O("s", "WAIT_DEVICE_EVENT") @@ Ev("d1", "opened") @@ w : w \in Waits}
  \cup {O("s", t) @@ List("events", <<Ev("d1", "opened"), e>>) @@ w :
          t \in {"WAIT_ANY_DEVICE_EVENT", "WAIT_ALL_DEVICE_EVENTS"}, e \in {Ev("d2", "card@1"), Ev("d1", "closed")},
          w \in {<<>>, Field("timeout_ms", Num(1))}}
  \cup {O("s", t) @@ List(f, <<>>) : t \in {"WAIT_ANY_DEVICE_EVENT", "DEVICE_COMMAND_GROUP", "WAIT_FLAGS"},
                                     f \in {"events", "commands", "flags"}}
  \cup {O("s", "WAIT_FLAGS") @@ List("flags", q) @@ w :
          q \in {<<Flag("g")>>, <<Flag("g"), Flag("h")>>, <<Flag("")>>}, w \in Waits}
  \cup Others

Top(r) == Obj(Field("id", Str("sc")) @@ Field("name", Str("n")) @@ Field("room_id", Str("r")) @@ r)

Flat == {Top(List("steps", <<st>>)) : st \in Steps}
Pairs == {Top(List("steps", <<O("s", "END_GAME"), O(i, "END_GAME")>>)) : i \in {"s", "t"}}
         \cup {Top(List("steps", <<O("s", "DEVICE_COMMAND") @@ CmdP("d1", "open", Field("ms", Num(1))),
                                   O("t", "DEVICE_COMMAND") @@ c, O("u", "DEVICE_COMMAND") @@ e>>) ) :
                 c \in {Cmd("d1", "open"), CmdP("system_audio", "play", Field("file", Str("f")))},
                 e \in {CmdP("d1", "open", Field("ms", Str("x"))), Cmd("system_mosfet", "all_off")}}

Branch(id, type) == Field("id", Str(id)) @@ Field("name", Str("b")) @@ Field("type", Str(type))
OneStep == List("steps", <<O("s", "WAIT_FLAGS") @@ List("flags", <<Flag("g")>>)>>)

Policies ==
  {<<>>, Field("cooldown_ms", Num(3)), Field("max_fire_count", Num(2)), Field("run_once", Bool(TRUE)),
   Field("cooldown_ms", Num(3)) @@ Field("policy", Obj(Field("mode", Str("rotate")))),
   Field("policy", Obj(Field("mode", Str("random")) @@ Field("cooldown_ms", Num(4)) @@ Field("max_fire_count", Num(2)))),
   Field("policy", Obj(Field("max_fire_count", Num(2)))), Field("policy", Num(1)),
   Field("reentry", Obj(Field("mode", Str("queueOne")))), Field("reentry", Obj(Field("mode", Str("restart"))))}

Actions ==
  {Field("type", Str("DEVICE_COMMAND")) @@ c : c \in {CmdP("d1", "open", Field("ms", Num(1))), Cmd("d1", "open"), Cmd("", "open")}}
  \cup {Field("type", Str("DEVICE_COMMAND_GROUP")) @@ m @@ List("commands", <<CmdP("d1", "open", Field("ms", Num(1))), Cmd("system_mosfet", "all_off")>>) :
          m \in {<<>>, Field("mode", Str("parallel"))}}
  \cup {Field("type", Str("WAIT_TIME")) @@ Field("duration_ms", Num(n)) @@ t :
          n \in {0, 2}, t \in {<<>>, Field("timeout_action", Str("reset-reaction")), Field("timeout_action", Str("x"))}}
  \cup {Field("type", Str("SET_FLAG")) @@ Field(f, Str("g")) @@ Field("value", Bool(TRUE)) : f \in {"flag", "flag_name"}}
  \cup {Field("type", Str("SHOW_OPERATOR_MESSAGE")) @@ Field("message", Str("m")) @@ Field("id", Str("a")) @@ Field("label", Str("l")),
        Field("type", Str("FAIL_REACTION")), Field("type", Str("WAIT_FLAGS")) @@ List("flags", <<Flag("g")>>)}

Triggers ==
  {Field("kind", Str("device_event")) @@ Ev("d1", "opened"), Field("kind", Str("device_event")),
   Field("kind", Str("any_device_events")) @@ List("events", <<Ev("d1", "opened"), Ev("d9", "x")>>),
   Field("kind", Str("all_device_events")) @@ List("events", <<>>),
   Field("kind", Str("flag_changed")) @@ Field("flag_name", Str("g")),
   Field("kind", Str("operator_event")) @@ Field("event_id", Str("x")),
   Field("kind", Str("runtime_event")) @@ Field("event_id", Str("x")),
   Field("kind", Str("none"))}

Variant(id, q) == Field("id", Str(id)) @@ List("actions", q)
V2(t, q, rest) == Branch("b", "reactive") @@ rest @@ Field("trigger", Obj(t)) @@ List("variants", q)
T1 == Field("kind", Str("flag_changed")) @@ Field("flag_name", Str("g"))
A1 == Field("type", Str("SHOW_OPERATOR_MESSAGE")) @@ Field("message", Str("m"))

Reactive ==
  {V2(t, <<Variant("v", <<A1>>)>>, <<>>) : t \in Triggers}
  \cup {V2(T1, <<Variant("v", <<a, A1>>), Variant("w", <<a>>)>>, <<>>) : a \in Actions}
  \cup {V2(T1, <<Variant("v", <<A1>>)>>, List("on_complete", <<a>>)) : a \in Actions}
  \cup {V2(T1, <<Variant("v", <<A1>>)>>, p) : p \in Policies}
  \cup {V2(T1, <<Variant("v", <<A1>>)>>, r) :
          r \in {Field("result_policy", Obj(Field("on_done", Str("set_flag")) @@ Field("timeout_flag", Str("f")))),
                 Field("result_policy", Obj(Field("on_fail", Str("continue")) @@ Field("on_timeout", Str("retry")) @@ Field("flag", Str("g")))),
                 Field("result_policy", Obj(Field("on_fail", Str("x")))), Field("priority", Num(7)), Field("priority", Num(UINT16_MAX + 1)),
                 List("guard_flags", <<Field("flag", Str("g")) @@ Field("value", Bool(FALSE))>>),
                 Field("required_for_completion", Bool(TRUE)), List("on_complete", <<>>)}}
  \cup {V2(T1, <<>>, <<>>), V2(T1, <<Variant("v", <<>>)>>, <<>>), V2(T1, <<Variant("", <<A1>>)>>, <<>>)}
  \cup {Branch("b", "reaction") @@ OneStep @@ p : p \in Policies}
  \cup {Branch("b", "reactive") @@ List("steps", <<O("s", "WAIT_DEVICE_EVENT") @@ Ev("d1", "opened"), O("t", "END_GAME")>>),
        Branch("b", "reactive") @@ List("steps", <<O("s", "END_GAME")>>), Branch("b", "reactive") @@ List("steps", <<>>)}

Normal ==
  {Branch("a", "flow") @@ OneStep @@ p : p \in Policies}
  \cup {Branch("a", "normal") @@ List("steps", <<>>), Branch("a", "odd") @@ OneStep, Branch("", "normal") @@ OneStep,
        Branch("a", "normal") @@ OneStep @@ Field("required_for_completion", Bool(FALSE)) @@ Field("enabled", Bool(FALSE)),
        Branch("b", "normal") @@ OneStep}

Branched ==
  {Top(List("branches", <<b>>)) : b \in Normal \cup Reactive}
  \cup {Top(List("branches", <<Branch("a", "normal") @@ OneStep, b>>)) : b \in Reactive}
  \cup {Top(List("branches", <<b, V2(T1, <<Variant("v", <<A1>>)>>, List("on_complete", <<A1>>))>>)) : b \in Normal}
  \cup {Top(List("branches", <<>>)), Top(<<>>), Null, Obj(List("steps", <<>>)), Top(List("steps", <<>>))}

MCDocuments == Flat \cup Pairs \cup Branched

MCDecimal == <<"1", "2", "3", "4">>
MCEventParts == [e \in {"card@1", "card@2", "key@1"} |->
                   CASE e = "card@1" -> <<"card", "1">> [] e = "card@2" -> <<"card", "2">> [] OTHER -> <<"key", "1">>]

Open == command_set_policy(<<Param("ms", "number", FALSE)>>, <<>>, TRUE, TRUE)
Flat1(enabled) == [enabled |-> enabled, commands |-> [open |-> Open], events |-> {"opened"}, manifest |-> Null]
Manifest ==
  Obj(Field("manifest_version", Num(2)) @@ Field("format", Str("compact_resources")) @@ Field("node_kind", Str("k"))
      @@ Field("capability_contract", Str("scenehub.node.compact.v1"))
      @@ List("command_templates", <<Field("id", Str("led")) @@ Field("target", Str("led_strips")) @@ Field("args_schema_ref", Str("led"))
                                       @@ Field("default_args", Obj(Field("strip", Num(1)) @@ Field("effect", Str("fire"))))
                                       @@ Field("policy", Obj(Field("scenario_allowed", Bool(TRUE))))>>)
      @@ Field("schemas", Obj(List("led", <<Field("key", Str("strip")) @@ Field("type", Str("resource_channel")),
                                            Field("key", Str("effect")) @@ Field("type", Str("select"))
                                              @@ Field("options", Arr(<<Str("fire"), Str("snow")>>))>>)))
      @@ Field("resources", Obj(List("led_strips", <<Field("strip", Num(1))>>)
                                @@ List("readers", <<Field("reader", Str("1")) @@ Field("event", Str("card_read"))>>)))
      @@ List("event_templates", <<Field("id", Str("card")) @@ Field("event", Str("card_read")) @@ Field("source", Str("readers"))
                                     @@ Field("args_schema_ref", Str("card")),
                                   Field("id", Str("key")) @@ Field("event", Str("card_read")) @@ Field("source", Str("readers"))
                                     @@ Field("args_schema_ref", Str("empty"))>>))
Compact == [enabled |-> TRUE, commands |-> <<>>, events |-> {}, manifest |-> Manifest]

MCDeviceSets == {<<>>, "d1" :> Flat1(TRUE), "d1" :> Flat1(FALSE) @@ "d2" :> Compact, "d1" :> Flat1(TRUE) @@ "d2" :> Compact}
MCIoModes == {<<"output", "input", "off", "off">>, <<"off", "output", "input", "input">>}
=============================================================================
