----------------------------- MODULE MCAggregate -----------------------------
(* Two devices of one coarse class and one of another, two crashes that share *)
(* their second frame, and the ways a device may print them.                  *)
EXTENDS Aggregate

MCFold(x) ==
    CASE x = "App_Version" -> "app_version" [] x = "OS" -> "os" [] x = "EN" -> "en" [] OTHER -> x

Sep == <<":", ":">>
Ordinals == {<<>>, <<"12", ":", " ">>, <<"#", "3", " ", " ">>, <<" ", "12", ":">>}
Fronts == {<<>>, <<"0x1f", " ">>, <<"/", "home", "/", "ann", " ">>}
Marks == {<<>>, Sep \o <<"h9f">>, Sep \o <<Closure>>, Sep \o <<Closure, "#", "3">> \o Sep \o <<"h9f">>}
Sites == {<<>>, <<" ", "at", " ", "/", "ann", "/", "x.rs", ":", "12", ":", "3">>,
          <<" ", "@", " ", "0x1f">>, <<" ", "+", "0x1f">>, <<"+", "0x1f">>, <<":", "12", ":", "3">>}

Names(crash) ==
    IF crash = "save" THEN {<<"app">> \o Sep \o <<"save">>,
                            <<"app">> \o Sep \o <<"<", "ann", "<", "3", ">", " ", ">">> \o <<"save">>}
    ELSE {<<"app">> \o Sep \o <<"load">>}

Lines(crash) ==
    {ordinal \o front \o symbol \o end[1] \o end[2] :
        ordinal \in Ordinals, front \in Fronts, symbol \in Names(crash), end \in Marks \X Sites}

Common == <<"core">> \o Sep \o <<"run">>
Blank == <<"3", ":", " ", "0x1f">>
Frames(top) == {<<top, Common>>, <<Blank, top, Common>>, <<top, Blank, Common, <<"ann">>>>}

MCRenderings(crash) == UNION {Frames(top) : top \in Lines(crash)} \cup {<<Blank>>, <<>>}

MCMetadata(c) ==
    CASE c = "c1" -> <<<<"os", <<"Windows", " ", "11", " ", "26100">>>>,
                       <<"App_Version", <<"1", ".", "4", ".", "37">>>>,
                       <<"hostname", <<"ann">>>>, <<"locale", <<"EN", "-", "US">>>>>>
      [] c = "c2" -> <<<<"locale", <<"en", "_", "GB">>>>, <<"hostname", <<"ann">>>>,
                       <<"app_version", <<"v", "1", ".", "4", "+", "h9f">>>>,
                       <<"OS", <<"Windows", " ", "11">>>>>>
      [] c = "c3" -> <<<<"os", <<"Linux", "-", "6", ".", "8", "-", "37">>>>>>
MCClass(c) == IF c = "c3" THEN "linux" ELSE "windows"

=============================================================================
