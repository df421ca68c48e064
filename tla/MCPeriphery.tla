----------------------------- MODULE MCPeriphery -----------------------------
(***************************************************************************)
(* The outputs and strips of a node, the outputs and input of the hub, its  *)
(* audio player, the cache of audio files, and the five stores on its card. *)
(* They share no state.  One run checks them all: part, fixed at the start, *)
(* says which of them moves.                                                *)
(***************************************************************************)
EXTENDS NodeOutputs, HardwareIo, HubStores, AudioPlayer, AudioAssets

VARIABLE part

\* files of no, one or two chunks, some of them not what a player accepts
Chunk(id, size, rate, channels) ==
    IF id = "fmt" THEN [id |-> id, size |-> size, pcm |-> 1, rate |-> rate,
                        channels |-> channels, bits |-> 16, align |-> 4]
    ELSE [id |-> id, size |-> size, pcm |-> 0, rate |-> 0, channels |-> 0,
          bits |-> 0, align |-> 0]
Chunks == {Chunk("fmt", 16, 44100, 2), Chunk("fmt", 14, 44100, 2), Chunk("fmt", 16, 8000, 3),
           Chunk("data", 0, 0, 0), Chunk("data", 8, 0, 0), Chunk("LIST", 3, 0, 0)}
MCContents ==
    {[magic |-> g, chunks |-> <<>>] : g \in {"ID3", "OggS", "none"}} \cup
    {[magic |-> "RIFF", chunks |-> c] : c \in UNION {[1 .. n -> Chunks] : n \in 0 .. 2}}

\* one entry in each store, two devices
MCMax == [rooms |-> 1, devices |-> 2, scenarios |-> 1, profiles |-> 1, presets |-> 1]

\* a new card, or one that holds every room with a scenario of its own
MCCards ==
    {[k \in Stores |-> Nothing],
     [k \in Stores |->
        CASE k = "rooms" -> [id \in RoomIds |-> [whole |-> TRUE]]
          [] k = "scenarios" -> [id \in ScenarioIds |-> [room |-> CHOOSE r \in RoomIds : TRUE,
                                                        whole |-> TRUE]]
          [] OTHER -> Nothing]}

-----------------------------------------------------------------------------
AllInit == /\ part \in {"node", "hub", "player", "assets", "stores"}
           /\ Init /\ HardwareInit /\ PlayerInit /\ AssetsInit /\ StoresInit
           /\ part # "stores" => file["rooms"].main = Nothing

AllNext ==
    \/ part = "node" /\ Next
       /\ UNCHANGED <<part, hardware_vars, player_vars, asset_vars, store_vars>>
    \/ part = "hub" /\ HardwareNext
       /\ UNCHANGED <<part, vars, player_vars, asset_vars, store_vars>>
    \/ part = "player" /\ PlayerNext
       /\ UNCHANGED <<part, vars, hardware_vars, asset_vars, store_vars>>
    \/ part = "assets" /\ AssetsNext
       /\ UNCHANGED <<part, vars, hardware_vars, player_vars, store_vars>>
    \/ part = "stores" /\ StoresNext
       /\ UNCHANGED <<part, vars, hardware_vars, player_vars, asset_vars>>

AllSpec == AllInit
           /\ [][AllNext]_<<part, vars, hardware_vars, player_vars, asset_vars, store_vars>>
=============================================================================
