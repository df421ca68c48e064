--------------------------- MODULE NodeLedEffects ---------------------------
(***************************************************************************)
(* What the LED effects of a node draw (node_hardware_io/led/): each effect*)
(* is the sequence of frames of one cycle.  A frame gives every pixel one  *)
(* of the colours of the configuration; mixes and dimmed colours are not   *)
(* told apart further, and where a hash or a random number decides, an     *)
(* element stands for every frame it may give.  A frame is drawn whole,    *)
(* under the strip's lock.                                                 *)
(***************************************************************************)
EXTENDS Naturals, Sequences

CONSTANTS PIXELS, \* pixel_count of the strip
          SIZE    \* config->size of the effect, the tail of a comet

Pixel == 0 .. PIXELS - 1
Fill(colour) == [p \in Pixel |-> colour]
\* n frames, frame(i) the i-th, counted from 0
Only(lit, frame) == [p \in Pixel |-> IF p \in lit THEN frame ELSE "background"]
One(frames) == [i \in DOMAIN frames |-> {frames[i]}]

\* brightness of a triangle wave: from 0 up and down again, but not back to 0
triangle_wave_u8 == <<"dark", "color", "dim">>

run_blink == One(<<Fill("color"), Fill("dark")>>)
run_breathe == One(<<Fill("dark"), Fill("color"), Fill("dark")>>)
run_strobe == One(<<Fill("color"), Fill("background")>>)
run_pulse == One([i \in 1..3 |-> Fill(triangle_wave_u8[i])])
\* never darker than the floor
run_fade_in_out ==
    One([i \in 1..3 |-> Fill(IF triangle_wave_u8[i] = "dark" THEN "dim"
                             ELSE triangle_wave_u8[i])])
run_rainbow == One(<<Fill("palette")>>)
run_rainbow_cycle == One(<<Fill("palette"), Fill("palette")>>)
run_color_wipe ==
    One(<<Fill("dark")>> \o [k \in 1..PIXELS |-> [p \in Pixel |-> IF p < k THEN "color"
                                                                  ELSE "dark"]])
\* there and back, the turning point once
run_scanner ==
    One([k \in 1..PIXELS |-> Only({k - 1}, "color")]
        \o [k \in 1..(PIXELS - 1) |-> Only({PIXELS - 1 - k}, "color")])
run_theater == One([k \in 1..3 |-> Only({p \in Pixel : p % 3 = k - 1}, "color")])

\* the path is one tail longer than the strip; the way back is the same path
\* from the other end
TAIL == IF SIZE > PIXELS THEN PIXELS ELSE SIZE
run_comet(bounce) ==
    LET path == PIXELS + SIZE
        there == [h \in 1..path |-> Only({p \in Pixel : \E t \in 0..(TAIL - 1) : p + t = h - 1},
                                         "mix")]
        back == [h \in 1..path |-> Only({p \in Pixel : \E t \in 0..(TAIL - 1) :
                                           p + (TAIL - 1) = path - h + t}, "mix")]
    IN  One(IF bounce THEN there \o back ELSE there)

run_chase_common(dual) ==
    LET bands == IF dual THEN 3 ELSE 2
        colour(band) == IF band = 0 THEN "color"
                        ELSE IF dual /\ band = 1 THEN "second" ELSE "background"
    IN  One([o \in 1..(SIZE * bands) |->
               [p \in Pixel |-> colour(((p + o - 1) \div SIZE) % bands)]])
run_running_lights == One(<<Fill("mix"), Fill("mix")>>)
run_breath_wave == One(<<Fill("mix")>>)
run_twinkle_common == <<[Pixel -> {"background", "mix"}]>>
run_fire_flicker == One(<<Fill("palette")>>)

\* the switch of led_effect_task
EffectFrames ==
    [blink |-> run_blink, breathe |-> run_breathe, rainbow |-> run_rainbow,
     rainbow_cycle |-> run_rainbow_cycle, color_wipe |-> run_color_wipe,
     scanner |-> run_scanner, theater_chase |-> run_theater, strobe |-> run_strobe,
     pulse |-> run_pulse, fade_in_out |-> run_fade_in_out,
     twinkle |-> run_twinkle_common, twinkle_random |-> run_twinkle_common,
     sparkle |-> run_twinkle_common, glitter |-> run_twinkle_common,
     comet |-> run_comet(FALSE), larson |-> run_comet(TRUE), bounce |-> run_comet(TRUE),
     running_lights |-> run_running_lights, fire_flicker |-> run_fire_flicker,
     chase_dual |-> run_chase_common(TRUE), chase_single |-> run_chase_common(FALSE),
     breath_wave |-> run_breath_wave]

\* what is drawn after the last cycle: the scanner goes back to the background
Final(effect) == IF effect = "scanner" THEN One(<<Fill("background")>>) ELSE <<>>

\* the k-th frame of count cycles (0: without end), counted from 0
Draws(effect, count) == Len(EffectFrames[effect]) * count + Len(Final(effect))
Frame(effect, count, k) ==
    LET cycle == EffectFrames[effect]
    IN  IF count > 0 /\ k >= Len(cycle) * count THEN Final(effect)[k - Len(cycle) * count + 1]
        ELSE cycle[(k % Len(cycle)) + 1]
=============================================================================
