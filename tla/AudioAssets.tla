---------------------------- MODULE AudioAssets ----------------------------
(***************************************************************************)
(* What the controller believes about its audio files.  Two parsers read   *)
(* the same file: the one that prepares an asset for the cache, and the    *)
(* one the reader task runs when the file is played.  A file is its magic  *)
(* and a sequence of RIFF chunks, of which it has the fields the parsers   *)
(* test.  The cache holds CACHE_MAX entries and then replaces them round   *)
(* robin; files may be replaced behind it.                                 *)
(***************************************************************************)
EXTENDS Naturals, Sequences, FiniteSets

CONSTANTS Paths,      \* paths on the SD card
          Contents,   \* the contents a file may have
          CACHE_MAX,  \* AUDIO_ASSET_CACHE_MAX
          MAX_STEPS   \* bound: files written and assets prepared

\* A chunk's fields are unsigned numbers as they stand in the file.
ASSUME AssetsAssumption ==
  /\ CACHE_MAX \in Nat \ {0}
  /\ \A f \in Contents :
       f.chunks \in Seq([id : STRING, size : Nat, pcm : Nat, rate : Nat, channels : Nat,
                         bits : Nat, align : Nat])

VARIABLES disk,       \* contents of a path, or Missing
          cache,      \* s_audio_asset_cache, a sequence of records
          next,       \* s_audio_asset_cache_next
          steps

asset_vars == <<disk, cache, next, steps>>

Missing == [magic |-> "missing", chunks |-> <<>>]

detect_format(f) ==
  CASE f.magic = "RIFF" -> "WAV" [] f.magic \in {"ID3", "sync"} -> "MP3" [] f.magic = "OggS" -> "OGG" [] OTHER -> "UNKNOWN"

(* The reader's parser: the first data chunk after an accepted format      *)
(* chunk; a format chunk that is not accepted ends the search.             *)
AcceptedFormat(c) == c.pcm = 1 /\ c.bits = 16 /\ c.channels \in 1..2 /\ c.rate # 0 /\ c.align # 0

parse_wav_header(f) ==
  f.magic = "RIFF" /\ \E i \in DOMAIN f.chunks :
    /\ f.chunks[i].id = "data" /\ f.chunks[i].size # 0
    /\ \A j \in 1..(i - 1) : f.chunks[j].id # "data"
    /\ \E j \in 1..(i - 1) : f.chunks[j].id = "fmt"
    /\ \A j \in 1..(i - 1) : f.chunks[j].id = "fmt" => f.chunks[j].size >= 16 /\ AcceptedFormat(f.chunks[j])

(* Mutant: the chunk size is not compared with the size of the structure.  *)
asset_parse_wav_any_size(f) ==
  f.magic = "RIFF" /\ \E i \in DOMAIN f.chunks :
    /\ f.chunks[i].id = "data" /\ f.chunks[i].size # 0
    /\ \A j \in 1..(i - 1) : f.chunks[j].id # "data"
    /\ \E j \in 1..(i - 1) : f.chunks[j].id = "fmt"
    /\ \A j \in 1..(i - 1) : f.chunks[j].id = "fmt" => AcceptedFormat(f.chunks[j])

(* The asset's parser, chunk by chunk as its loop does: -1 rejects, 1      *)
(* accepts, 0 asks for the next chunk.                                     *)
asset_parse_wav(f) ==
  LET step[i \in 0..Len(f.chunks)] ==
        IF i = 0 THEN [fmt |-> FALSE, verdict |-> 0]
        ELSE LET c == f.chunks[i]
                 p == step[i - 1]
             IN IF p.verdict # 0 THEN p
                ELSE IF c.id = "fmt" THEN [fmt |-> TRUE, verdict |-> IF c.size < 16 \/ ~AcceptedFormat(c) THEN 2 ELSE 0]
                ELSE IF c.id = "data" THEN [fmt |-> p.fmt, verdict |-> IF ~p.fmt \/ c.size = 0 THEN 2 ELSE 1]
                ELSE p
  IN f.magic = "RIFF" /\ step[Len(f.chunks)].verdict = 1

StatusOf(f) ==
  CASE f = Missing -> "MISSING"
    [] detect_format(f) = "WAV" -> IF asset_parse_wav(f) THEN "READY" ELSE "BAD_HEADER"
    [] detect_format(f) = "MP3" -> "READY"
    [] detect_format(f) = "OGG" -> "UNSUPPORTED_FORMAT"
    [] OTHER -> "BAD_HEADER"

asset_find(p) == {i \in DOMAIN cache : cache[i].path = p}

asset_cache_slot(p) ==
  IF asset_find(p) # {} THEN [i |-> CHOOSE i \in asset_find(p) : \A j \in asset_find(p) : i <= j, next |-> next]
  ELSE IF Len(cache) < CACHE_MAX THEN [i |-> Len(cache) + 1, next |-> next]
  ELSE [i |-> (next % CACHE_MAX) + 1, next |-> (next + 1) % (2 * CACHE_MAX)]

AssetsInit == disk \in [Paths -> {Missing}] /\ cache = <<>> /\ next = 0 /\ steps = 0

AssetStep == steps < MAX_STEPS /\ steps' = steps + 1

prepare_path(p) ==
  /\ AssetStep
  /\ LET s == asset_cache_slot(p)
         info == [path |-> p, status |-> StatusOf(disk[p]), file |-> disk[p]]
     IN /\ cache' = IF s.i > Len(cache) THEN Append(cache, info) ELSE [cache EXCEPT ![s.i] = info]
        /\ next' = s.next
  /\ UNCHANGED disk

asset_cache_clear == AssetStep /\ cache' = <<>> /\ next' = 0 /\ UNCHANGED disk

(* Files are written by the web UI or on another machine.                  *)
write_file(p) ==
  /\ AssetStep
  /\ \E c \in Contents \cup {Missing} : disk' = [disk EXCEPT ![p] = c]
  /\ UNCHANGED <<cache, next>>

AssetsNext == asset_cache_clear \/ \E p \in Paths : prepare_path(p) \/ write_file(p)
AssetsSpec == AssetsInit /\ [][AssetsNext]_asset_vars

(* A path has one entry in the cache, so that what asset_get returns is    *)
(* what was prepared last, and an entry for a WAV file says READY exactly  *)
(* when the reader's own parser will accept the file it was made from      *)
(* (audio_player_prepare_path, parse_wav_header).                          *)
AssetsAgree ==
  /\ \A i, j \in DOMAIN cache : cache[i].path = cache[j].path => i = j
  /\ \A i \in DOMAIN cache :
       detect_format(cache[i].file) = "WAV" => (cache[i].status = "READY" <=> parse_wav_header(cache[i].file))

=============================================================================
