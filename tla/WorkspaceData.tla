--------------------------- MODULE WorkspaceData ---------------------------
(***************************************************************************)
(* The Workspace record (workspace.h) and its JSON form (workspace.cc): a  *)
(* function from fields to values and a function from keys to values.      *)
(*                                                                         *)
(* Text is a string told apart from the empty one, a list is a sequence, a *)
(* time counts ticks of which TicksPerMilli make the milliseconds that the *)
(* ISO form keeps, and a colour has ColorBits bits instead of 32.          *)
(***************************************************************************)
EXTENDS Integers, Sequences

CONSTANT Bad   \* a JSON value that has not the type its key calls for

\* Bad is none of the values the code puts into a workspace or its file itself.
ASSUME BadAssumption ==
  /\ Bad \notin {"", "id", "w", "windows", "default", "normal", "fingerprint"}
  /\ Bad \notin Int
  /\ Bad \notin BOOLEAN
  /\ Bad \notin Seq(Int)

ColorBits == 8
TicksPerMilli == 4

-----------------------------------------------------------------------------
(***************************************************************************)
(* Fields.                                                                 *)
(***************************************************************************)

Text == {"id", "name", "default_tab_title", "notes", "user_agent", "gpu_vendor",
         "gpu_renderer", "platform", "color_scheme", "proxy", "timezone", "locale",
         "human_preset"}
Numbers == {"fingerprint_seed", "screen_width", "screen_height", "hardware_concurrency"}
Flags == {"geoip", "humanize", "headless", "clipboard_sync", "auto_launch"}
Lists == {"launch_args", "tags"}
Times == {"created_at", "updated_at"}

Persisted == Text \cup Numbers \cup Flags \cup Lists \cup Times \cup {"type", "color"}

\* Populated at launch time.
Runtime == {"user_data_dir", "status", "cdp_url"}

Fields == Persisted \cup Runtime

kIndigo == 241   \* 0xFF6366F1, a colour with the sign bit of an int set

\* The member initialisers of Workspace.
DefaultOf(k) ==
  CASE k \in Text \cup Runtime -> ""
    [] k = "screen_width"      -> 1920
    [] k = "screen_height"     -> 1080
    [] k \in {"fingerprint_seed", "hardware_concurrency"} -> 0
    [] k \in Flags             -> k = "clipboard_sync"
    [] k \in Lists             -> <<>>
    [] k \in Times             -> 0
    [] k = "type"              -> "kNormal"
    [] k = "color"             -> kIndigo

Default == [k \in Fields |-> DefaultOf(k)]

-----------------------------------------------------------------------------
(***************************************************************************)
(* Values and their JSON form.                                             *)
(***************************************************************************)

TypeToString(t) == IF t = "kFingerprint" THEN "fingerprint" ELSE "normal"

StringToType(s) == IF s = "fingerprint" THEN "kFingerprint" ELSE "kNormal"

\* The ISO string of a time, empty for the null time; it ends at milliseconds.
TimeToString(t) == IF t = 0 THEN <<>> ELSE <<t \div TicksPerMilli>>

TimeFromString(s) == IF s = <<>> THEN 0 ELSE s[1] * TicksPerMilli

\* static_cast<int> of a colour, and back.
ColorToInt(c) == IF c >= 2^(ColorBits - 1) THEN c - 2^ColorBits ELSE c

IntToColor(n) == n % 2^ColorBits

\* A tag is a pair of a text and a colour.
TagToDict(t) == [tag |-> t[1], color |-> t[2]]

TagFromDict(d) == <<IF d.tag = Bad THEN "" ELSE d.tag, IF d.color = Bad THEN "" ELSE d.color>>

-----------------------------------------------------------------------------
(***************************************************************************)
(* The record and its dictionary.                                          *)
(***************************************************************************)

\* Every flag that is off is left out of the file.
WrittenTruthy(k, v) ==
  CASE k \in Text \ {"id", "name"}  -> v # ""
    [] k = "hardware_concurrency"   -> v # 0
    [] k \in Flags                  -> v
    [] OTHER                        -> TRUE

\* What ToDict leaves out: optional text that is empty, a concurrency of 0.
Written(k, v) ==
  CASE k \in Text \ {"id", "name"}  -> v # ""
    [] k = "hardware_concurrency"   -> v # 0
    [] OTHER                        -> TRUE

ToDict(w) ==
  [k \in {k \in Persisted : Written(k, w[k])} |->
     CASE k = "type"  -> TypeToString(w[k])
       [] k = "color" -> ColorToInt(w[k])
       [] k = "tags"  -> [n \in 1 .. Len(w[k]) |-> TagToDict(w[k][n])]
       [] k \in Times -> TimeToString(w[k])
       [] OTHER       -> w[k]]

\* The items of a list that have the right type; the others are skipped.
GoodItems(s) == SelectSeq(s, LAMBDA x : x # Bad)

ReadItems(s) == IF \E n \in 1 .. Len(s) : s[n] = Bad THEN GoodItems(s) ELSE s

Decode(k, v) ==
  CASE k = "type"        -> StringToType(v)
    [] k = "color"       -> IntToColor(v)
    [] k = "launch_args" -> ReadItems(v)
    [] k = "tags"        -> LET good == ReadItems(v)
                            IN [n \in 1 .. Len(good) |-> TagFromDict(good[n])]
    [] k \in Times       -> TimeFromString(v)
    [] OTHER             -> v

\* FindString, FindInt and the like: nothing for a value of another type.
Finds(d, k) == k \in DOMAIN d /\ d[k] # Bad

FromDict(d) ==
  [k \in Fields |-> IF k \in Persisted /\ Finds(d, k) THEN Decode(k, d[k]) ELSE Default[k]]

\* GenerateSeed draws from 10000 .. 99999; the model tells 0 from the others.
Seeds == {10000}

\* CreateBasic, with the id and the seed it generates.
CreateBasic(id, name, type, seed, now) ==
  [Default EXCEPT !["id"] = id, !["name"] = name, !["type"] = type,
                  !["fingerprint_seed"] = seed, !["platform"] = "windows",
                  !["human_preset"] = "default", !["created_at"] = now,
                  !["updated_at"] = now]

\* The fields an API client may set.
Settable ==
  (Text \ {"id"}) \cup Flags \cup (Numbers \ {"fingerprint_seed"}) \cup {"color"}

ApplyBodyToWorkspace(w, body) ==
  [k \in Fields |-> IF k \in Settable /\ Finds(body, k) THEN Decode(k, body[k]) ELSE w[k]]
=============================================================================
