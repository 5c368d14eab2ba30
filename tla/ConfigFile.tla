----------------------------- MODULE ConfigFile -----------------------------
(***************************************************************************)
(* The configuration file: what loading it yields (daemon/src/config.rs)   *)
(* and what a save from the tray makes of it (daemon/src/tray.rs).         *)
(*                                                                         *)
(* The tray manages four settings; all the others of the file are one      *)
(* value here, which says whose they are.  A line `key=value' without a    *)
(* space before the equals sign is `tight': TOML accepts it, and           *)
(* replace_toml_value does not find it.  An entry with a value of another  *)
(* type, or a variant that there is not, is `wrong': it is TOML, but not   *)
(* a Config.                                                               *)
(***************************************************************************)
EXTENDS Functions, FiniteSets, TLC

CONSTANTS
  Methods,    \* the input methods, Telex among them
  Hooks,      \* the names in the hooks menu
  Example     \* whether config.toml.example is installed

ASSUME ConfigAssumption == "Telex" \in Methods /\ Example \in BOOLEAN

Keys == {"method", "modern_style", "enable_evdev_grab", "evdev_grab_hooks"}

ValuesOf(k) ==
  CASE k = "method" -> Methods
    [] k \in {"modern_style", "enable_evdev_grab"} -> BOOLEAN
    [] k = "evdev_grab_hooks" -> SUBSET Hooks

(* Some of the settings, and all of them: what toml::from_str gives, or    *)
(* the environment, is of the setting's type.                              *)
SomeSettings(s) == DOMAIN s \subseteq Keys /\ \A k \in DOMAIN s : s[k] \in ValuesOf(k)
IsSettings(s) == DOMAIN s = Keys /\ \A k \in Keys : s[k] \in ValuesOf(k)

(* Config::default.                                                        *)
Defaults ==
  [k \in Keys |-> CASE k = "method" -> "Telex"
                    [] k = "modern_style" -> TRUE
                    [] k = "enable_evdev_grab" -> FALSE
                    [] k = "evdev_grab_hooks" -> {}]

Others == {"default", "user", "example"}
Kinds == {"missing", "empty", "broken", "toml"}

(* The keys of a TOML file with their values, the tight ones among them,   *)
(* the other settings, and which entries are wrong: these have no value.   *)
NoToml(kind) ==
  [kind |-> kind, keys |-> <<>>, tight |-> {}, other |-> "default", wrong |-> {}]
Toml(keys, tight, other, wrong) ==
  [kind |-> "toml", keys |-> keys, tight |-> tight, other |-> other, wrong |-> wrong]

IsFile(f) ==
  /\ f.kind \in Kinds /\ f.other \in Others
  /\ f.wrong \subseteq Keys \cup {"other"}
  /\ SomeSettings(f.keys) /\ DOMAIN f.keys \cap f.wrong = {}
  /\ f.tight \subseteq DOMAIN f.keys \cup f.wrong

-----------------------------------------------------------------------------
(* Load: a file that is missing or leaves settings out gives defaults; one *)
(* that does not parse, as TOML and as a Config, gives no configuration;   *)
(* the environment overrides.                                              *)

IsToml(f) == f.kind # "broken"

Loads(f) == IsToml(f) /\ f.wrong = {}

Over(s, base) == [k \in Keys |-> IF k \in DOMAIN s THEN s[k] ELSE base[k]]

load_file(f) == Over(f.keys, Defaults)

load_from(f, env) == Over(env, load_file(f))

-----------------------------------------------------------------------------
(* Save.  Without a file the installed example is copied and edited.       *)

copy_config_example == IF Example THEN Toml(Defaults, {}, "example", {}) ELSE NoToml("empty")

Generated(settings) == Toml(settings, {}, "default", {})

(* A value is replaced in its line, right or wrong, and a key without a    *)
(* line is added: a tight key is then there twice, which is not TOML.      *)
Edited(f, settings) ==
  IF f.tight = {} THEN Toml(settings, {}, f.other, f.wrong \ Keys) ELSE NoToml("broken")

Faulty_save_config(f, settings) ==
  LET text == IF f.kind = "missing" THEN copy_config_example ELSE f
      out == [text EXCEPT !.keys = [k \in DOMAIN text.keys |-> settings[k]]]
  IN  IF text.kind # "toml" \/ text.tight # {} THEN Generated(settings) ELSE out

(* What is to be written is checked to be TOML, not to be a Config.        *)
save_config(f, settings) ==
  LET text == IF f.kind = "missing" THEN copy_config_example ELSE f
      out == IF text.kind = "toml" THEN Edited(text, settings) ELSE Generated(settings)
  IN  IF IsToml(out) THEN out ELSE Generated(settings)

=============================================================================
