-------------------------------- MODULE Load --------------------------------
(***************************************************************************)
(* From a text to a voice: load() (lang/compile.hpp) parses a text         *)
(* (Parser), lowers the runes of the program (Lower) and registers each    *)
(* blueprint that comes out with the runtime, which compiles it            *)
(* (runtime::register_blueprint, Compile); a voice of it is built and run  *)
(* (Instance).  A blueprint may also be built by hand and registered       *)
(* without a program.  xrune -j saves a rune's blueprint as a JSON         *)
(* document instead of playing it, and from_json reads one (Serialize).    *)
(***************************************************************************)
EXTENDS Instance

CONSTANTS
  Texts,      \* sequences of tokens
  Documents   \* sequences of JSON tokens

VARIABLES
  text, parser, \* the text, and how far it is read
  parsed,       \* "no", or how it went: "ok" or "bad"
  prog, rune, stmt, low, blueprints, diags,   \* Lower's
  begun,        \* how many lowered blueprints compile() was called for
  registered,   \* the runes whose blueprints the runtime has
  refused,      \* the runes whose blueprints it refused
  doc, saved,   \* a document, and the blueprint it was written from or 0
  restored      \* what from_json came to, if it was called

textVars == <<text, parser, parsed>>
lowerVars == <<prog, rune, stmt, low, blueprints, diags>>
registerVars == <<begun, registered, refused>>
docVars == <<doc, saved, restored>>
T == INSTANCE ParserProperties
L == INSTANCE LowerProperties
S == INSTANCE SerializeProperties

loadVars == <<instanceVars, textVars, lowerVars, registerVars, docVars>>

\* What compile() reads of a node: the ports it has, its ratios and its state.
Ratio(type) == CASE type = "up2" -> <<2, 1>> [] type = "down2" -> <<1, 2>> [] OTHER -> <<1, 1>>
StateBytes(type) == CASE type \in {"sine", "noise"} -> 8 [] type \in {"up2", "down2"} -> 256 [] OTHER -> 0
Described(v) ==
  [ins |-> v.ins, outs |-> v.outs, params |-> Len(v.values),
   rnum |-> Ratio(v.type)[1], rden |-> Ratio(v.type)[2], bnum |-> 1, bden |-> 1,
   bytes |-> StateBytes(v.type), align |-> 8, hosted |-> FALSE,
   dsp |-> IF v.type \in N!Stateless /\ v.values = << >> /\ v.type # "div" THEN v.type ELSE "any",
   size |-> 0, preset |-> 0]

\* A lowered blueprint as compile() lists it: audio connections, then modulations.
Lowered(b) ==
  [nodes |-> [v \in DOMAIN b.nodes |-> Described(b.nodes[v])],
   conns |->
     [i \in DOMAIN b.conns |-> LET c == b.conns[i] IN
        [src |-> c.src.node, out |-> c.src.ch, dst |-> c.dst.node, param |-> FALSE,
         port |-> c.dst.ch]]
     \o [i \in DOMAIN b.pconns |-> LET c == b.pconns[i] IN
        [src |-> c.src.node, out |-> c.src.ch, dst |-> c.dst, param |-> TRUE,
         port |-> c.port - 1]]]

\* A program, or no program and a document from elsewhere.
LoadInit ==
  /\ \/ text \in Texts /\ doc = << >>
     \/ text = << >> /\ doc \in Documents
  /\ saved = 0 /\ restored = << >> /\ parser = T!Start(text) /\ parsed = "no"
  /\ InstanceInit /\ L!LowerInit /\ begun = 0 /\ registered = << >> /\ refused = {}

\* Of sigils with one name, the last.
Linked(p) ==
  LET Called(x) == CHOOSE i \in DOMAIN p.sigils :
                     /\ p.sigils[i].name = x
                     /\ \A j \in DOMAIN p.sigils : p.sigils[j].name = x => j <= i
  IN [runes |-> p.runes,
      sigils |-> [x \in {p.sigils[i].name : i \in DOMAIN p.sigils} |-> p.sigils[Called(x)]]]

ParseDefinition ==
  /\ ~T!AtEnd(parser) /\ parser' = T!ParseNext(parser)
  /\ UNCHANGED <<instanceVars, registerVars, docVars, lowerVars, text, parsed>>

\* A program is lowered only if nothing was wrong with its text.
Parsed ==
  /\ parsed = "no" /\ T!AtEnd(parser)
  /\ parsed' = IF parser.s.ok THEN "ok" ELSE "bad"
  /\ prog' = IF parser.s.ok THEN Linked(parser.v) ELSE prog
  /\ low' = L!Fresh(prog'.sigils)
  /\ UNCHANGED <<instanceVars, registerVars, docVars, text, parser, rune, stmt, blueprints, diags>>

Lower == L!LowerNext /\ UNCHANGED <<instanceVars, textVars, registerVars, docVars>>

\* Blueprints compiled, and kept or refused, are the first so many.
Ended == begun = Len(registered) + Cardinality(refused)
Loaded == parsed # "no" /\ ~L!Lowering /\ Ended /\ begun = Len(blueprints)

\* register_blueprint compiles the next blueprint...
Register ==
  /\ ~L!Lowering /\ Ended /\ begun < Len(blueprints)
  /\ Begin(Lowered(blueprints[begun + 1].bp))
  /\ begun' = begun + 1
  /\ UNCHANGED <<built, runVars, textVars, docVars, lowerVars, registered, refused>>

\* ...and keeps it if that went well; if not, load() has a diagnostic for its rune.
Registered ==
  /\ ~Ended /\ pass \in {"ok", "failed"}
  /\ IF pass = "ok"
       THEN registered' = Append(registered, blueprints[begun].rune) /\ UNCHANGED refused
       ELSE refused' = refused \cup {blueprints[begun].rune} /\ UNCHANGED registered
  /\ UNCHANGED <<instanceVars, textVars, docVars, lowerVars, begun>>

\* A blueprint_builder's graph is registered.
RegisterBuilt ==
  /\ text = << >> /\ doc = << >> /\ Loaded /\ pass = "idle"
  /\ \E b \in Blueprints : Begin(b)
  /\ UNCHANGED <<built, runVars, textVars, docVars, lowerVars, registerVars>>

CompileStep == Compiling /\ UNCHANGED <<textVars, docVars, lowerVars, registerVars>>

\* A voice of the blueprint compiled last, once load() has returned.
Voice == Loaded /\ doc = << >> /\ VoiceNext /\ UNCHANGED <<textVars, docVars, lowerVars, registerVars>>

\* to_json of any rune of a program without errors (xrune -j, or a host)...
Export ==
  /\ Loaded /\ parsed = "ok" /\ diags = {} /\ refused = {} /\ ~built /\ doc = << >>
  /\ \E b \in DOMAIN blueprints :
       /\ saved' = b
       /\ doc' = S!ToText(blueprints[b].bp, prog.runes[blueprints[b].rune].name)
  /\ UNCHANGED <<instanceVars, textVars, lowerVars, registerVars, restored>>

\* ...and what it wrote, or what another has written, is read.
Import ==
  /\ Loaded /\ doc # << >> /\ restored = << >>
  /\ restored' = <<S!FromJson(doc)>>
  /\ UNCHANGED <<instanceVars, textVars, lowerVars, registerVars, doc, saved>>

LoadNext ==
  \/ ParseDefinition \/ Parsed \/ Lower
  \/ Register \/ Registered \/ RegisterBuilt \/ CompileStep \/ Voice
  \/ Export \/ Import

LoadSpec == LoadInit /\ [][LoadNext]_loadVars

----------------------------------------------------------------------------
\* The language's promises (ParserProperties, LowerProperties), in the whole of load().
JustParsed == parsed # "no" /\ rune = 1 /\ stmt = 0
NothingIsMisread == JustParsed => T!NothingIsMisread(text, parser)
DamageIsContained == JustParsed => T!DamageIsContained(text, parser)
LoweringIsFaithful == L!LoweringIsFaithful
RefusesTheIllFormed == L!RefusesTheIllFormed
ParametersFollow == L!ParametersFollow
\* Those of a document (SerializeProperties): what is saved can be read back, and
\* what is read is what the document says.
ReloadIsExact == saved > 0 /\ restored # << >> => S!ReloadIsExact(blueprints[saved].bp, restored[1])
AcceptedIsDescribed == restored # << >> => S!AcceptedIsDescribed(doc, restored[1])
=============================================================================
