----------------------------- MODULE Configuration -----------------------------
(***************************************************************************)
(* The config flow and the options flow of the entry, and what             *)
(* async_setup_entry makes of the stored data and options.                 *)
(*                                                                         *)
(* A step is the submission of a form with the calls to the TV or to the   *)
(* bridge it awaits; a call may fail at any time, which shows the form     *)
(* again.  A bridge is its host, an app key and a client key are the       *)
(* bridge that issued them, an Entertainment Area is its bridge and its    *)
(* number of channels, the TV's user and password are the TV they are for. *)
(* The bind address is treated like the lights.  The multipliers, edges    *)
(* and timeouts of the performance form are one value.                     *)
(***************************************************************************)
EXTENDS Naturals, Sequences, FiniteSets

CONSTANTS
    Hosts, Bridges, NoHost,    \* what may be typed as a host, the hosts that are a bridge
    Areas,                     \* <<bridge, number of channels>>
    Tvs, Ports, DefaultPort,   \* TVs, and the ports they may be looked for at
    TvPort,                    \* the port at which each TV answers
    Positions,                 \* TV_RELATIVE_POSITIONS, with "auto"
    Lights

ASSUME ConfigurationAssumption ==
    /\ Bridges \subseteq Hosts /\ NoHost \notin Hosts
    /\ Areas \subseteq Bridges \X (Nat \ {0})
    /\ DefaultPort \in Ports /\ TvPort \in [Tvs -> Ports]
    /\ "auto" \in Positions

VARIABLES
    form,      \* the form on the screen, or "none"
    self,      \* the attributes of the flow it belongs to
    data,      \* entry.data, empty before there is an entry
    options    \* entry.options

vars == <<form, self, data, options>>

AreasOf(b) == {a \in Areas : a[1] = b}
NoArea == <<NoHost, 0>>

\* Erroneous variant: a channel without a position is stored without one.
ChannelsWithGaps(a, tv) ==
    [of |-> a, tv |-> [i \in 1..a[2] |-> IF i \in DOMAIN tv THEN tv[i] ELSE "none"]]

\* The stored channels of an area: its own, each with the "tv_mapping" it is given.
Channels(a, tv) == [of |-> a, tv |-> [i \in 1..a[2] |-> IF i \in DOMAIN tv THEN tv[i] ELSE "auto"]]
NoChannels == Channels(NoArea, <<>>)

NoTv == [host |-> NoHost, login |-> NoHost, port |-> DefaultPort]
TvSettings == [host : Tvs, login : Tvs, port : Ports]

\* The TV answers at its port to whoever has its login.
Answers(tv) == tv.host \in Tvs /\ tv.login = tv.host /\ tv.port = TvPort[tv.host]

\* __init__ of both flows.
Fresh == [input |-> "legacy", backend |-> "lights", lights |-> {}, host |-> NoHost,
          key |-> NoHost, area |-> NoArea, channels |-> NoChannels, tv |-> NoTv, mappings |-> <<>>]

Init == form = "none" /\ self = Fresh /\ data = <<>> /\ options = <<>>

Entered == data # <<>>

\* dict.update: the entries of g replace and extend those of f.
Update(f, g) ==
    [k \in DOMAIN f \cup DOMAIN g |-> IF k \in DOMAIN g THEN g[k] ELSE f[k]]

\* An option, or else the datum the entry was created with.
Current(key, default) ==
    IF key \in DOMAIN options THEN options[key]
    ELSE IF key \in DOMAIN data THEN data[key] ELSE default

Go(next, s) == form' = next /\ self' = s /\ UNCHANGED <<data, options>>

Save(o) == form' = "none" /\ self' = Fresh /\ options' = o /\ UNCHANGED data

\* The user closes the dialog, or the flow aborts.
Close == form # "none" /\ Go("none", Fresh)

-----------------------------------------------------------------------------
(* What both flows do with a bridge *)

ConfigForms == [bridge |-> "hue_bridge", host |-> "hue_host", pair |-> "hue_pair"]
SetupForms ==
    [bridge |-> "hue_setup_bridge", host |-> "hue_setup_host", pair |-> "hue_setup_pair"]

\* A bridge that Home Assistant alone knows is taken without a question.
SoleBridge(s, forms) == \E b \in Bridges : Go(forms.pair, [s EXCEPT !.host = b])

AskForBridge(s, forms) ==
    \/ SoleBridge(s, forms)
    \/ Go(forms.host, s)                                   \* none is known
    \/ Cardinality(Bridges) > 1 /\ Go(forms.bridge, s)

\* The answer may meet other known bridges than the question.
BridgeStep(forms) ==
    /\ form = forms.bridge
    /\ SoleBridge(self, forms) \/ Go(forms.host, self)

HostStep(forms) ==
    /\ form = forms.host
    /\ \E h \in Hosts : Go(forms.pair, [self EXCEPT !.host = h])

\* async_pair_hue_entertainment: a new key and the areas, of which there must be some.
PairStep(forms, next) ==
    /\ form = forms.pair
    /\ self.host \in Bridges /\ AreasOf(self.host) # {}
    /\ Go(next, [self EXCEPT !.key = self.host])

-----------------------------------------------------------------------------
(* The config flow *)

OpenConfig == form = "none" /\ ~Entered /\ Go("user", Fresh)

CreateEntry(s) ==
    LET base == [input |-> s.input, backend |-> s.backend, lights |-> s.lights,
                 configured |-> s.backend # "hue" \/ s.key # NoHost]
        tv == IF s.input # "jointspace" THEN <<>>
              ELSE [tvHost |-> s.tv.host, tvLogin |-> s.tv.login, tvPort |-> s.tv.port,
                    mappings |-> s.mappings]
        hue == IF s.backend # "hue" \/ s.key = NoHost THEN <<>>
               ELSE [host |-> s.host, key |-> s.key, area |-> s.area,
                     channels |-> Channels(s.area, s.mappings)]
    IN  /\ data' = Update(Update(base, tv), hue)
        /\ form' = "none" /\ self' = Fresh /\ UNCHANGED options

UserStep ==
    /\ form = "user"
    /\ \E input \in {"legacy", "jointspace"}, backend \in {"lights", "hue"}, l \in SUBSET Lights :
         LET s == [self EXCEPT !.input = input, !.backend = backend, !.lights = l]
         IN  \/ input = "jointspace" /\ Go("jointspace", s)
             \/ input = "legacy" /\ backend = "hue" /\ AskForBridge(s, ConfigForms)
             \/ input = "legacy" /\ backend = "lights" /\ Go("pre_pairing", s)

JointspaceStep ==
    /\ form = "jointspace"
    /\ \E tv \in TvSettings :
         LET s == [self EXCEPT !.tv = tv]
         IN  \/ Go("jointspace", s)                        \* the validation failed
             \/ Answers(tv) /\ s.backend = "hue" /\ AskForBridge(s, ConfigForms)
             \/ Answers(tv) /\ s.backend = "lights" /\ CreateEntry(s)

SkipPairing == form = "hue_pair" /\ CreateEntry(self)

AreaStep ==
    /\ form = "hue_area"
    /\ \E a \in AreasOf(self.key) :
         LET s == [self EXCEPT !.area = a]
         IN  \/ s.input = "jointspace" /\ Go("jointspace_mapping", s)
             \/ s.input = "legacy" /\ Go("pre_pairing", s)

\* A position for the next channel; after the last one the flow is done.
AnswerChannel(n, Finish(_)) ==
    /\ \E p \in Positions :
         LET s == [self EXCEPT !.mappings = Append(@, p)]
         IN  IF Len(s.mappings) >= n THEN Finish(s) ELSE Go(form, s)

MappingStep == form = "jointspace_mapping" /\ AnswerChannel(self.area[2], CreateEntry)

\* The temporary server opens, unless its port is in use, and the TV pairs in time or not.
PrePairingStep == form = "pre_pairing" /\ Go("pairing", self)
Paired == form = "pairing" /\ CreateEntry(self)
NotPaired == form = "pairing" /\ Go("not_paired", self)
NotPairedStep == form = "not_paired" /\ CreateEntry(self)

Config ==
    \/ OpenConfig \/ UserStep \/ JointspaceStep \/ BridgeStep(ConfigForms) \/ HostStep(ConfigForms)
    \/ PairStep(ConfigForms, "hue_area") \/ SkipPairing \/ AreaStep \/ MappingStep
    \/ PrePairingStep \/ Paired \/ NotPaired \/ NotPairedStep

-----------------------------------------------------------------------------
(* The options flow *)

OpenOptions ==
    /\ form = "none" /\ Entered
    /\ Go("init", [Fresh EXCEPT !.input = Current("input", "legacy")])

\* _options: what the flow has no value for keeps the one it had.
SavedOptions(s) ==
    LET lights == IF s.lights = {} THEN <<>> ELSE [lights |-> s.lights]
        hue == IF s.host = NoHost THEN <<>>
               ELSE [backend |-> "hue", host |-> s.host, area |-> s.area, channels |-> s.channels]
        map == IF s.mappings = <<>> THEN <<>> ELSE [mappings |-> s.mappings]
    IN  Update(Update(Update(options, lights), hue), map)

SaveSelf(s) == Save(SavedOptions(s))

\* The area form, with the stored host unless one was typed.
ShowAreaForm(s) ==
    Go("hue_options", IF s.host = NoHost THEN [s EXCEPT !.host = Current("host", NoHost)] ELSE s)

Managed == Current("input", "legacy") = "jointspace" /\ Current("backend", "lights") = "hue"

\* The menu of a JointSpace entry with a Hue output.
ManageStep ==
    /\ form = "init" /\ Managed
    /\ \/ Go("jointspace_options", self)
       \/ Go("hue_manage", self)
       \/ ShowAreaForm(self)
       \/ Current("channels", NoChannels).tv = <<>> /\ SaveSelf(self)     \* nothing to map
       \/ Current("channels", NoChannels).tv # <<>> /\ Go("jointspace_mapping_options", self)
       \/ Go("performance", self)
       \/ AskForBridge(self, SetupForms)                  \* reauthorize

\* The form of every other entry.
InitStep ==
    /\ form = "init" /\ ~Managed
    /\ \E l \in SUBSET Lights, backend \in {"lights", "hue"} :
         LET s == [self EXCEPT !.lights = l, !.backend = backend]
         IN  \/ Go("options_pairing", s)
             \/ backend = "hue" /\ ShowAreaForm(s)
             \/ backend = "lights" /\ SaveSelf(s)

\* Erroneous variant: the settings of the TV replace all options.
TvStepOnly ==
    /\ form = "jointspace_options"
    /\ \E typed \in TvSettings : Answers(typed)
         /\ Save([tvHost |-> typed.host, tvLogin |-> typed.login, tvPort |-> typed.port])

\* A password left empty is the stored one.
TvStep ==
    /\ form = "jointspace_options"
    /\ \E typed \in TvSettings, blank \in BOOLEAN :
         LET tv == IF blank THEN [typed EXCEPT !.login = Current("tvLogin", NoHost)] ELSE typed
         IN  /\ Answers(tv)
             /\ Save(Update(options, [tvHost |-> tv.host, tvLogin |-> tv.login,
                                      tvPort |-> tv.port]))

\* Change and reauthorize are the same; the test of the connection changes nothing.
HueManageStep == form = "hue_manage" /\ AskForBridge(self, SetupForms)

PerformanceStep ==
    /\ form = "performance"
    /\ \E p \in {"slow", "fast"} : Save(Update(options, [performance |-> p]))

\* Erroneous variant: the key of the bridge before is kept.
SetupAreaStepKeepingKey ==
    /\ form = "hue_setup_area"
    /\ \E a \in AreasOf(self.key) :
         Save(Update(options, [host |-> self.host, area |-> a,
                               channels |-> Channels(a, <<>>), configured |-> TRUE]))

SetupAreaStep ==
    /\ form = "hue_setup_area"
    /\ \E a \in AreasOf(self.key) :
         Save(Update(options, [host |-> self.host, key |-> self.key, area |-> a,
                               channels |-> Channels(a, <<>>), configured |-> TRUE]))

\* Another area, or another address, checked with the stored key.  The list on the form
\* is that of the host it was shown with, and the channels keep the positions of those
\* with their numbers.
AreaOptionsStep ==
    LET key == Current("key", NoHost)
    IN  /\ form = "hue_options"
        /\ key = self.host
        /\ \E h \in Hosts, a \in AreasOf(self.host) :
             LET s == [self EXCEPT !.host = h, !.area = a]
                 t == [s EXCEPT !.channels = Channels(a, Current("channels", NoChannels).tv)]
             IN  \/ Go("hue_options", s)                   \* the bridge did not answer
                 \/ h = key /\ s.input = "jointspace" /\ Go("jointspace_mapping_options", t)
                 \/ h = key /\ s.input = "legacy" /\ SaveSelf(t)

\* The positions of the channels just loaded, or of the stored ones.
MappingOptionsStep ==
    LET channels == IF self.channels.tv # <<>> THEN self.channels
                    ELSE Current("channels", NoChannels)
    IN  form = "jointspace_mapping_options" /\ AnswerChannel(Len(channels.tv), SaveSelf)

OptionsPaired == form = "options_pairing" /\ SaveSelf(self)
OptionsNotPaired == form = "options_pairing" /\ Go("options_not_paired", self)
OptionsNotPairedStep == form = "options_not_paired" /\ SaveSelf(self)

Options ==
    \/ OpenOptions \/ ManageStep \/ InitStep \/ TvStep \/ HueManageStep \/ PerformanceStep
    \/ BridgeStep(SetupForms) \/ HostStep(SetupForms) \/ PairStep(SetupForms, "hue_setup_area")
    \/ SetupAreaStep \/ AreaOptionsStep \/ MappingOptionsStep
    \/ OptionsPaired \/ OptionsNotPaired \/ OptionsNotPairedStep

Next == Config \/ Options \/ Close

Spec == Init /\ [][Next]_vars

-----------------------------------------------------------------------------
(* What async_setup_entry reads *)

UsesJointSpace == Current("input", "legacy") = "jointspace"
UsesHue == Current("backend", "lights") = "hue" /\ Current("configured", TRUE)

HueOutput == [host |-> Current("host", NoHost), key |-> Current("key", NoHost),
              area |-> Current("area", NoArea), channels |-> Current("channels", NoChannels)]

Mappings == Current("mappings", <<>>)

\* The position each channel of the source is given.
ManualMappings ==
    [i \in DOMAIN HueOutput.channels.tv |->
        IF i \in DOMAIN Mappings THEN Mappings[i] ELSE HueOutput.channels.tv[i]]

\* The port, the API version and the TLS setting are read from the options alone.
SourceTv == [host |-> Current("tvHost", NoHost), login |-> Current("tvLogin", NoHost),
             port |-> IF "tvPort" \in DOMAIN options THEN options.tvPort ELSE DefaultPort]

-----------------------------------------------------------------------------
(* Properties *)

TypeOK ==
    /\ self.host \in Hosts \cup {NoHost} /\ self.key \in Bridges \cup {NoHost}
    /\ self.area \in Areas \cup {NoArea} /\ self.mappings \in Seq(Positions)
    /\ Entered => Current("input", "") \in {"legacy", "jointspace"}
    /\ HueOutput.channels.tv \in Seq(Positions) /\ Mappings \in Seq(Positions)
    /\ SourceTv.host \in Tvs \cup {NoHost} /\ SourceTv.port \in Ports

\* "Setup validates the TV topology and the returned Hue Entertainment credentials before
\* marking the output configured": host, key, area and channels, which four different
\* forms write, belong together whenever a Hue output is made of them.
HueBelongsTogether ==
    UsesHue => /\ HueOutput.host \in Bridges
               /\ HueOutput.key = HueOutput.host
               /\ HueOutput.area \in AreasOf(HueOutput.host)
               /\ HueOutput.channels.of = HueOutput.area
               /\ Len(HueOutput.channels.tv) = HueOutput.area[2]

\* The source is never made with a login that was not accepted by that very TV, also
\* when an empty password stands for the stored one.
LoginFitsTv == Entered /\ UsesJointSpace => SourceTv.login = SourceTv.host

EntryIsConsistent == HueBelongsTogether /\ LoginFitsTv

\* "Changing one section preserves unrelated TV and Hue credentials."
SectionsAreIndependent ==
    [][Entered =>
         /\ SourceTv' # SourceTv => HueOutput' = HueOutput /\ ManualMappings' = ManualMappings
         /\ HueOutput' # HueOutput => SourceTv' = SourceTv
         /\ UsesHue => UsesHue']_vars

\* "Enter the TV address, JointSpace credentials, API version, port, and TLS preference":
\* the source looks for the TV where the form found it.
SourceFindsTv == Entered /\ UsesJointSpace => Answers(SourceTv)
=============================================================================
