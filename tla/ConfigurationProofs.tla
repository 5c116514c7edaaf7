-------------------------- MODULE ConfigurationProofs --------------------------
(***************************************************************************)
(* What TLC checks of Configuration for two bridges and two TVs, proved    *)
(* for any: what set-up reads belongs together, and a section of the       *)
(* options leaves the others alone.                                        *)
(***************************************************************************)
EXTENDS Configuration, TLAPS

\* The forms that ask about a bridge, before its key is known.
BridgeForms == {"hue_bridge", "hue_host", "hue_pair"}
SetupBridgeForms == {"hue_setup_bridge", "hue_setup_host", "hue_setup_pair"}
PairingForms == {"pre_pairing", "pairing", "not_paired"}
TvPairingForms == {"options_pairing", "options_not_paired"}

CreatingForms == {"user", "jointspace", "hue_area", "jointspace_mapping"} \cup BridgeForms \cup PairingForms

ChangingForms ==
    {"init", "jointspace_options", "hue_manage", "hue_options", "performance", "hue_setup_area",
     "jointspace_mapping_options"} \cup SetupBridgeForms \cup TvPairingForms

\* The attributes of a flow.
Flows ==
    [input : {"legacy", "jointspace"}, backend : {"lights", "hue"}, lights : SUBSET Lights,
     host : Hosts \cup {NoHost}, key : Bridges \cup {NoHost}, area : Areas \cup {NoArea},
     channels : [of : Areas \cup {NoArea}, tv : Seq(Positions)],
     tv : [host : Tvs \cup {NoHost}, login : Tvs \cup {NoHost}, port : Ports],
     mappings : Seq(Positions)]

\* A flow that has a key has it from its own bridge, and an area of that bridge.
KeyFits(s) == s.key = s.host /\ s.host \in Bridges
AreaFits(s) == KeyFits(s) /\ s.area \in AreasOf(s.host)

\* A flow that may become an entry: its TV accepted the login, its bridge is known or
\* was left for later.
Creatable(s) ==
    /\ s.input = "jointspace" => Answers(s.tv)
    /\ s.backend = "hue" /\ s.key # NoHost => AreaFits(s)

\* A flow whose attributes may become options: it has a host only with what goes with it.
Savable(s) ==
    s.host # NoHost =>
        /\ s.host \in Bridges /\ s.host = Current("key", NoHost)
        /\ s.area \in AreasOf(s.host)
        /\ s.channels.of = s.area /\ Len(s.channels.tv) = s.area[2]

\* Each form of the config flow knows what the forms before it have checked.
CreatingIsConsistent ==
    /\ form \in {"user", "jointspace"} \cup BridgeForms => self.key = NoHost
    /\ form = "user" => self.input = "legacy"
    /\ form \in BridgeForms \cup {"hue_area"} /\ self.input = "jointspace" => Answers(self.tv)
    /\ form = "hue_area" => KeyFits(self)
    /\ form = "jointspace_mapping" => AreaFits(self) /\ Creatable(self)
    /\ form \in PairingForms => Creatable(self)

\* So does each form of the options flow.
ChangingIsConsistent ==
    /\ form \in {"init", "performance", "jointspace_options", "hue_manage"} \cup TvPairingForms
        => self.host = NoHost
    /\ form = "hue_setup_area" => KeyFits(self)
    /\ form = "jointspace_mapping_options" => Savable(self)

FlowIsConsistent ==
    /\ self \in Flows
    /\ form \in {"none"} \cup CreatingForms \cup ChangingForms
    /\ CreatingIsConsistent
    /\ ChangingIsConsistent

\* A config flow is for an entry that is not there yet, an options flow for one that is.
EntryComesFirst ==
    /\ form \in CreatingForms => ~Entered
    /\ form \in ChangingForms => Entered
    /\ ~Entered => options = <<>>
    /\ "input" \notin DOMAIN options
    /\ Entered => "input" \in DOMAIN data

\* What is stored has its type.
StoredOK ==
    /\ Entered => Current("input", "") \in {"legacy", "jointspace"}
    /\ Current("channels", NoChannels).tv \in Seq(Positions)
    /\ Current("mappings", <<>>) \in Seq(Positions)
    /\ Current("host", NoHost) \in Hosts \cup {NoHost}
    /\ Current("tvHost", NoHost) \in Tvs \cup {NoHost}
    /\ Current("tvLogin", NoHost) \in Tvs \cup {NoHost}
    /\ Current("area", NoArea) \in Areas \cup {NoArea}
    /\ "tvPort" \in DOMAIN options => options.tvPort \in Ports

\* The inductive invariant.
IInv ==
    /\ FlowIsConsistent
    /\ EntryComesFirst
    /\ StoredOK
    /\ EntryIsConsistent

-----------------------------------------------------------------------------
(* Data *)

\* What Channels returns: a position for each channel of the area.
LEMMA ChannelsTypes ==
    ASSUME NEW a \in Areas \cup {NoArea}, NEW tv \in Seq(Positions)
    PROVE  /\ Channels(a, tv) \in [of : Areas \cup {NoArea}, tv : Seq(Positions)]
           /\ Channels(a, tv).of = a /\ Len(Channels(a, tv).tv) = a[2]
<1>1. a[2] \in Nat
    BY ConfigurationAssumption DEF NoArea
<1>2. \A i \in 1..a[2] : (IF i \in DOMAIN tv THEN tv[i] ELSE "auto") \in Positions
    BY ConfigurationAssumption
<1> DEFINE f == [i \in 1..a[2] |-> IF i \in DOMAIN tv THEN tv[i] ELSE "auto"]
<1>3. f \in Seq(Positions) /\ Len(f) = a[2]
    BY <1>1, <1>2
<1> HIDE DEF f
<1>4. Channels(a, tv) = [of |-> a, tv |-> f]
    BY DEF Channels, f
<1> QED BY <1>3, <1>4

\* NoChannels is an instance of it.
LEMMA NoChannelsTypes == NoChannels \in [of : Areas \cup {NoArea}, tv : Seq(Positions)]
<1>1. <<>> \in Seq(Positions)
    OBVIOUS
<1> QED BY <1>1, ChannelsTypes DEF NoChannels

\* The attributes of a new flow have their types.
LEMMA FreshTypes == Fresh \in Flows
<1>1. NoTv \in [host : Tvs \cup {NoHost}, login : Tvs \cup {NoHost}, port : Ports]
    BY ConfigurationAssumption DEF NoTv
<1> QED BY <1>1, NoChannelsTypes DEF Fresh, Flows

\* The entries of an updated dictionary.
LEMMA UpdateEntries ==
    ASSUME NEW f, NEW g, NEW k
    PROVE  /\ k \in DOMAIN Update(f, g) <=> k \in DOMAIN f \/ k \in DOMAIN g
           /\ k \in DOMAIN g => Update(f, g)[k] = g[k]
           /\ k \in DOMAIN f /\ k \notin DOMAIN g => Update(f, g)[k] = f[k]
BY DEF Update

\* What an option is worth after an update of the options.
LEMMA CurrentAfterSave ==
    ASSUME NEW g, NEW k, NEW d, options' = Update(options, g), data' = data
    PROVE  Current(k, d)' = IF k \in DOMAIN g THEN g[k] ELSE Current(k, d)
BY UpdateEntries DEF Current

-----------------------------------------------------------------------------
(* The steps of the flows *)

\* A step to another form, or one that leaves the flow.
Moves == UNCHANGED <<data, options>> /\ FlowIsConsistent' /\ EntryComesFirst'
Creates == \E s \in Flows : CreateEntry(s) /\ Creatable(s) /\ ~Entered
Saves == \E s \in Flows : SaveSelf(s) /\ Savable(s) /\ Entered

\* What is stored and not changed has the same worth.
LEMMA CurrentStays ==
    ASSUME UNCHANGED <<data, options>>, NEW k, NEW d
    PROVE  Current(k, d)' = Current(k, d)
BY DEF Current

\* The three ways to a bridge lead to its forms, and change the host at most.
LEMMA AskSteps ==
    ASSUME NEW s \in Flows, NEW forms \in {ConfigForms, SetupForms},
           AskForBridge(s, forms) \/ SoleBridge(s, forms) \/ Go(forms.host, s)
    PROVE  /\ UNCHANGED <<data, options>>
           /\ form' \in {forms.bridge, forms.host, forms.pair}
           /\ self' \in Flows
           /\ self'.key = s.key /\ self'.input = s.input /\ self'.tv = s.tv
<1>1. Bridges \subseteq Hosts
    BY ConfigurationAssumption
<1> QED BY <1>1 DEF AskForBridge, SoleBridge, Go, Flows

\* What a move leaves of the order of the two flows.
LEMMA MovesInOrder ==
    ASSUME EntryComesFirst, UNCHANGED <<data, options>>,
           form' \in CreatingForms => ~Entered, form' \in ChangingForms => Entered
    PROVE  EntryComesFirst'
BY DEF EntryComesFirst, Entered

\* The forms by name.
LEMMA Forms ==
    /\ ConfigForms.bridge = "hue_bridge" /\ ConfigForms.host = "hue_host"
    /\ ConfigForms.pair = "hue_pair"
    /\ SetupForms.bridge = "hue_setup_bridge" /\ SetupForms.host = "hue_setup_host"
    /\ SetupForms.pair = "hue_setup_pair"
BY DEF ConfigForms, SetupForms

\* A step of the config flow.
LEMMA ConfigSteps == IInv /\ Config => Moves \/ Creates
<1> SUFFICES ASSUME IInv, Config PROVE Moves \/ Creates
    OBVIOUS
<1> USE DEF CreatingForms, ChangingForms, BridgeForms, SetupBridgeForms, PairingForms, TvPairingForms
<1>0. /\ self \in Flows /\ CreatingIsConsistent /\ EntryComesFirst
      /\ form \in CreatingForms => ~Entered
    BY DEF IInv, FlowIsConsistent, EntryComesFirst
<1>a. ASSUME NEW s \in Flows, CreateEntry(s), Creatable(s), form \in CreatingForms PROVE Creates
    BY <1>0, <1>a DEF Creates
<1>b. ASSUME UNCHANGED <<data, options>>, form' \in CreatingForms, self' \in Flows, ~Entered,
             CreatingIsConsistent'
      PROVE  Moves
  <2>1. ChangingIsConsistent'
      BY <1>b DEF ChangingIsConsistent
  <2>2. EntryComesFirst'
      BY <1>0, <1>b, MovesInOrder
  <2> QED BY <1>b, <2>1, <2>2 DEF Moves, FlowIsConsistent
<1>c. ASSUME NEW s \in Flows, ~Entered, s.key = NoHost,
             s.input = "jointspace" => Answers(s.tv),
             AskForBridge(s, ConfigForms) \/ SoleBridge(s, ConfigForms) \/ Go(ConfigForms.host, s)
      PROVE  Moves
  <2>1. /\ UNCHANGED <<data, options>> /\ form' \in BridgeForms /\ self' \in Flows
        /\ self'.key = s.key /\ self'.input = s.input /\ self'.tv = s.tv
      BY <1>c, AskSteps, Forms
  <2>2. CreatingIsConsistent'
      BY <1>c, <2>1 DEF CreatingIsConsistent, Answers
  <2> QED BY <1>b, <1>c, <2>1, <2>2
<1>1. CASE OpenConfig
  <2>1. form' = "user" /\ self' = Fresh /\ UNCHANGED <<data, options>> /\ ~Entered
      BY <1>1 DEF OpenConfig, Go
  <2>2. CreatingIsConsistent'
      BY <2>1 DEF CreatingIsConsistent, Fresh
  <2> QED BY <1>b, <2>1, <2>2, FreshTypes
<1>2. CASE UserStep
  <2> PICK input \in {"legacy", "jointspace"}, backend \in {"lights", "hue"}, l \in SUBSET Lights :
        LET s == [self EXCEPT !.input = input, !.backend = backend, !.lights = l]
        IN  \/ input = "jointspace" /\ Go("jointspace", s)
            \/ input = "legacy" /\ backend = "hue" /\ AskForBridge(s, ConfigForms)
            \/ input = "legacy" /\ backend = "lights" /\ Go("pre_pairing", s)
      BY <1>2 DEF UserStep
  <2> DEFINE s == [self EXCEPT !.input = input, !.backend = backend, !.lights = l]
  <2>1. /\ s \in Flows /\ s.key = NoHost /\ s.input = input /\ s.backend = backend
        /\ ~Entered
      BY <1>0, <1>2 DEF Flows, UserStep, CreatingIsConsistent
  <2>2. CASE input = "legacy" /\ backend = "hue" /\ AskForBridge(s, ConfigForms)
      BY <1>c, <2>1, <2>2
  <2>3. CASE input = "jointspace" /\ Go("jointspace", s)
    <3>1. CreatingIsConsistent'
        BY <2>1, <2>3 DEF CreatingIsConsistent, Go
    <3> QED BY <1>b, <2>1, <2>3, <3>1 DEF Go
  <2>4. CASE input = "legacy" /\ backend = "lights" /\ Go("pre_pairing", s)
    <3>1. CreatingIsConsistent'
        BY <2>1, <2>4 DEF CreatingIsConsistent, Go, Creatable
    <3> QED BY <1>b, <2>1, <2>4, <3>1 DEF Go
  <2> QED BY <2>2, <2>3, <2>4
<1>3. CASE JointspaceStep
  <2> PICK tv \in TvSettings :
        LET s == [self EXCEPT !.tv = tv]
        IN  \/ Go("jointspace", s)
            \/ Answers(tv) /\ s.backend = "hue" /\ AskForBridge(s, ConfigForms)
            \/ Answers(tv) /\ s.backend = "lights" /\ CreateEntry(s)
      BY <1>3 DEF JointspaceStep
  <2> DEFINE s == [self EXCEPT !.tv = tv]
  <2>1. s \in Flows /\ s.key = NoHost /\ s.tv = tv /\ ~Entered /\ form = "jointspace"
      BY <1>0, <1>3 DEF Flows, TvSettings, JointspaceStep, CreatingIsConsistent
  <2> HIDE DEF s
  <2>2. CASE Answers(tv) /\ s.backend = "hue" /\ AskForBridge(s, ConfigForms)
      BY <1>c, <2>1, <2>2
  <2>3. CASE Go("jointspace", s)
    <3>1. CreatingIsConsistent'
        BY <2>1, <2>3 DEF CreatingIsConsistent, Go
    <3> QED BY <1>b, <2>1, <2>3, <3>1 DEF Go
  <2>4. CASE Answers(tv) /\ s.backend = "lights" /\ CreateEntry(s)
      BY <1>a, <2>1, <2>4 DEF Creatable
  <2> QED BY <2>2, <2>3, <2>4 DEF s
<1>4. CASE BridgeStep(ConfigForms)
  <2>1. /\ form = "hue_bridge"
        /\ SoleBridge(self, ConfigForms) \/ Go(ConfigForms.host, self)
      BY <1>4, Forms DEF BridgeStep
  <2>2. self.key = NoHost /\ (self.input = "jointspace" => Answers(self.tv))
      BY <1>0, <2>1 DEF CreatingIsConsistent
  <2> QED BY <1>0, <1>c, <2>1, <2>2
<1>5. CASE HostStep(ConfigForms)
  <2>1. /\ form = "hue_host" /\ form' = "hue_pair" /\ UNCHANGED <<data, options>>
        /\ self' \in Flows /\ self'.key = self.key /\ self'.input = self.input
        /\ self'.tv = self.tv
      BY <1>0, <1>5, Forms DEF HostStep, Go, Flows
  <2>2. CreatingIsConsistent'
      BY <1>0, <2>1 DEF CreatingIsConsistent, Answers
  <2> QED BY <1>0, <1>b, <2>1, <2>2
<1>6. CASE PairStep(ConfigForms, "hue_area")
  <2>1. /\ form = "hue_pair" /\ form' = "hue_area" /\ UNCHANGED <<data, options>>
        /\ self' \in Flows /\ KeyFits(self') /\ self'.input = self.input
        /\ self'.tv = self.tv
      BY <1>0, <1>6, Forms DEF PairStep, Go, Flows, KeyFits
  <2>2. CreatingIsConsistent'
      BY <1>0, <2>1 DEF CreatingIsConsistent, Answers, KeyFits
  <2> QED BY <1>0, <1>b, <2>1, <2>2
<1>7. CASE SkipPairing
  <2>1. form = "hue_pair" /\ CreateEntry(self)
      BY <1>7 DEF SkipPairing
  <2>2. Creatable(self)
      BY <1>0, <2>1 DEF CreatingIsConsistent, Creatable
  <2> QED BY <1>0, <1>a, <2>1, <2>2
<1>8. CASE AreaStep
  <2> PICK a \in AreasOf(self.key) :
        LET s == [self EXCEPT !.area = a]
        IN  \/ s.input = "jointspace" /\ Go("jointspace_mapping", s)
            \/ s.input = "legacy" /\ Go("pre_pairing", s)
      BY <1>8 DEF AreaStep
  <2> DEFINE s == [self EXCEPT !.area = a]
  <2>1. form = "hue_area" /\ KeyFits(self)
      BY <1>0, <1>8 DEF AreaStep, CreatingIsConsistent
  <2>2. s \in Flows /\ AreaFits(s) /\ s.input = self.input /\ s.tv = self.tv
      BY <1>0, <2>1 DEF Flows, AreasOf, AreaFits, KeyFits
  <2> HIDE DEF s
  <2>3. Creatable(s)
      BY <1>0, <2>1, <2>2 DEF Creatable, CreatingIsConsistent
  <2>4. form' \in {"jointspace_mapping", "pre_pairing"} /\ self' = s /\ UNCHANGED <<data, options>>
      BY DEF Go, s
  <2>5. CreatingIsConsistent'
      BY <2>2, <2>3, <2>4 DEF CreatingIsConsistent, AreaFits, KeyFits, Creatable, Answers
  <2> QED BY <1>0, <1>b, <2>1, <2>2, <2>4, <2>5
<1>9. CASE MappingStep
  <2> PICK p \in Positions :
        LET s == [self EXCEPT !.mappings = Append(@, p)]
        IN  IF Len(s.mappings) >= self.area[2] THEN CreateEntry(s) ELSE Go(form, s)
      BY <1>9 DEF MappingStep, AnswerChannel
  <2> DEFINE s == [self EXCEPT !.mappings = Append(@, p)]
  <2>1. form = "jointspace_mapping" /\ AreaFits(self) /\ Creatable(self)
      BY <1>0, <1>9 DEF MappingStep, CreatingIsConsistent
  <2>a. Append(self.mappings, p) \in Seq(Positions)
      BY <1>0 DEF Flows
  <2>b. /\ s \in Flows /\ s.key = self.key /\ s.host = self.host /\ s.area = self.area
        /\ s.input = self.input /\ s.backend = self.backend /\ s.tv = self.tv
      BY <1>0, <2>a DEF Flows
  <2> HIDE DEF s
  <2>2. s \in Flows /\ AreaFits(s) /\ Creatable(s)
      BY <2>1, <2>b DEF AreaFits, KeyFits, Creatable
  <2>3. CASE CreateEntry(s)
      BY <1>a, <2>1, <2>2, <2>3
  <2>4. CASE Go(form, s)
    <3>1. form' = "jointspace_mapping" /\ self' = s /\ UNCHANGED <<data, options>>
        BY <2>1, <2>4 DEF Go
    <3>2. CreatingIsConsistent'
        BY <2>2, <3>1 DEF CreatingIsConsistent, AreaFits, KeyFits, Creatable, Answers
    <3> QED BY <1>0, <1>b, <2>1, <2>2, <3>1, <3>2
  <2> QED BY <2>3, <2>4 DEF s
<1>10. CASE PrePairingStep \/ NotPaired
  <2>1. /\ form \in PairingForms /\ form' \in PairingForms /\ self' = self
        /\ UNCHANGED <<data, options>>
      BY <1>10 DEF PrePairingStep, NotPaired, Go
  <2>2. CreatingIsConsistent'
      BY <1>0, <2>1 DEF CreatingIsConsistent, Creatable, AreaFits, KeyFits, Answers
  <2> QED BY <1>0, <1>b, <2>1, <2>2
<1>11. CASE Paired \/ NotPairedStep
  <2>1. form \in PairingForms /\ CreateEntry(self)
      BY <1>11 DEF Paired, NotPairedStep
  <2> QED BY <1>0, <1>a, <2>1 DEF CreatingIsConsistent
<1> QED
    BY <1>1, <1>2, <1>3, <1>4, <1>5, <1>6, <1>7, <1>8, <1>9, <1>10, <1>11 DEF Config

\* A step of the options flow.
LEMMA OptionsSteps ==
    IInv /\ Options => Moves \/ Saves \/ TvStep \/ PerformanceStep \/ SetupAreaStep
<1> SUFFICES ASSUME IInv, Options
             PROVE  Moves \/ Saves \/ TvStep \/ PerformanceStep \/ SetupAreaStep
    OBVIOUS
<1> USE DEF CreatingForms, ChangingForms, BridgeForms, SetupBridgeForms, PairingForms, TvPairingForms
<1>0. /\ self \in Flows /\ ChangingIsConsistent /\ EntryComesFirst /\ StoredOK
      /\ form \in ChangingForms => Entered
    BY DEF IInv, FlowIsConsistent, EntryComesFirst
<1>a. ASSUME NEW s \in Flows, SaveSelf(s), Savable(s), Entered PROVE Saves
    BY <1>a DEF Saves
<1>b. ASSUME UNCHANGED <<data, options>>, form' \in ChangingForms, self' \in Flows, Entered,
             ChangingIsConsistent'
      PROVE  Moves
  <2>1. CreatingIsConsistent'
      BY <1>b DEF CreatingIsConsistent
  <2>2. EntryComesFirst'
      BY <1>0, <1>b, MovesInOrder
  <2> QED BY <1>b, <2>1, <2>2 DEF Moves, FlowIsConsistent
<1>c. ASSUME NEW s \in Flows, Entered,
             AskForBridge(s, SetupForms) \/ SoleBridge(s, SetupForms) \/ Go(SetupForms.host, s)
      PROVE  Moves
  <2>1. /\ UNCHANGED <<data, options>> /\ form' \in SetupBridgeForms /\ self' \in Flows
      BY <1>c, AskSteps, Forms
  <2>2. ChangingIsConsistent'
      BY <2>1 DEF ChangingIsConsistent
  <2> QED BY <1>b, <1>c, <2>1, <2>2
<1>d. ASSUME NEW s \in Flows, NEW f \in ChangingForms, Go(f, s), Entered,
             s.host = NoHost, f # "hue_setup_area"
      PROVE  Moves
  <2>1. UNCHANGED <<data, options>> /\ form' = f /\ self' = s
      BY <1>d DEF Go
  <2>2. ChangingIsConsistent'
      BY <1>d, <2>1 DEF ChangingIsConsistent, Savable
  <2> QED BY <1>b, <1>d, <2>1, <2>2
<1>e. ASSUME NEW s \in Flows, ShowAreaForm(s), Entered PROVE Moves
  <2>1. /\ UNCHANGED <<data, options>> /\ form' = "hue_options" /\ self' \in Flows
      BY <1>0, <1>e DEF ShowAreaForm, Go, Flows, StoredOK
  <2>2. ChangingIsConsistent'
      BY <2>1 DEF ChangingIsConsistent
  <2> QED BY <1>b, <1>e, <2>1, <2>2
<1>1. CASE OpenOptions
  <2>1. Current("input", "legacy") \in {"legacy", "jointspace"} /\ Entered
      BY <1>0, <1>1 DEF OpenOptions, StoredOK, EntryComesFirst, Current
  <2> DEFINE s == [Fresh EXCEPT !.input = Current("input", "legacy")]
  <2>2. s \in Flows
      BY <2>1, FreshTypes DEF Flows
  <2>3. s.host = NoHost
      BY DEF Fresh
  <2>4. Go("init", s)
      BY <1>1 DEF OpenOptions
  <2> HIDE DEF s
  <2> QED BY <1>d, <2>1, <2>2, <2>3, <2>4
<1>2. CASE ManageStep
  <2>1. form = "init" /\ self.host = NoHost /\ Entered /\ Savable(self)
      BY <1>0, <1>2 DEF ManageStep, ChangingIsConsistent, Savable
  <2>2. CASE SaveSelf(self)
      BY <1>0, <1>a, <2>1, <2>2
  <2>3. CASE ShowAreaForm(self)
      BY <1>0, <1>e, <2>1, <2>3
  <2>4. CASE AskForBridge(self, SetupForms)
      BY <1>0, <1>c, <2>1, <2>4
  <2>5. CASE \E f \in {"jointspace_options", "hue_manage", "jointspace_mapping_options",
                       "performance"} : Go(f, self)
      BY <1>0, <1>d, <2>1, <2>5
  <2> QED BY <1>2, <2>2, <2>3, <2>4, <2>5 DEF ManageStep
<1>3. CASE InitStep
  <2> PICK l \in SUBSET Lights, backend \in {"lights", "hue"} :
        LET s == [self EXCEPT !.lights = l, !.backend = backend]
        IN  \/ Go("options_pairing", s)
            \/ backend = "hue" /\ ShowAreaForm(s)
            \/ backend = "lights" /\ SaveSelf(s)
      BY <1>3 DEF InitStep
  <2> DEFINE s == [self EXCEPT !.lights = l, !.backend = backend]
  <2>1. s \in Flows /\ s.host = NoHost /\ Entered
      BY <1>0, <1>3 DEF InitStep, ChangingIsConsistent, Flows
  <2> HIDE DEF s
  <2>2. CASE Go("options_pairing", s)
      BY <1>d, <2>1, <2>2
  <2>3. CASE ShowAreaForm(s)
      BY <1>e, <2>1, <2>3
  <2>4. CASE SaveSelf(s)
      BY <1>a, <2>1, <2>4 DEF Savable
  <2> QED BY <2>2, <2>3, <2>4 DEF s
<1>4. CASE HueManageStep
  <2>1. form = "hue_manage" /\ AskForBridge(self, SetupForms)
      BY <1>4 DEF HueManageStep
  <2> QED BY <1>0, <1>c, <2>1
<1>5. CASE BridgeStep(SetupForms)
  <2>1. /\ form = "hue_setup_bridge"
        /\ SoleBridge(self, SetupForms) \/ Go(SetupForms.host, self)
      BY <1>5, Forms DEF BridgeStep
  <2> QED BY <1>0, <1>c, <2>1
<1>6. CASE HostStep(SetupForms)
  <2>1. /\ form = "hue_setup_host" /\ form' = "hue_setup_pair" /\ UNCHANGED <<data, options>>
        /\ self' \in Flows
      BY <1>0, <1>6, Forms DEF HostStep, Go, Flows
  <2>2. ChangingIsConsistent'
      BY <2>1 DEF ChangingIsConsistent
  <2> QED BY <1>0, <1>b, <2>1, <2>2
<1>7. CASE PairStep(SetupForms, "hue_setup_area")
  <2>1. /\ form = "hue_setup_pair" /\ form' = "hue_setup_area" /\ UNCHANGED <<data, options>>
        /\ self' \in Flows /\ KeyFits(self')
      BY <1>0, <1>7, Forms DEF PairStep, Go, Flows, KeyFits
  <2>2. ChangingIsConsistent'
      BY <2>1 DEF ChangingIsConsistent, KeyFits
  <2> QED BY <1>0, <1>b, <2>1, <2>2
<1>8. CASE AreaOptionsStep
  <2> PICK h \in Hosts, a \in AreasOf(self.host) :
        LET s == [self EXCEPT !.host = h, !.area = a]
            t == [s EXCEPT !.channels = Channels(a, Current("channels", NoChannels).tv)]
        IN  \/ Go("hue_options", s)
            \/ h = Current("key", NoHost) /\ s.input = "jointspace" /\ Go("jointspace_mapping_options", t)
            \/ h = Current("key", NoHost) /\ s.input = "legacy" /\ SaveSelf(t)
      BY <1>8 DEF AreaOptionsStep
  <2> DEFINE s == [self EXCEPT !.host = h, !.area = a]
             c == Channels(a, Current("channels", NoChannels).tv)
             t == [s EXCEPT !.channels = c]
  <2>1. /\ form = "hue_options" /\ Current("key", NoHost) = self.host /\ Entered
        /\ a \in Areas /\ a[1] = self.host /\ self.host \in Bridges
      BY <1>0, <1>8, ConfigurationAssumption DEF AreaOptionsStep, AreasOf
  <2>2. s \in Flows
      BY <1>0, <2>1 DEF Flows
  <2>3. /\ c \in [of : Areas \cup {NoArea}, tv : Seq(Positions)]
        /\ c.of = a /\ Len(c.tv) = a[2]
      BY <1>0, <2>1, ChannelsTypes DEF StoredOK
  <2>4. CASE Go("hue_options", s)
    <3>1. UNCHANGED <<data, options>> /\ form' = "hue_options" /\ self' = s
        BY <2>4 DEF Go
    <3>2. ChangingIsConsistent'
        BY <3>1 DEF ChangingIsConsistent
    <3> QED BY <1>b, <2>1, <2>2, <3>1, <3>2
  <2>5. ASSUME h = Current("key", NoHost) PROVE t \in Flows /\ Savable(t)
    <3> HIDE DEF c
    <3>1. /\ t \in Flows /\ t.host = h /\ t.area = a /\ t.channels = c
        BY <1>0, <2>1, <2>3 DEF Flows
    <3> HIDE DEF t
    <3> QED BY <2>1, <2>3, <2>5, <3>1 DEF Savable, AreasOf
  <2>6. CASE h = Current("key", NoHost) /\ Go("jointspace_mapping_options", t)
    <3>1. /\ UNCHANGED <<data, options>> /\ form' = "jointspace_mapping_options" /\ self' = t
        BY <2>6 DEF Go
    <3> HIDE DEF t
    <3>2. Savable(self)'
        BY <2>5, <2>6, <3>1, CurrentStays DEF Savable
    <3>3. ChangingIsConsistent'
        BY <3>1, <3>2 DEF ChangingIsConsistent
    <3> QED BY <1>b, <2>1, <2>5, <2>6, <3>1, <3>3
  <2>7. CASE h = Current("key", NoHost) /\ SaveSelf(t)
      BY <1>a, <2>1, <2>5, <2>7
  <2> QED BY <2>4, <2>6, <2>7
<1>9. CASE MappingOptionsStep
  <2> PICK p \in Positions :
        LET s == [self EXCEPT !.mappings = Append(@, p)]
        IN  SaveSelf(s) \/ Go(form, s)
      BY <1>9 DEF MappingOptionsStep, AnswerChannel
  <2> DEFINE s == [self EXCEPT !.mappings = Append(@, p)]
  <2>1. form = "jointspace_mapping_options" /\ Savable(self) /\ Entered
      BY <1>0, <1>9 DEF MappingOptionsStep, ChangingIsConsistent
  <2>2. Append(self.mappings, p) \in Seq(Positions)
      BY <1>0 DEF Flows
  <2>3. /\ s \in Flows /\ s.host = self.host /\ s.area = self.area
        /\ s.channels = self.channels
      BY <1>0, <2>2 DEF Flows
  <2> HIDE DEF s
  <2>4. Savable(s)
      BY <2>1, <2>3 DEF Savable
  <2>5. CASE SaveSelf(s)
      BY <1>a, <2>1, <2>3, <2>4, <2>5
  <2>6. CASE Go(form, s)
    <3>1. /\ UNCHANGED <<data, options>> /\ form' = "jointspace_mapping_options" /\ self' = s
        BY <2>1, <2>6 DEF Go
    <3>2. Savable(self)'
        BY <2>4, <3>1, CurrentStays DEF Savable
    <3>3. ChangingIsConsistent'
        BY <3>1, <3>2 DEF ChangingIsConsistent
    <3> QED BY <1>b, <2>1, <2>3, <3>1, <3>3
  <2> QED BY <2>5, <2>6 DEF s
<1>10. CASE OptionsPaired \/ OptionsNotPairedStep
  <2>1. form \in TvPairingForms /\ SaveSelf(self)
      BY <1>10 DEF OptionsPaired, OptionsNotPairedStep
  <2>2. Savable(self)
      BY <1>0, <2>1 DEF ChangingIsConsistent, Savable
  <2> QED BY <1>0, <1>a, <2>1, <2>2
<1>11. CASE OptionsNotPaired
  <2>1. form = "options_pairing" /\ self.host = NoHost /\ Go("options_not_paired", self) /\ Entered
      BY <1>0, <1>11 DEF OptionsNotPaired, ChangingIsConsistent
  <2> QED BY <1>0, <1>d, <2>1
<1> QED
    BY <1>1, <1>2, <1>3, <1>4, <1>5, <1>6, <1>7, <1>8, <1>9, <1>10, <1>11 DEF Options

-----------------------------------------------------------------------------
(* The steps that write the entry or its options *)

\* Which keys the forms of the options write when they are done.
LEMMA SavedEntries ==
    ASSUME NEW s, SaveSelf(s), NEW k, NEW d
    PROVE  /\ data' = data
           /\ "input" \in DOMAIN options' <=> "input" \in DOMAIN options
           /\ "tvPort" \in DOMAIN options' <=> "tvPort" \in DOMAIN options
           /\ "tvPort" \in DOMAIN options => options'.tvPort = options.tvPort
           /\ k \in {"input", "configured", "key", "tvHost", "tvLogin"} => Current(k, d)' = Current(k, d)
           /\ s.mappings = <<>> => Current("mappings", <<>>)' = Current("mappings", <<>>)
           /\ s.mappings # <<>> => Current("mappings", <<>>)' = s.mappings
           /\ s.host = NoHost /\ k \in {"backend", "host", "area", "channels"}
                => Current(k, d)' = Current(k, d)
           /\ s.host # NoHost =>
                /\ Current("backend", "lights")' = "hue"
                /\ Current("host", NoHost)' = s.host
                /\ Current("area", NoArea)' = s.area
                /\ Current("channels", NoChannels)' = s.channels
<1> DEFINE lights == IF s.lights = {} THEN <<>> ELSE [lights |-> s.lights]
           hue == IF s.host = NoHost THEN <<>>
                  ELSE [backend |-> "hue", host |-> s.host, area |-> s.area, channels |-> s.channels]
           map == IF s.mappings = <<>> THEN <<>> ELSE [mappings |-> s.mappings]
           o == Update(Update(Update(options, lights), hue), map)
<1>1. options' = o /\ data' = data
    BY DEF SaveSelf, Save, SavedOptions
<1>2. /\ \A q : q \in DOMAIN lights => q = "lights"
      /\ \A q : q \in DOMAIN map <=> s.mappings # <<>> /\ q = "mappings"
      /\ \A q : q \in DOMAIN hue <=> s.host # NoHost /\ q \in {"backend", "host", "area", "channels"}
    OBVIOUS
<1>3. /\ s.mappings # <<>> => map["mappings"] = s.mappings
      /\ s.host # NoHost => /\ hue["backend"] = "hue" /\ hue["host"] = s.host
                            /\ hue["area"] = s.area /\ hue["channels"] = s.channels
    OBVIOUS
<1> HIDE DEF lights, hue, map
<1>4. ASSUME NEW q
      PROVE  /\ q \in DOMAIN o <=> q \in DOMAIN options \/ q \in DOMAIN lights
                                     \/ q \in DOMAIN hue \/ q \in DOMAIN map
             /\ q \in DOMAIN map => o[q] = map[q]
             /\ q \in DOMAIN hue /\ q \notin DOMAIN map => o[q] = hue[q]
             /\ q \in DOMAIN options /\ q \notin DOMAIN lights \cup DOMAIN hue \cup DOMAIN map
                  => o[q] = options[q]
    BY UpdateEntries
<1> HIDE DEF o
<1>5. ASSUME NEW q, NEW e, q # "lights"
      PROVE  Current(q, e)' = IF q \in DOMAIN map THEN map[q]
                              ELSE IF q \in DOMAIN hue THEN hue[q] ELSE Current(q, e)
    BY <1>1, <1>2, <1>4, <1>5 DEF Current
<1>6. /\ "input" \in DOMAIN options' <=> "input" \in DOMAIN options
      /\ "tvPort" \in DOMAIN options' <=> "tvPort" \in DOMAIN options
      /\ "tvPort" \in DOMAIN options => options'.tvPort = options.tvPort
    BY <1>1, <1>2, <1>4
<1>7. k \in {"input", "configured", "key", "tvHost", "tvLogin"} => Current(k, d)' = Current(k, d)
    BY <1>2, <1>5
<1>8. /\ s.mappings = <<>> => Current("mappings", <<>>)' = Current("mappings", <<>>)
      /\ s.mappings # <<>> => Current("mappings", <<>>)' = s.mappings
    BY <1>2, <1>3, <1>5
<1>9. s.host = NoHost /\ k \in {"backend", "host", "area", "channels"}
        => Current(k, d)' = Current(k, d)
    BY <1>2, <1>5
<1>10. s.host # NoHost =>
         /\ Current("backend", "lights")' = "hue"
         /\ Current("host", NoHost)' = s.host
         /\ Current("area", NoArea)' = s.area
         /\ Current("channels", NoChannels)' = s.channels
    BY <1>2, <1>3, <1>5
<1> QED BY <1>1, <1>6, <1>7, <1>8, <1>9, <1>10

\* What the config flow writes when it is done.
LEMMA CreatedEntries ==
    ASSUME NEW s, CreateEntry(s), options = <<>>, NEW d
    PROVE  /\ options' = <<>> /\ Entered' /\ "input" \in DOMAIN data'
           /\ Current("input", d)' = s.input
           /\ Current("backend", d)' = s.backend
           /\ Current("configured", d)' = (s.backend # "hue" \/ s.key # NoHost)
           /\ s.input = "jointspace" =>
                /\ Current("tvHost", d)' = s.tv.host /\ Current("tvLogin", d)' = s.tv.login
                /\ Current("mappings", d)' = s.mappings
           /\ s.input # "jointspace" =>
                /\ Current("tvHost", d)' = d /\ Current("tvLogin", d)' = d
                /\ Current("mappings", d)' = d
           /\ s.backend = "hue" /\ s.key # NoHost =>
                /\ Current("host", d)' = s.host /\ Current("key", d)' = s.key
                /\ Current("area", d)' = s.area
                /\ Current("channels", d)' = Channels(s.area, s.mappings)
           /\ ~(s.backend = "hue" /\ s.key # NoHost) =>
                /\ Current("host", d)' = d /\ Current("key", d)' = d
                /\ Current("area", d)' = d /\ Current("channels", d)' = d
<1> DEFINE base == [input |-> s.input, backend |-> s.backend, lights |-> s.lights,
                    configured |-> s.backend # "hue" \/ s.key # NoHost]
           tv == IF s.input # "jointspace" THEN <<>>
                 ELSE [tvHost |-> s.tv.host, tvLogin |-> s.tv.login, tvPort |-> s.tv.port,
                       mappings |-> s.mappings]
           hue == IF s.backend # "hue" \/ s.key = NoHost THEN <<>>
                  ELSE [host |-> s.host, key |-> s.key, area |-> s.area,
                        channels |-> Channels(s.area, s.mappings)]
           o == Update(Update(base, tv), hue)
<1>1. data' = o /\ options' = <<>>
    BY DEF CreateEntry
<1>2. /\ \A q : q \in DOMAIN base <=> q \in {"input", "backend", "lights", "configured"}
      /\ \A q : q \in DOMAIN tv <=> s.input = "jointspace" /\ q \in {"tvHost", "tvLogin", "tvPort", "mappings"}
      /\ \A q : q \in DOMAIN hue <=> /\ s.backend = "hue" /\ s.key # NoHost
                                    /\ q \in {"host", "key", "area", "channels"}
    OBVIOUS
<1>3. /\ base["input"] = s.input /\ base["backend"] = s.backend
      /\ s.input = "jointspace" =>
           /\ tv["tvHost"] = s.tv.host /\ tv["tvLogin"] = s.tv.login /\ tv["mappings"] = s.mappings
      /\ s.backend = "hue" /\ s.key # NoHost =>
           /\ hue["host"] = s.host /\ hue["key"] = s.key /\ hue["area"] = s.area
           /\ hue["channels"] = Channels(s.area, s.mappings)
    OBVIOUS
<1>4. base["configured"] = (s.backend # "hue" \/ s.key # NoHost)
    OBVIOUS
<1> HIDE DEF base, tv, hue
<1>5. ASSUME NEW q
      PROVE  /\ q \in DOMAIN o <=> q \in DOMAIN base \/ q \in DOMAIN tv \/ q \in DOMAIN hue
             /\ q \in DOMAIN hue => o[q] = hue[q]
             /\ q \in DOMAIN tv /\ q \notin DOMAIN hue => o[q] = tv[q]
             /\ q \in DOMAIN base /\ q \notin DOMAIN tv \cup DOMAIN hue => o[q] = base[q]
    BY UpdateEntries
<1> HIDE DEF o
<1>6. ASSUME NEW q
      PROVE  Current(q, d)' = IF q \in DOMAIN hue THEN hue[q]
                              ELSE IF q \in DOMAIN tv THEN tv[q]
                              ELSE IF q \in DOMAIN base THEN base[q] ELSE d
    BY <1>1, <1>2, <1>5 DEF Current
<1>7. "input" \in DOMAIN data' /\ Entered'
    BY <1>1, <1>2, <1>5 DEF Entered
<1>8. /\ Current("input", d)' = s.input /\ Current("backend", d)' = s.backend
    BY <1>2, <1>3, <1>6
<1>9. Current("configured", d)' = (s.backend # "hue" \/ s.key # NoHost)
  <2>1. Current("configured", d)' = base["configured"]
      BY <1>2, <1>6
  <2> QED BY <2>1, <1>4
<1>10. /\ s.input = "jointspace" =>
            /\ Current("tvHost", d)' = s.tv.host /\ Current("tvLogin", d)' = s.tv.login
            /\ Current("mappings", d)' = s.mappings
       /\ s.input # "jointspace" =>
            /\ Current("tvHost", d)' = d /\ Current("tvLogin", d)' = d
            /\ Current("mappings", d)' = d
    BY <1>2, <1>3, <1>6
<1>11. /\ s.backend = "hue" /\ s.key # NoHost =>
            /\ Current("host", d)' = s.host /\ Current("key", d)' = s.key
            /\ Current("area", d)' = s.area
            /\ Current("channels", d)' = Channels(s.area, s.mappings)
       /\ ~(s.backend = "hue" /\ s.key # NoHost) =>
            /\ Current("host", d)' = d /\ Current("key", d)' = d
            /\ Current("area", d)' = d /\ Current("channels", d)' = d
    BY <1>2, <1>3, <1>6
<1> QED BY <1>1, <1>7, <1>8, <1>9, <1>10, <1>11

\* Which keys the settings of the TV are.
LEMMA TvEntries ==
    ASSUME IInv, TvStep, NEW k, NEW d
    PROVE  /\ data' = data /\ form' = "none" /\ self' = Fresh /\ Entered
           /\ "input" \in DOMAIN options' <=> "input" \in DOMAIN options
           /\ k \in {"input", "backend", "configured", "host", "key", "area", "channels", "mappings"}
                => Current(k, d)' = Current(k, d)
           /\ \E tv \in [host : Tvs, login : Tvs, port : Ports] :
                /\ Answers(tv)
                /\ Current("tvHost", NoHost)' = tv.host /\ Current("tvLogin", NoHost)' = tv.login
                /\ "tvPort" \in DOMAIN options' /\ options'.tvPort = tv.port
<1> PICK typed \in TvSettings, blank \in BOOLEAN :
      LET tv == IF blank THEN [typed EXCEPT !.login = Current("tvLogin", NoHost)] ELSE typed
      IN  /\ Answers(tv)
          /\ Save(Update(options, [tvHost |-> tv.host, tvLogin |-> tv.login, tvPort |-> tv.port]))
    BY DEF TvStep
<1> DEFINE tv == IF blank THEN [typed EXCEPT !.login = Current("tvLogin", NoHost)] ELSE typed
           g == [tvHost |-> tv.host, tvLogin |-> tv.login, tvPort |-> tv.port]
<1>1. Answers(tv) /\ Save(Update(options, g))
    OBVIOUS
<1>2. tv \in [host : Tvs, login : Tvs, port : Ports]
  <2>1. tv.host \in Tvs /\ tv.login = tv.host
      BY <1>1 DEF Answers
  <2>2. CASE blank
      BY <2>1, <2>2 DEF TvSettings
  <2>3. CASE ~blank
      BY <2>3 DEF TvSettings
  <2> QED BY <2>2, <2>3
<1> HIDE DEF tv
<1>3. /\ \A q : q \in DOMAIN g <=> q \in {"tvHost", "tvLogin", "tvPort"}
      /\ g["tvHost"] = tv.host /\ g["tvLogin"] = tv.login /\ g["tvPort"] = tv.port
    OBVIOUS
<1> HIDE DEF g
<1>4. options' = Update(options, g) /\ data' = data /\ form' = "none" /\ self' = Fresh
    BY <1>1 DEF Save
<1>5. Entered
    BY DEF IInv, EntryComesFirst, ChangingForms, TvStep
<1>6. ASSUME NEW q, NEW e PROVE Current(q, e)' = IF q \in DOMAIN g THEN g[q] ELSE Current(q, e)
    BY <1>4, CurrentAfterSave
<1>7. /\ "input" \in DOMAIN options' <=> "input" \in DOMAIN options
      /\ "tvPort" \in DOMAIN options' /\ options'["tvPort"] = tv.port
    BY <1>3, <1>4, UpdateEntries
<1> QED BY <1>1, <1>2, <1>3, <1>4, <1>5, <1>6, <1>7

\* The performance settings are a key of their own.
LEMMA PerformanceEntries ==
    ASSUME IInv, PerformanceStep, NEW k, NEW d
    PROVE  /\ data' = data /\ form' = "none" /\ self' = Fresh /\ Entered
           /\ "input" \in DOMAIN options' <=> "input" \in DOMAIN options
           /\ "tvPort" \in DOMAIN options' <=> "tvPort" \in DOMAIN options
           /\ "tvPort" \in DOMAIN options => options'.tvPort = options.tvPort
           /\ k # "performance" => Current(k, d)' = Current(k, d)
<1> PICK p : Save(Update(options, [performance |-> p]))
    BY DEF PerformanceStep
<1> DEFINE g == [performance |-> p]
<1>1. /\ \A q : q \in DOMAIN g <=> q = "performance"
      /\ options' = Update(options, g) /\ data' = data /\ form' = "none" /\ self' = Fresh
    BY DEF Save
<1> HIDE DEF g
<1>2. Entered
    BY DEF IInv, EntryComesFirst, ChangingForms, PerformanceStep
<1>3. k # "performance" => Current(k, d)' = Current(k, d)
    BY <1>1, CurrentAfterSave
<1> QED BY <1>1, <1>2, <1>3, UpdateEntries

\* A new bridge brings its key, an area of its own and that area's channels.
LEMMA SetupEntries ==
    ASSUME IInv, SetupAreaStep, NEW k, NEW d
    PROVE  /\ data' = data /\ form' = "none" /\ self' = Fresh /\ Entered
           /\ "input" \in DOMAIN options' <=> "input" \in DOMAIN options
           /\ "tvPort" \in DOMAIN options' <=> "tvPort" \in DOMAIN options
           /\ "tvPort" \in DOMAIN options => options'.tvPort = options.tvPort
           /\ k \in {"input", "backend", "tvHost", "tvLogin", "mappings"}
                => Current(k, d)' = Current(k, d)
           /\ \E b \in Bridges : \E a \in AreasOf(b) :
                /\ Current("host", NoHost)' = b /\ Current("key", NoHost)' = b
                /\ Current("area", NoArea)' = a
                /\ Current("channels", NoChannels)' = Channels(a, <<>>)
                /\ Current("configured", TRUE)' = TRUE
<1>1. form = "hue_setup_area" /\ KeyFits(self) /\ Entered
    BY DEF IInv, FlowIsConsistent, ChangingIsConsistent, EntryComesFirst, ChangingForms, SetupAreaStep
<1> PICK a \in AreasOf(self.key) :
      Save(Update(options, [host |-> self.host, key |-> self.key, area |-> a,
                            channels |-> Channels(a, <<>>), configured |-> TRUE]))
    BY DEF SetupAreaStep
<1> DEFINE g == [host |-> self.host, key |-> self.key, area |-> a,
                 channels |-> Channels(a, <<>>), configured |-> TRUE]
<1>2. options' = Update(options, g) /\ data' = data /\ form' = "none" /\ self' = Fresh
    BY DEF Save
<1>3. /\ \A q : q \in DOMAIN g <=> q \in {"host", "key", "area", "channels", "configured"}
      /\ g["host"] = self.host /\ g["key"] = self.key /\ g["area"] = a
      /\ g["channels"] = Channels(a, <<>>)
    OBVIOUS
<1>4. g["configured"] = TRUE
    OBVIOUS
<1> HIDE DEF g
<1>5. ASSUME NEW q, NEW e PROVE Current(q, e)' = IF q \in DOMAIN g THEN g[q] ELSE Current(q, e)
    BY <1>2, CurrentAfterSave
<1>6. /\ "input" \in DOMAIN options' <=> "input" \in DOMAIN options
      /\ "tvPort" \in DOMAIN options' <=> "tvPort" \in DOMAIN options
      /\ "tvPort" \in DOMAIN options => options'["tvPort"] = options["tvPort"]
    BY <1>2, <1>3, UpdateEntries
<1>7. Current("configured", TRUE)' = TRUE
  <2>1. Current("configured", TRUE)' = g["configured"]
      BY <1>3, <1>5
  <2> QED BY <1>4, <2>1
<1>8. /\ Current("host", NoHost)' = self.host /\ Current("key", NoHost)' = self.host
      /\ Current("area", NoArea)' = a
      /\ Current("channels", NoChannels)' = Channels(a, <<>>)
    BY <1>1, <1>3, <1>5 DEF KeyFits
<1>9. k \in {"input", "backend", "tvHost", "tvLogin", "mappings"} => Current(k, d)' = Current(k, d)
    BY <1>3, <1>5
<1>10. self.host \in Bridges /\ a \in AreasOf(self.host)
    BY <1>1 DEF KeyFits
<1> QED BY <1>1, <1>2, <1>6, <1>7, <1>8, <1>9, <1>10

-----------------------------------------------------------------------------
(* The inductive invariant *)

\* There is no entry and no flow to begin with.
LEMMA InitIInv == Init => IInv
<1> SUFFICES ASSUME Init PROVE IInv
    OBVIOUS
<1>1. form = "none" /\ self = Fresh /\ data = <<>> /\ options = <<>>
    BY DEF Init
<1>2. \A q : q \notin DOMAIN data /\ q \notin DOMAIN options
    BY <1>1
<1>3. \A q, e : Current(q, e) = e
    BY <1>2 DEF Current
<1>4. FlowIsConsistent
    BY <1>1, FreshTypes DEF FlowIsConsistent, CreatingIsConsistent, ChangingIsConsistent,
        CreatingForms, ChangingForms, BridgeForms, SetupBridgeForms, PairingForms, TvPairingForms
<1>5. EntryComesFirst
    BY <1>1, <1>2 DEF EntryComesFirst, Entered, CreatingForms, ChangingForms, BridgeForms,
        SetupBridgeForms, PairingForms, TvPairingForms
<1>6. <<>> \in Seq(Positions)
    OBVIOUS
<1>7. StoredOK
    BY <1>1, <1>2, <1>3, <1>6, NoChannelsTypes DEF StoredOK, Entered
<1>8. EntryIsConsistent
  <2>1. ~UsesHue
    <3>1. Current("backend", "lights") = "lights"
        BY <1>3
    <3> QED BY <3>1 DEF UsesHue
  <2>2. ~Entered
      BY <1>1 DEF Entered
  <2> QED BY <2>1, <2>2 DEF EntryIsConsistent, HueBelongsTogether, LoginFitsTv
<1> QED BY <1>4, <1>5, <1>7, <1>8 DEF IInv

\* The flow is over when something was written.
LEMMA FlowEnds == form' = "none" /\ self' = Fresh => FlowIsConsistent'
BY FreshTypes DEF FlowIsConsistent, CreatingIsConsistent, ChangingIsConsistent,
    CreatingForms, ChangingForms, BridgeForms, SetupBridgeForms, PairingForms, TvPairingForms

\* So the next one may be for the entry there is.
LEMMA EntryStays ==
    ASSUME EntryComesFirst, form' = "none", data' = data, Entered,
           "input" \in DOMAIN options' <=> "input" \in DOMAIN options
    PROVE  EntryComesFirst'
BY DEF EntryComesFirst, Entered, CreatingForms, ChangingForms, BridgeForms,
    SetupBridgeForms, PairingForms, TvPairingForms

\* What the config flow writes is consistent.
LEMMA CreatesConsistent == IInv /\ Creates => IInv'
<1> SUFFICES ASSUME IInv, NEW s \in Flows, CreateEntry(s), Creatable(s), ~Entered PROVE IInv'
    BY DEF Creates
<1>1. form' = "none" /\ self' = Fresh /\ options = <<>>
    BY DEF CreateEntry, IInv, EntryComesFirst
<1>2. FlowIsConsistent'
    BY <1>1, FlowEnds
<1>3. options' = <<>> /\ Entered' /\ "input" \in DOMAIN data' /\ \A q : q \notin DOMAIN options'
    BY <1>1, CreatedEntries
<1>4. EntryComesFirst'
    BY <1>1, <1>3 DEF EntryComesFirst, CreatingForms, ChangingForms, BridgeForms,
        SetupBridgeForms, PairingForms, TvPairingForms
<1> DEFINE Hue == s.backend = "hue" /\ s.key # NoHost
<1>5. Hue => AreaFits(s)
    BY DEF Creatable
<1>6. /\ Channels(s.area, s.mappings) \in [of : Areas \cup {NoArea}, tv : Seq(Positions)]
      /\ Channels(s.area, s.mappings).of = s.area
      /\ Len(Channels(s.area, s.mappings).tv) = s.area[2]
    BY ChannelsTypes DEF Flows
<1>7. /\ Current("channels", NoChannels)' = IF Hue THEN Channels(s.area, s.mappings) ELSE NoChannels
      /\ Current("area", NoArea)' = IF Hue THEN s.area ELSE NoArea
      /\ Current("host", NoHost)' = IF Hue THEN s.host ELSE NoHost
      /\ Current("key", NoHost)' = IF Hue THEN s.key ELSE NoHost
    BY <1>1, CreatedEntries
<1>8. /\ Current("mappings", <<>>)' = IF s.input = "jointspace" THEN s.mappings ELSE <<>>
      /\ Current("tvHost", NoHost)' = IF s.input = "jointspace" THEN s.tv.host ELSE NoHost
      /\ Current("tvLogin", NoHost)' = IF s.input = "jointspace" THEN s.tv.login ELSE NoHost
      /\ Current("input", "")' = s.input /\ Current("input", "legacy")' = s.input
    BY <1>1, CreatedEntries
<1>9. UsesHue' => Hue
  <2>1. UsesHue' => Current("backend", "lights")' = "hue" /\ Current("configured", TRUE)'
      BY DEF UsesHue
  <2>2. Current("backend", "lights")' = s.backend
      BY <1>1, CreatedEntries
  <2>3. Current("configured", TRUE)' = (s.backend # "hue" \/ s.key # NoHost)
      BY <1>1, CreatedEntries
  <2> QED BY <2>1, <2>2, <2>3
<1>10. StoredOK'
  <2>1. <<>> \in Seq(Positions)
      OBVIOUS
  <2>2. /\ s.mappings \in Seq(Positions) /\ s.tv.host \in Tvs \cup {NoHost}
        /\ s.tv.login \in Tvs \cup {NoHost} /\ s.host \in Hosts \cup {NoHost}
        /\ s.area \in Areas \cup {NoArea} /\ s.input \in {"legacy", "jointspace"}
      BY DEF Flows
  <2>3. Current("channels", NoChannels)'.tv \in Seq(Positions)
      BY <1>6, <1>7, NoChannelsTypes
  <2> QED BY <1>3, <1>7, <1>8, <2>1, <2>2, <2>3 DEF StoredOK
<1>11. HueBelongsTogether'
    BY <1>5, <1>6, <1>7, <1>9 DEF HueBelongsTogether, HueOutput, AreaFits, KeyFits
<1>12. LoginFitsTv'
    BY <1>8 DEF LoginFitsTv, UsesJointSpace, SourceTv, Creatable, Answers
<1> QED BY <1>2, <1>4, <1>10, <1>11, <1>12 DEF IInv, EntryIsConsistent

\* What the forms of the options write when they are done is consistent.
LEMMA SavesConsistent == IInv /\ Saves => IInv'
<1> SUFFICES ASSUME IInv, NEW s \in Flows, SaveSelf(s), Savable(s), Entered PROVE IInv'
    BY DEF Saves
<1>0. StoredOK /\ HueBelongsTogether /\ LoginFitsTv /\ EntryComesFirst
    BY DEF IInv, EntryIsConsistent
<1>1. form' = "none" /\ self' = Fresh /\ data' = data
    BY DEF SaveSelf, Save
<1>2. FlowIsConsistent'
    BY <1>1, FlowEnds
<1>3. \A k, d : k \in {"input", "configured", "key", "tvHost", "tvLogin"} => Current(k, d)' = Current(k, d)
    BY SavedEntries
<1>4. s.host = NoHost =>
        \A k, d : k \in {"backend", "host", "area", "channels"} => Current(k, d)' = Current(k, d)
    BY SavedEntries
<1>5. s.host # NoHost =>
         /\ Current("backend", "lights")' = "hue"
         /\ Current("host", NoHost)' = s.host
         /\ Current("area", NoArea)' = s.area
         /\ Current("channels", NoChannels)' = s.channels
    BY SavedEntries
<1>6. Current("mappings", <<>>)' \in {s.mappings, Current("mappings", <<>>)}
    BY SavedEntries
<1>7. /\ "input" \in DOMAIN options' <=> "input" \in DOMAIN options
      /\ "tvPort" \in DOMAIN options' <=> "tvPort" \in DOMAIN options
      /\ "tvPort" \in DOMAIN options => options'.tvPort = options.tvPort
    BY SavedEntries
<1>8. EntryComesFirst'
    BY <1>0, <1>1, <1>7, EntryStays
<1>9. StoredOK'
  <2>1. s.mappings \in Seq(Positions) /\ s.channels.tv \in Seq(Positions)
      BY DEF Flows
  <2>2. s.host \in Hosts \cup {NoHost} /\ s.area \in Areas \cup {NoArea}
      BY DEF Flows
  <2>3. Current("input", "")' = Current("input", "")
      BY SavedEntries
  <2>4. /\ Current("tvHost", NoHost)' = Current("tvHost", NoHost)
        /\ Current("tvLogin", NoHost)' = Current("tvLogin", NoHost)
      BY <1>3
  <2>5. CASE s.host = NoHost
    <3>1. /\ Current("channels", NoChannels)' = Current("channels", NoChannels)
          /\ Current("host", NoHost)' = Current("host", NoHost)
          /\ Current("area", NoArea)' = Current("area", NoArea)
        BY <1>4, <2>5
    <3> QED BY <1>0, <1>6, <1>7, <2>1, <2>3, <2>4, <3>1 DEF StoredOK
  <2>6. CASE s.host # NoHost
      BY <1>0, <1>5, <1>6, <1>7, <2>1, <2>2, <2>3, <2>4, <2>6 DEF StoredOK
  <2> QED BY <2>5, <2>6
<1>10. HueBelongsTogether'
  <2>1. CASE s.host = NoHost
    <3>1. /\ Current("channels", NoChannels)' = Current("channels", NoChannels)
          /\ Current("host", NoHost)' = Current("host", NoHost)
          /\ Current("key", NoHost)' = Current("key", NoHost)
          /\ Current("area", NoArea)' = Current("area", NoArea)
          /\ Current("backend", "lights")' = Current("backend", "lights")
        BY <1>3, <1>4, <2>1
    <3>2. Current("configured", TRUE)' = Current("configured", TRUE)
        BY SavedEntries
    <3>3. HueOutput' = HueOutput
        BY <3>1 DEF HueOutput
    <3>4. UsesHue' = UsesHue
        BY <3>1, <3>2 DEF UsesHue
    <3> QED BY <1>0, <3>3, <3>4 DEF HueBelongsTogether
  <2>2. CASE s.host # NoHost
    <3>1. Current("key", NoHost)' = Current("key", NoHost)
        BY <1>3
    <3> QED BY <1>5, <2>2, <3>1 DEF HueBelongsTogether, HueOutput, Savable
  <2> QED BY <2>1, <2>2
<1>11. LoginFitsTv'
  <2>1. /\ Current("tvHost", NoHost)' = Current("tvHost", NoHost)
        /\ Current("tvLogin", NoHost)' = Current("tvLogin", NoHost)
        /\ Current("input", "legacy")' = Current("input", "legacy")
      BY <1>3
  <2> QED BY <1>0, <2>1 DEF LoginFitsTv, UsesJointSpace, SourceTv
<1> QED BY <1>2, <1>8, <1>9, <1>10, <1>11 DEF IInv, EntryIsConsistent

\* So are the settings of the TV ...
LEMMA TvStepConsistent == IInv /\ TvStep => IInv'
<1> SUFFICES ASSUME IInv, TvStep PROVE IInv'
    OBVIOUS
<1>0. StoredOK /\ HueBelongsTogether /\ EntryComesFirst
    BY DEF IInv, EntryIsConsistent
<1>1. /\ data' = data /\ form' = "none" /\ self' = Fresh /\ Entered
      /\ "input" \in DOMAIN options' <=> "input" \in DOMAIN options
    BY TvEntries
<1>2. FlowIsConsistent' /\ EntryComesFirst'
    BY <1>0, <1>1, FlowEnds, EntryStays
<1>3. /\ Current("input", "")' = Current("input", "")
      /\ Current("channels", NoChannels)' = Current("channels", NoChannels)
      /\ Current("host", NoHost)' = Current("host", NoHost)
      /\ Current("key", NoHost)' = Current("key", NoHost)
      /\ Current("area", NoArea)' = Current("area", NoArea)
      /\ Current("mappings", <<>>)' = Current("mappings", <<>>)
    BY TvEntries
<1>4. /\ Current("backend", "lights")' = Current("backend", "lights")
      /\ Current("configured", TRUE)' = Current("configured", TRUE)
    BY TvEntries
<1> PICK tv \in [host : Tvs, login : Tvs, port : Ports] :
      /\ Answers(tv)
      /\ Current("tvHost", NoHost)' = tv.host /\ Current("tvLogin", NoHost)' = tv.login
      /\ "tvPort" \in DOMAIN options' /\ options'.tvPort = tv.port
    BY TvEntries
<1>5. StoredOK'
    BY <1>0, <1>1, <1>3 DEF StoredOK
<1>6. HueOutput' = HueOutput /\ (UsesHue' = UsesHue)
  <2>1. HueOutput' = HueOutput
      BY <1>3 DEF HueOutput
  <2>2. UsesHue' = UsesHue
      BY <1>4 DEF UsesHue
  <2> QED BY <2>1, <2>2
<1>7. HueBelongsTogether'
    BY <1>0, <1>6 DEF HueBelongsTogether
<1>8. LoginFitsTv'
    BY DEF LoginFitsTv, SourceTv, Answers
<1> QED BY <1>2, <1>5, <1>7, <1>8 DEF IInv, EntryIsConsistent

\* ... the performance settings ...
LEMMA PerformanceConsistent == IInv /\ PerformanceStep => IInv'
<1> SUFFICES ASSUME IInv, PerformanceStep PROVE IInv'
    OBVIOUS
<1>0. StoredOK /\ HueBelongsTogether /\ LoginFitsTv /\ EntryComesFirst
    BY DEF IInv, EntryIsConsistent
<1>1. /\ data' = data /\ form' = "none" /\ self' = Fresh /\ Entered
      /\ "input" \in DOMAIN options' <=> "input" \in DOMAIN options
      /\ "tvPort" \in DOMAIN options' <=> "tvPort" \in DOMAIN options
      /\ "tvPort" \in DOMAIN options => options'.tvPort = options.tvPort
    BY PerformanceEntries
<1>2. FlowIsConsistent' /\ EntryComesFirst'
    BY <1>0, <1>1, FlowEnds, EntryStays
<1>3. /\ Current("input", "")' = Current("input", "")
      /\ Current("input", "legacy")' = Current("input", "legacy")
      /\ Current("channels", NoChannels)' = Current("channels", NoChannels)
      /\ Current("host", NoHost)' = Current("host", NoHost)
      /\ Current("key", NoHost)' = Current("key", NoHost)
      /\ Current("area", NoArea)' = Current("area", NoArea)
      /\ Current("mappings", <<>>)' = Current("mappings", <<>>)
      /\ Current("tvHost", NoHost)' = Current("tvHost", NoHost)
      /\ Current("tvLogin", NoHost)' = Current("tvLogin", NoHost)
    BY PerformanceEntries
<1>4. StoredOK'
    BY <1>0, <1>1, <1>3 DEF StoredOK
<1>5. HueOutput' = HueOutput
    BY <1>3 DEF HueOutput
<1>6. UsesHue' = UsesHue
  <2>1. /\ Current("backend", "lights")' = Current("backend", "lights")
        /\ Current("configured", TRUE)' = Current("configured", TRUE)
      BY PerformanceEntries
  <2> QED BY <2>1 DEF UsesHue
<1>7. HueBelongsTogether'
    BY <1>0, <1>5, <1>6 DEF HueBelongsTogether
<1>8. LoginFitsTv'
  <2>1. UsesJointSpace' = UsesJointSpace
      BY <1>3 DEF UsesJointSpace
  <2>2. SourceTv'.host = SourceTv.host /\ SourceTv'.login = SourceTv.login
      BY <1>3 DEF SourceTv
  <2> QED BY <1>0, <1>1, <2>1, <2>2 DEF LoginFitsTv
<1> QED BY <1>2, <1>4, <1>7, <1>8 DEF IInv, EntryIsConsistent

\* ... and a new bridge.
LEMMA SetupConsistent == IInv /\ SetupAreaStep => IInv'
<1> SUFFICES ASSUME IInv, SetupAreaStep PROVE IInv'
    OBVIOUS
<1>0. StoredOK /\ LoginFitsTv /\ EntryComesFirst
    BY DEF IInv, EntryIsConsistent
<1>1. /\ data' = data /\ form' = "none" /\ self' = Fresh /\ Entered
      /\ "input" \in DOMAIN options' <=> "input" \in DOMAIN options
      /\ "tvPort" \in DOMAIN options' <=> "tvPort" \in DOMAIN options
      /\ "tvPort" \in DOMAIN options => options'.tvPort = options.tvPort
    BY SetupEntries
<1>2. FlowIsConsistent' /\ EntryComesFirst'
    BY <1>0, <1>1, FlowEnds, EntryStays
<1>3. /\ Current("input", "")' = Current("input", "")
      /\ Current("input", "legacy")' = Current("input", "legacy")
      /\ Current("mappings", <<>>)' = Current("mappings", <<>>)
      /\ Current("tvHost", NoHost)' = Current("tvHost", NoHost)
      /\ Current("tvLogin", NoHost)' = Current("tvLogin", NoHost)
    BY SetupEntries
<1> PICK b \in Bridges : \E a \in AreasOf(b) :
      /\ Current("host", NoHost)' = b /\ Current("key", NoHost)' = b
      /\ Current("area", NoArea)' = a
      /\ Current("channels", NoChannels)' = Channels(a, <<>>)
      /\ Current("configured", TRUE)' = TRUE
    BY SetupEntries
<1> PICK a \in AreasOf(b) :
      /\ Current("host", NoHost)' = b /\ Current("key", NoHost)' = b
      /\ Current("area", NoArea)' = a
      /\ Current("channels", NoChannels)' = Channels(a, <<>>)
    OBVIOUS
<1>4. a \in Areas /\ b \in Hosts
    BY ConfigurationAssumption DEF AreasOf
<1>5. /\ Channels(a, <<>>) \in [of : Areas \cup {NoArea}, tv : Seq(Positions)]
      /\ Channels(a, <<>>).of = a /\ Len(Channels(a, <<>>).tv) = a[2]
  <2>1. <<>> \in Seq(Positions)
      OBVIOUS
  <2> QED BY <1>4, <2>1, ChannelsTypes
<1>6. StoredOK'
    BY <1>0, <1>1, <1>3, <1>4, <1>5 DEF StoredOK
<1>7. HueBelongsTogether'
    BY <1>5 DEF HueBelongsTogether, HueOutput
<1>8. LoginFitsTv'
  <2>1. UsesJointSpace' = UsesJointSpace
      BY <1>3 DEF UsesJointSpace
  <2>2. SourceTv'.host = SourceTv.host /\ SourceTv'.login = SourceTv.login
      BY <1>3 DEF SourceTv
  <2> QED BY <1>0, <1>1, <2>1, <2>2 DEF LoginFitsTv
<1> QED BY <1>2, <1>6, <1>7, <1>8 DEF IInv, EntryIsConsistent

\* A step to another form writes nothing.
LEMMA MovesConsistent == IInv /\ Moves => IInv'
<1> SUFFICES ASSUME IInv, Moves PROVE IInv'
    OBVIOUS
<1>1. UNCHANGED <<data, options>> /\ FlowIsConsistent' /\ EntryComesFirst'
    BY DEF Moves
<1>2. StoredOK'
    BY <1>1 DEF IInv, StoredOK, Current, Entered
<1>3. EntryIsConsistent'
    BY <1>1 DEF IInv, EntryIsConsistent, HueBelongsTogether, LoginFitsTv, UsesHue, HueOutput,
        UsesJointSpace, SourceTv, Current, Entered
<1> QED BY <1>1, <1>2, <1>3 DEF IInv

\* A step of Next is one of these.
LEMMA Steps ==
    IInv /\ [Next]_vars =>
        Moves \/ Creates \/ Saves \/ TvStep \/ PerformanceStep \/ SetupAreaStep
<1> SUFFICES ASSUME IInv, [Next]_vars
             PROVE  Moves \/ Creates \/ Saves \/ TvStep \/ PerformanceStep \/ SetupAreaStep
    OBVIOUS
<1>1. CASE Config
    BY <1>1, ConfigSteps
<1>2. CASE Options
    BY <1>2, OptionsSteps
<1>3. CASE Close
  <2>1. UNCHANGED <<data, options>> /\ form' = "none" /\ self' = Fresh
      BY <1>3 DEF Close, Go
  <2>2. EntryComesFirst'
      BY <2>1, MovesInOrder DEF IInv, CreatingForms, ChangingForms, BridgeForms,
          SetupBridgeForms, PairingForms, TvPairingForms
  <2> QED BY <2>1, <2>2, FlowEnds DEF Moves
<1>4. CASE UNCHANGED vars
  <2>1. UNCHANGED <<form, self, data, options>>
      BY <1>4 DEF vars
  <2>2. FlowIsConsistent'
      BY <2>1 DEF IInv, FlowIsConsistent, CreatingIsConsistent, ChangingIsConsistent, Creatable,
          AreaFits, KeyFits, Savable, Answers, Current
  <2>3. EntryComesFirst'
      BY <2>1 DEF IInv, EntryComesFirst, Entered
  <2> QED BY <2>1, <2>2, <2>3 DEF Moves
<1> QED BY <1>1, <1>2, <1>3, <1>4 DEF Next

\* The inductive invariant holds in every state.
LEMMA Invariance == Spec => []IInv
<1>1. IInv /\ [Next]_vars => IInv'
    BY Steps, MovesConsistent, CreatesConsistent, SavesConsistent, TvStepConsistent,
        PerformanceConsistent, SetupConsistent
<1> QED BY InitIInv, <1>1, PTL DEF Spec

\* What the sections of an entry leave of each other.
SectionsAreKept ==
    Entered =>
        /\ SourceTv' # SourceTv => HueOutput' = HueOutput /\ ManualMappings' = ManualMappings
        /\ HueOutput' # HueOutput => SourceTv' = SourceTv
        /\ UsesHue => UsesHue'

\* Each form writes the keys of one section at most.
LEMMA StepsKeepSections == IInv /\ [Next]_vars => SectionsAreKept
<1> SUFFICES ASSUME IInv, [Next]_vars, Entered
             PROVE  /\ SourceTv' = SourceTv \/ (HueOutput' = HueOutput /\ ManualMappings' = ManualMappings)
                    /\ UsesHue => UsesHue'
    BY DEF SectionsAreKept
<1>1. CASE Moves
  <2>1. UNCHANGED <<data, options>>
      BY <1>1 DEF Moves
  <2>2. SourceTv' = SourceTv
      BY <2>1, CurrentStays DEF SourceTv
  <2>3. UsesHue => UsesHue'
      BY <2>1 DEF UsesHue, Current
  <2> QED BY <2>2, <2>3
<1>2. CASE Saves
  <2> PICK s \in Flows : SaveSelf(s)
      BY <1>2 DEF Saves
  <2>1. /\ Current("tvHost", NoHost)' = Current("tvHost", NoHost)
        /\ Current("tvLogin", NoHost)' = Current("tvLogin", NoHost)
        /\ "tvPort" \in DOMAIN options' <=> "tvPort" \in DOMAIN options
        /\ "tvPort" \in DOMAIN options => options'.tvPort = options.tvPort
      BY SavedEntries
  <2>2. SourceTv' = SourceTv
      BY <2>1 DEF SourceTv
  <2>3. Current("configured", TRUE)' = Current("configured", TRUE)
      BY SavedEntries
  <2>4. Current("backend", "lights")' \in {Current("backend", "lights"), "hue"}
      BY SavedEntries
  <2>5. UsesHue => UsesHue'
      BY <2>3, <2>4 DEF UsesHue
  <2> QED BY <2>2, <2>5
<1>3. CASE TvStep
  <2>1. /\ Current("channels", NoChannels)' = Current("channels", NoChannels)
        /\ Current("host", NoHost)' = Current("host", NoHost)
        /\ Current("key", NoHost)' = Current("key", NoHost)
        /\ Current("area", NoArea)' = Current("area", NoArea)
        /\ Current("mappings", <<>>)' = Current("mappings", <<>>)
      BY <1>3, TvEntries
  <2>2. /\ Current("backend", "lights")' = Current("backend", "lights")
        /\ Current("configured", TRUE)' = Current("configured", TRUE)
      BY <1>3, TvEntries
  <2>3. HueOutput' = HueOutput /\ Mappings' = Mappings
      BY <2>1 DEF HueOutput, Mappings
  <2>4. ManualMappings' = ManualMappings
      BY <2>3 DEF ManualMappings
  <2>5. UsesHue => UsesHue'
      BY <2>2 DEF UsesHue
  <2> QED BY <2>3, <2>4, <2>5
<1>4. CASE PerformanceStep
  <2>1. /\ Current("tvHost", NoHost)' = Current("tvHost", NoHost)
        /\ Current("tvLogin", NoHost)' = Current("tvLogin", NoHost)
        /\ "tvPort" \in DOMAIN options' <=> "tvPort" \in DOMAIN options
        /\ "tvPort" \in DOMAIN options => options'.tvPort = options.tvPort
      BY <1>4, PerformanceEntries
  <2>2. SourceTv' = SourceTv
      BY <2>1 DEF SourceTv
  <2>3. /\ Current("backend", "lights")' = Current("backend", "lights")
        /\ Current("configured", TRUE)' = Current("configured", TRUE)
      BY <1>4, PerformanceEntries
  <2>4. UsesHue => UsesHue'
      BY <2>3 DEF UsesHue
  <2> QED BY <2>2, <2>4
<1>5. CASE SetupAreaStep
  <2>1. /\ Current("tvHost", NoHost)' = Current("tvHost", NoHost)
        /\ Current("tvLogin", NoHost)' = Current("tvLogin", NoHost)
        /\ "tvPort" \in DOMAIN options' <=> "tvPort" \in DOMAIN options
        /\ "tvPort" \in DOMAIN options => options'.tvPort = options.tvPort
      BY <1>5, SetupEntries
  <2>2. SourceTv' = SourceTv
      BY <2>1 DEF SourceTv
  <2>3. /\ Current("backend", "lights")' = Current("backend", "lights")
        /\ Current("configured", TRUE)' = TRUE
      BY <1>5, SetupEntries
  <2>4. UsesHue => UsesHue'
      BY <2>3 DEF UsesHue
  <2> QED BY <2>2, <2>4
<1>6. CASE Creates
    BY <1>6 DEF Creates
<1> QED BY <1>1, <1>2, <1>3, <1>4, <1>5, <1>6, Steps

-----------------------------------------------------------------------------
(* The theorems *)

\* Flow, entry data and options have their types, and so has all that set-up reads, for
\* any bridges, areas, TVs and lights.
THEOREM TypeCorrectness == Spec => []TypeOK
<1>1. IInv => TypeOK
  <2> SUFFICES ASSUME IInv PROVE TypeOK
      OBVIOUS
  <2>1. /\ self.host \in Hosts \cup {NoHost} /\ self.key \in Bridges \cup {NoHost}
        /\ self.area \in Areas \cup {NoArea} /\ self.mappings \in Seq(Positions)
      BY DEF IInv, FlowIsConsistent, Flows
  <2>2. /\ Entered => Current("input", "") \in {"legacy", "jointspace"}
        /\ HueOutput.channels.tv \in Seq(Positions) /\ Mappings \in Seq(Positions)
      BY DEF IInv, StoredOK, HueOutput, Mappings
  <2>3. SourceTv.host \in Tvs \cup {NoHost} /\ SourceTv.port \in Ports
      BY ConfigurationAssumption DEF IInv, StoredOK, SourceTv
  <2> QED BY <2>1, <2>2, <2>3 DEF TypeOK
<1> QED BY Invariance, <1>1, PTL

\* In whichever order the forms of both flows are answered, a Hue output is made of a host,
\* a key, an area and channels that belong together, and a TV is asked with its own login.
THEOREM SetUpIsConsistent == Spec => []EntryIsConsistent
<1>1. IInv => EntryIsConsistent
    BY DEF IInv
<1> QED BY Invariance, <1>1, PTL

\* No form of the options writes both the TV's and the bridge's settings, or takes the
\* output away that the entry has.
THEOREM SectionsStayIndependent == Spec => SectionsAreIndependent
<1>1. IInv /\ [Next]_vars => [SectionsAreKept]_vars
    BY StepsKeepSections
<1>2. SectionsAreIndependent <=> [][SectionsAreKept]_vars
    BY PTL DEF SectionsAreIndependent, SectionsAreKept
<1> QED BY Invariance, <1>1, <1>2, PTL DEF Spec
=============================================================================
