--------------------------- MODULE MCToggleConfig ---------------------------
(* neutron.conf and plugin.ini.  The legacy files are spelt as the tool expects:
   "mechanism_drivers =", with a blank, and the other keys without; one of them
   repeats an item in a second section, one pair has no [ml2_apic_aim], and one
   plugin.ini is empty, next to a neutron.conf with items in several
   sections.  The plain files are spelt alike throughout. *)
EXTENDS ToggleConfig

AimSections == {"ml2_cisco_apic", "apic", "aim", "apic_switch:1"}
MCSections == {"DEFAULT", "ml2", "group_policy", "ml2_apic_aim"} \cup AimSections
\* Of any two of the four sections that the changes name either may come first.
MCDictOrders ==
    {[s \in MCSections |-> CASE s = "DEFAULT" -> 1 [] s = "ml2" -> 2
                             [] s = "group_policy" -> 3 [] s = "ml2_apic_aim" -> 4
                             [] s = "ml2_cisco_apic" -> 5 [] s = "apic" -> 6
                             [] s = "aim" -> 7 [] OTHER -> 8],
     [s \in MCSections |-> CASE s = "DEFAULT" -> 4 [] s = "ml2" -> 3
                             [] s = "group_policy" -> 2 [] s = "ml2_apic_aim" -> 1
                             [] s = "ml2_cisco_apic" -> 5 [] s = "apic" -> 6
                             [] s = "aim" -> 7 [] OTHER -> 8]}
Items == {c.item : c \in ToSet(Changes)}
MCKeys == Items \cup {"agent_down_time", "core_plugin ", "mechanism_drivers", "other"}
                \cup {"debug", "aim_system_id", "apic_system_id", "apic_domain_name",
                      "apic_hosts", "apic_username", "scope_infra", "apic_vpc_pairs"}
MCOptionOf == [k \in MCKeys |-> CASE k = "core_plugin " -> "core_plugin"
                                  [] k = "mechanism_drivers " -> "mechanism_drivers"
                                  [] OTHER -> k]

Section(pairs) == [k \in MCKeys |->
    IF \E p \in pairs : p[1] = k THEN (CHOOSE p \in pairs : p[1] = k)[2] ELSE Absent]
Ini(default, ml2, gbp, aim) ==
    [s \in MCSections |-> CASE s = "DEFAULT" -> default [] s = "ml2" -> ml2
                            [] s = "group_policy" -> gbp [] s = "ml2_apic_aim" -> aim
                            [] OTHER -> NoSection]
Pair(neutron, plugin) == [f \in Files |-> IF f = NeutronConf THEN neutron ELSE plugin]

Default(more) == Section({<<"core_plugin", "ml2">>, <<"other", "site">>} \cup more)
Ml2(more) == Section({<<"mechanism_drivers ", "cisco_apic_ml2">>, <<"other", "site">>} \cup more)
Gbp == Section({<<"policy_drivers", "implicit_policy,apic">>})

LegacyNeutron ==
    [Ini(Default({<<"service_plugins", "cisco_apic_l3">>, <<"debug", "True">>,
                  <<"apic_system_id", "site">>}), NoSection, NoSection, NoSection)
        EXCEPT !["apic"] = Section({<<"apic_hosts", "True">>})]
WholeNeutron == [LegacyNeutron EXCEPT !["group_policy"] = Gbp]
LegacyPlugin ==
    [Ini(NoSection, Ml2({<<"extension_drivers", "site">>}), Gbp, NoSection)
        EXCEPT !["ml2_cisco_apic"] = Section({<<"apic_hosts", "site">>, <<"apic_domain_name", "site">>})]
RepeatedPlugin ==
    [Ini(NoSection, Ml2({}), Section({<<"mechanism_drivers ", "site">>}), Section({}))
        EXCEPT !["apic_switch:1"] = Section({<<"other", "site">>})]

LegacyFiles == {Pair(LegacyNeutron, LegacyPlugin), Pair(LegacyNeutron, RepeatedPlugin),
                Pair(WholeNeutron, NoIni)}

PlainFiles ==
    {Pair(Ini(Section({<<"core_plugin ", "ml2">>}), NoSection, NoSection, NoSection),
          Ini(NoSection, Section({<<"mechanism_drivers ", "cisco_apic_ml2">>}), NoSection, NoSection)),
     Pair(Ini(Section({<<"core_plugin", "ml2">>}), NoSection, NoSection, NoSection),
          Ini(NoSection, Section({<<"mechanism_drivers", "cisco_apic_ml2">>}), NoSection, NoSection))}

\* An option that neutron.conf gives twice, as neutron's service_provider.
MCDropped == {[file |-> "neutron.conf", section |-> "DEFAULT", key |-> "other", value |-> "True"]}

ASSUME SpeltAlikeHere == SpeltAlike
============================================================================
