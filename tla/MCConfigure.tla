---------------------------- MODULE MCConfigure ----------------------------
(***************************************************************************)
(* How the device gets its configuration: the page (HttpConfig), and how   *)
(* what was configured is read (Utils).  The parsing functions keep no     *)
(* state, so a behaviour takes the steps of one of the two.                *)
(***************************************************************************)
EXTENDS HttpConfig, Utils

MCInitial == [k \in {"sta_ssid", "mqtt_host"} |-> <<"a">>]

\* A value to escape next to a blank, an empty value, an unknown key and the
\* empty form.
MCForms ==
    {<< <<"sta_ssid", <<"&", " ">>>>, <<"mqtt_host", <<>>>> >>,
     << <<"button", <<"a">>>>, <<"mqtt_host", <<" ">>>> >>,
     <<>>}

\* ".", "0", "255", "256", "fA", and "999", which overflows an int of 10 bits
MCTokens ==
    {<<46>>, <<48>>, <<50, 53, 53>>, <<50, 53, 54>>, <<102, 65>>, <<57, 57, 57>>}

Page(action) == UtilsInit /\ action /\ UNCHANGED utilsVars

ConfigureVars == <<httpVars, utilsVars>>
ConfigureInit == Init /\ UtilsInit
ConfigureNext ==
    \/ Page(Next)
    \/ Init /\ UtilsNext /\ UNCHANGED httpVars

\* The fairness of HttpConfig's FairSpec
ConfigureSpec ==
    /\ ConfigureInit /\ [][ConfigureNext]_ConfigureVars
    /\ WF_ConfigureVars(Page(Ask))
    /\ WF_ConfigureVars(Page(Recieve \/ Fault))
=============================================================================
