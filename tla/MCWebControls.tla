---------------------------- MODULE MCWebControls ----------------------------
\* WebControls with the navigators of a few browsers and two names of cookies, of which
\* one begins with the other.
EXTENDS WebControls

Navigator(userAgent, vendor, platform, activeX) ==
  [userAgent |-> userAgent, appVersion |-> userAgent, vendor |-> vendor,
   platform |-> platform, opera |-> {}, ActiveXObject |-> activeX]

SomeNames == {<<"i", "d">>, <<"i", "d", "s">>}

SomeNavigators ==
  { Navigator({"Mozilla", "Gecko", "Chrome", "Safari"}, {"Google"}, {"Linux"}, {}),
    Navigator({"Mozilla", "Gecko", "Version", "Safari", "iPhone"}, {"Apple"}, {"iPhone"}, {}),
    Navigator({"Mozilla", "Gecko", "Firefox", "rv", "Windows"}, {}, {"Win"}, {}),
    Navigator({"Mozilla", "MSIE", "Windows"}, {}, {"Win"}, {"ActiveXObject"}),
    Navigator({"Lynx"}, {}, {}, {}) }
=============================================================================
