-------------------------- MODULE MCDevToolsBridge --------------------------
\* Two script sources and a handler name, each of which may be added and
\* removed again, and evaluations that answer nothing or throw.
EXTENDS DevToolsBridge
CONSTANTS s1, s2, h1
MCApi == {"addUserScript", "removeAllUserScripts", "addMessageHandler",
          "removeMessageHandler", "evaluateJavaScript"}
MCScripts == {"addUserScript", "removeAllUserScripts"}
MCPrograms == {"undefined", "throws"}
=============================================================================
