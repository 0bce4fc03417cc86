----------------------------- MODULE ClientCalls -----------------------------
(***************************************************************************)
(* The functions of the client classes that are sequences of command       *)
(* functions (clients/mqtt.cpp, http.cpp, secure.cpp, sms.cpp, gnss.h and  *)
(* modem.cpp), as scripts.  An argument that may be NULL, or a flag, makes *)
(* two scripts of one function.                                            *)
(***************************************************************************)
EXTENDS AtScript, TLC

mqttBegin       == InTurn(<<"start", "acquireClient">>)
mqttBeginSecure == InTurn(<<"start", "acquireClient", "setSSLContext">>)
mqttEnd         == InTurn(<<"releaseClient", "stop">>)
mqttConnect     == InTurn(<<"connect">>)
mqttConnectWill == InTurn(<<"setWillTopic", "setWillMessage", "connect">>)
mqttDisconnect  == InTurn(<<"disconnect">>)
mqttSubscribe   == InTurn(<<"subscribe">>)

\* A slip of publish(): the code of setTopic is dropped.
mqttPublish_DropsCode ==
  [InTurn(<<"setTopic", "setPayload", "publish">>)
     EXCEPT !["go"] = CallTo("setTopic", "2nd", "2nd")]

mqttPublish == InTurn(<<"setTopic", "setPayload", "publish">>)

MqttCalls ==
  [mqttBegin |-> mqttBegin, mqttBeginSecure |-> mqttBeginSecure,
   mqttEnd |-> mqttEnd, mqttConnect |-> mqttConnect,
   mqttConnectWill |-> mqttConnectWill, mqttDisconnect |-> mqttDisconnect,
   mqttPublish |-> mqttPublish, mqttSubscribe |-> mqttSubscribe]

-----------------------------------------------------------------------------
httpBegin               == InTurn(<<"httpInit">>)
httpEnd                 == InTurn(<<"httpTerm">>)
addHeader               == InTurn(<<"configHttp">>)
getResponseHeader       == InTurn(<<"readHeader">>)
getResponseHeaderNoRoom == InTurn(<<"readHeaderTooLong">>)
getResponseBody         == InTurn(<<"readResponseBody">>)

\* request() without and with the headers Accept: and Content-Type: and a body
request     == InTurn(<<"configHttp", "action">>)
requestBody == InTurn(<<"configHttp", "configHttp", "configHttp", "inputData", "action">>)

\* request() with a user agent: what addHeader() returns is not looked at.
requestAgent == [go    |-> CallTo("configHttp", "agent", "FALSE"),
                 agent |-> CallTo("addHeader", "action", "action"),
                 action |-> CallTo("action", "TRUE", "FALSE")]

HttpCalls ==
  [httpBegin |-> httpBegin, httpEnd |-> httpEnd, addHeader |-> addHeader,
   getResponseHeader |-> getResponseHeader,
   getResponseHeaderNoRoom |-> getResponseHeaderNoRoom,
   getResponseBody |-> getResponseBody, request |-> request,
   requestBody |-> requestBody, requestAgent |-> requestAgent]

-----------------------------------------------------------------------------
setCaCert             == InTurn(<<"configSSL", "configSSL">>)
writeCaCert           == InTurn(<<"certOverwrite", "setCaCert">>)
setClientCertAndKey   == InTurn(<<"configSSL", "configSSL", "configSSL", "configSSL">>)
writeClientCertAndKey == InTurn(<<"certOverwrite", "certOverwrite", "certOverwrite",
                                  "setClientCertAndKey">>)
setCerts              == InTurn(<<"setCaCert", "setClientCertAndKey", "configSSL">>)
configureSSL          == InTurn(<<"configSSL", "configSSL", "configSSL">>)

SecureCalls ==
  [setCaCert |-> setCaCert, writeCaCert |-> writeCaCert,
   setClientCertAndKey |-> setClientCertAndKey,
   writeClientCertAndKey |-> writeClientCertAndKey,
   setCerts |-> setCerts, configureSSL |-> configureSSL]

-----------------------------------------------------------------------------
smsBegin    == InTurn(<<"setStorage", "setNotification">>)
smsRemove   == InTurn(<<"remove">>)
enableGNSS  == InTurn(<<"powerControlOn", "gnssConfig", "gnssConfig", "gnssConfig">>)
disableGNSS == InTurn(<<"powerControlOff">>)
GPRSConnect == InTurn(<<"pdpParameters", "pdpContext">>)
syncTime    == InTurn(<<"setNTPParams", "updateSystemTime">>)

ModemCalls ==
  [smsBegin |-> smsBegin, smsRemove |-> smsRemove, enableGNSS |-> enableGNSS,
   disableGNSS |-> disableGNSS, GPRSConnect |-> GPRSConnect, syncTime |-> syncTime]

ClientScripts == MqttCalls @@ HttpCalls @@ SecureCalls @@ ModemCalls
=============================================================================
