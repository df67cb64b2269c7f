----------------------------- MODULE Directives -----------------------------
(***************************************************************************)
(* The configuration of a directory: the fields the directives set         *)
(* (config_utils.c), what they hold when no directive did                  *)
(* (my_create_dir_conf) and how the sections that apply to a request are   *)
(* combined (my_merge_dir_conf); the same for a server.                    *)
(*                                                                         *)
(* A value is a number.  0 also stands for the empty string, the NULL      *)
(* pointer and the empty table, any other number for one string, list or   *)
(* table the administrator may write.                                      *)
(***************************************************************************)
EXTENDS Integers, FiniteSets

------------------------------------------------------------------------------
(* The fields, in the order of the functions that set them.  Each of these *)
(* directives stores its argument in the field of its name.                *)

FirstPrefixes == {"m_pcCookieDomain", "m_pcUrlPrefix", "m_pcHkPrefix", "m_pcInsertCSS",
    "m_pcConfBaseUrl", "m_pcRedirectTipString", "m_pcRedirectTipURL"}
LatePrefixes == {"m_pcSUrlPrefix", "m_pcJsPrefix", "m_pcHTTPPrefix", "m_pcFramePrefix",
    "m_pcExtraData"}
Encodes == {"m_iIsRedirectAbsolute", "m_iExtraDataIgnoreJs", "m_iShouldExpandJs",
    "m_iFromEncode", "m_iApiOutEncode", "m_iToEncode"}
PageFlags == {"m_iShouldChangeUrlInServer", "m_iConvertWord", "m_iIsUnicode", "m_iIsUTF8",
    "m_iPostdataResetUrl", "m_iAutoUseUnicode", "m_iForceOutputUnicode", "m_iProcessWord",
    "m_iUnConvertWholeUrl", "m_iNoMimeNoConvert", "m_iIgnoreUrlEncode",
    "m_iNotSetContentTypeCharset"}
EscapeFlags == {"m_iMarkUTF8Url", "m_iUnescapeChar", "m_iOutputEscapeChar",
    "m_iNotConvertGetPostData", "m_iNotModifyContentType", "m_iIgnoreUrlPrefix",
    "m_iUseUnicodeTable", "m_iOutputSameEncode", "m_iKeepUTF8Encode",
    "m_iTreatScriptAsHtml"}
PostFlags == {"m_iIgnorePostDataEncode", "m_iNotDetectAttachment", "m_iPostRawDataAsUTF8",
    "m_iUnescapePostData", "m_iHandleOLDURL", "m_iPostDataIsUTF8", "m_iEscapeUTF8Char",
    "m_iForceOutputUTF8", "m_iForcePostUTF8", "m_iNotConvertPage", "m_iUseOrigProxy"}
OutputFlags == {"m_iNotProcessPercent25", "m_iRedirectTip", "m_iProcessPicture",
    "m_iUnconvertOutput", "m_iNotChangeTextboxUrl", "m_iNotSetCookie", "m_iResumeLogs",
    "m_iDetectUTF8", "m_iDetectUTF8BOM", "m_iChangedUrlEncode", "m_iNoCache"}
InputFlags == {"m_iInConvertUnicode", "m_iSeekPhoto", "m_iGetClientIP", "m_iIshkword",
    "m_iInShouldConvert", "m_iInConvertWord", "m_iReplaceHttpInText",
    "m_iAddTrailingSlash"}
Settings == {"m_pUseTableFile", "m_iChangeChineseLevel", "m_iRedirectTipTime",
    "m_iForceRedirectTip", "m_pcExtraCookie", "m_pcUnconvertSymbol", "m_pcSetContentType",
    "m_pcNativeDomain", "m_iCookiePathMode"}
UrlMaps == {"m_pUrlMap", "m_pUrlMapNE", "m_pUrlModify", "m_pUrlMapJS",
    "m_iProcessScriptLevel", "m_iScriptChangeChineseLevel", "m_iChangeScriptByDefault",
    "m_iValueChangeChineseLevel"}
CookieFlags == {"m_iForceConvertPage", "m_iSendURLsAsUTF8", "m_iNotReplaceUrl",
    "m_iConvertCookie", "m_iConvertContentDisposition", "m_iMergeCookie",
    "m_iAddUrlPrefixToParameter"}
ApiSettings == {"m_pcNotLicensedPage", "m_iNotConvert404", "m_iApi", "m_pConvertExts"}

DirFields ==
    UNION {FirstPrefixes, LatePrefixes, Encodes, PageFlags, EscapeFlags, PostFlags, OutputFlags,
           InputFlags, Settings, UrlMaps, CookieFlags, ApiSettings}

------------------------------------------------------------------------------
(* What my_merge_dir_conf does with each.                                  *)

\* Never NULL: the inner section's table, however empty, hides the outer one.
NeverInherited == {"m_pUseTableFile", "m_pUrlMap", "m_pUrlMapNE", "m_pUrlModify", "m_pUrlMapJS"}

\* Inherited where it holds 0: texts, pointers, and two numbers.
InheritedIfZero ==
    UNION {FirstPrefixes, LatePrefixes,
           {"m_pcExtraCookie", "m_pcUnconvertSymbol", "m_pcSetContentType", "m_pcNativeDomain",
            "m_iChangeChineseLevel", "m_iRedirectTipTime", "m_pcNotLicensedPage"}}

\* Inherited where no directive of the section set it.
InheritedIfUnset ==
    UNION {Encodes \ {"m_iToEncode"}, InputFlags, UrlMaps \ NeverInherited,
           {"m_iShouldChangeUrlInServer", "m_iConvertWord", "m_iIsUnicode",
            "m_iCookiePathMode", "m_iNotConvert404", "m_iApi"}}

\* Every other flag is that of the section itself, 0 if it does not set it.
Own == DirFields \ UNION {NeverInherited, InheritedIfZero, InheritedIfUnset,
                          {"m_iToEncode", "m_pConvertExts"}}

\* my_create_dir_conf.
Initial(f) ==
    IF f \in (InheritedIfZero \ {"m_iRedirectTipTime"}) \cup NeverInherited \cup {"m_pConvertExts"}
    THEN 0 ELSE -1

\* Wrong variant: whatever the inner section does not set is the outer one's.
MergeFieldInheritsAll(base, add, f) ==
    IF add[f] # Initial(f) THEN add[f] ELSE base[f]

\* Field f of the merge of an inner section, add, into an outer one.
MergeField(base, add, f) ==
    CASE f \in NeverInherited   -> add[f]
      [] f \in Own              -> IF add[f] = -1 THEN 0 ELSE add[f]
      [] f \in InheritedIfZero  -> IF add[f] = 0 THEN base[f] ELSE add[f]
      [] f \in InheritedIfUnset -> IF add[f] = -1 THEN base[f] ELSE add[f]
      [] f = "m_iToEncode"      -> IF add["m_iFromEncode"] = -1 THEN base[f] ELSE add[f]
      [] f = "m_pConvertExts"   -> 0

------------------------------------------------------------------------------
(* The fields of a server, apart from its domains.                         *)

Switches  == {"addr_domain", "m_iHostAddrPort", "WebPageMaxSize", "m_iExportApi"}
ExtLists  == {"m_pcBinaryFileExt", "m_pcHtmlFileExt", "m_pcKeepUrlSuffix"}
SvrExts   == {"m_pConvertExts of the server"}
SvrFields == UNION {Switches, ExtLists, SvrExts}

\* A field no directive set; the code keeps a mark or a count for each.
NotSet == -1

\* What the merge of a virtual host into the main server has for field f: the
\* three lists are the main server's.
MergeSvrField(base, overrides, f) ==
    IF f \in ExtLists \/ overrides[f] = NotSet THEN base[f] ELSE overrides[f]
=============================================================================
